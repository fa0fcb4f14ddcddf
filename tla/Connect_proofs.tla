--------------------------- MODULE Connect_proofs ---------------------------
(***************************************************************************)
(* Proofs about connect(), for every number of attempts, every password of *)
(* the server, every nonce and every bound on the iteration count.         *)
(***************************************************************************)
EXTENDS Connect, Integers, TLAPS

\* The time, in seconds, that a prover may take for a leaf.
USE SMTT(20), ZenonT(20)

-----------------------------------------------------------------------------
(* Sequences *)

LEMMA SeqLen ==
  ASSUME NEW S, NEW q \in Seq(S)
  PROVE  Len(q) \in Nat /\ q \in [1..Len(q) -> S] /\ DOMAIN q = 1..Len(q)
  OBVIOUS

LEMMA SeqElem ==
  ASSUME NEW S, NEW q \in Seq(S), NEW i \in 1..Len(q)
  PROVE  q[i] \in S
  OBVIOUS

LEMMA SeqEmpty ==
  ASSUME NEW S
  PROVE  /\ <<>> \in Seq(S) /\ Len(<<>>) = 0
         /\ \A q \in Seq(S) : q # <<>> => Len(q) \in Nat \ {0}
  OBVIOUS

LEMMA SeqTail ==
  ASSUME NEW S, NEW q \in Seq(S), q # <<>>
  PROVE  /\ Head(q) \in S /\ Tail(q) \in Seq(S) /\ Len(Tail(q)) = Len(q) - 1
         /\ \A i \in 1..Len(Tail(q)) : Tail(q)[i] = q[i + 1]
  OBVIOUS

LEMMA SeqAppend ==
  ASSUME NEW S, NEW q \in Seq(S), NEW x \in S
  PROVE  /\ Append(q, x) \in Seq(S) /\ Append(q, x) # <<>> /\ Len(Append(q, x)) = Len(q) + 1
         /\ \A i \in 1..Len(q) : Append(q, x)[i] = q[i]
         /\ Append(q, x)[Len(q) + 1] = x
  OBVIOUS

LEMMA SeqConcat ==
  ASSUME NEW S, NEW p \in Seq(S), NEW q \in Seq(S)
  PROVE  /\ p \o q \in Seq(S) /\ Len(p \o q) = Len(p) + Len(q)
         /\ \A i \in 1..(Len(p) + Len(q)) :
              (p \o q)[i] = IF i <= Len(p) THEN p[i] ELSE q[i - Len(p)]
  OBVIOUS

LEMMA SeqPart ==
  ASSUME NEW S, NEW q, NEW m \in Int, NEW n \in Int, \A i \in m..n : q[i] \in S
  PROVE  /\ SubSeq(q, m, n) \in Seq(S)
         /\ Len(SubSeq(q, m, n)) = IF m <= n THEN n - m + 1 ELSE 0
         /\ \A i \in 1..(n - m + 1) : SubSeq(q, m, n)[i] = q[m + i - 1]
  OBVIOUS

LEMMA SeqSame ==
  ASSUME NEW S, NEW p \in Seq(S), NEW q \in Seq(S), Len(p) = Len(q),
         \A i \in 1..Len(p) : p[i] = q[i]
  PROVE  p = q
  OBVIOUS

LEMMA SeqUnit ==
  ASSUME NEW S, NEW q \in Seq(S)
  PROVE  q \o <<>> = q /\ <<>> \o q = q
  OBVIOUS

LEMMA SeqAssoc ==
  ASSUME NEW S, NEW p \in Seq(S), NEW q \in Seq(S), NEW r \in Seq(S)
  PROVE  (p \o q) \o r = p \o (q \o r)
  OBVIOUS

LEMMA SeqWider ==
  ASSUME NEW S, NEW T, NEW q \in Seq(S), S \subseteq T
  PROVE  q \in Seq(T)
  OBVIOUS

LEMMA AppendConcat ==
  ASSUME NEW S, NEW q \in Seq(S), NEW x \in S
  PROVE  Append(q, x) = q \o <<x>>
  OBVIOUS

LEMMA SeqWhole ==
  ASSUME NEW S, NEW q \in Seq(S)
  PROVE  SubSeq(q, 1, Len(q)) = q
  OBVIOUS

LEMMA SeqParts ==
  ASSUME NEW S, NEW q \in Seq(S), NEW m \in 1..(Len(q) + 1), NEW k \in (m - 1)..Len(q),
         NEW n \in k..Len(q)
  PROVE  SubSeq(q, m, k) \o SubSeq(q, k + 1, n) = SubSeq(q, m, n)
  OBVIOUS

-----------------------------------------------------------------------------
(* The exchange of SCRAM, with the nonce n of the client *)

\* The two server-first-messages that answer the client, and those that do not.
Goods(n) ==
  {SaslFirst(<<n, "server_nonce">>, "2"), SaslFirst(<<n, "server_nonce">>, "2") \o <<Comma, "x=">>}

Bads(n) ==
  {SaslFirst(<<n, "server_nonce">>, c) : c \in {"0", "too_many", "NaN"}} \cup
  {SaslFirst(x, "2") : x \in {<<>>, <<"other_nonce">>, <<"unprintable">>}} \cup
  {SubSeq(SaslFirst(<<n, "server_nonce">>, "2"), 1, i) : i \in 0..7} \cup
  {<<"m=", Comma>>, <<"m", Comma>>}

BareOf(n) == <<BareStart, n>>
FinalOf(n) == ClientFinal(<<n, "server_nonce">>)
AuthOf(n, d) == BareOf(n) \o <<Comma>> \o d \o <<Comma>> \o WithoutProof(FinalOf(n))
ProofsOf(pw, n, d) == ComputeProofs(pw, <<"salt">>, 2, AuthOf(n, d))

-----------------------------------------------------------------------------
(* The inductive invariant.  The messages that were sent and not handled lead *)
(* startup_fsm_impl from where it is to a position that the server's state    *)
(* determines.                                                                *)

\* The position of startup_fsm_impl after the message m: 9 is a success, 10 an error
\* that the server has caused, and 0 every other error.
Move(p, m, scram, wbuf) ==
  CASE p \in {2, 4, 6, 7, 8} /\ m.kind = "error_response" -> 10
    [] p = 2 /\ m.kind = "authentication_sasl" ->
         IF "SCRAM-SHA-256" \in m.mechanisms THEN 3 ELSE 10
    [] p = 2 /\ m.kind \in UnknownAuth -> 10
    [] p \in {2, 7} /\ m.kind = "authentication_ok" -> 8
    [] p = 4 /\ m.kind = "authentication_sasl_continue" ->
         IF OnServerFirst(scram, wbuf, m.data, Password).ec = "ok" THEN 5 ELSE 0
    [] p = 6 /\ m.kind = "authentication_sasl_final" ->
         IF OnServerFinal(scram, m.data) = "ok" THEN 7 ELSE 0
    [] p = 8 /\ m.kind \in {"backend_key_data", "parameter_status", "notice_response"} -> 8
    [] p = 8 /\ m.kind = "ready_for_query" -> 9
    [] OTHER -> 0

\* Positions at which the client writes or has returned: no message is ahead of it.
Turns == {1, 3, 5, 9}

\* P leads from the position p over the messages q.
Path(P, p, q, scram, wbuf) ==
  /\ P \in [1..(Len(q) + 1) -> 0..10] /\ P[1] = p
  /\ \A i \in 1..Len(q) : P[i] \notin Turns /\ P[i + 1] = Move(P[i], q[i], scram, wbuf)

\* Where the client will be when it has read all that a server in the state x has
\* sent; 0: it will have given up.
Meets(x, p) ==
  \/ p = 0 /\ x \in {"startup", "sasl", "sasl_first", "approved", "ready", "refused", "stopped"}
  \/ p = 1 /\ x = "open"
  \/ p = 2 /\ x = "startup"
  \/ p = 3 /\ x = "sasl"
  \/ p = 4 /\ x = "sasl_first"
  \/ p = 5 /\ x = "sasl"
  \/ p = 6 /\ x \in {"sasl_final", "verified"}
  \/ p = 8 /\ x = "approved"
  \/ p = 9 /\ x = "ready"
  \/ p = 10 /\ x \in {"refused", "stopped"}

\* A server that follows the protocol and sends no notice during the authentication.
Fair(s) == s.honest /\ s.quiet

Met(P, q, s) ==
  /\ Meets(s.state, P[Len(q) + 1])
  /\ Fair(s) => \A i \in 1..(Len(q) + 1) : P[i] # 0

Linked(im, wbuf, q, s) == \E P : Path(P, im.rp, q, im.scram, wbuf) /\ Met(P, q, s)

\* What is known of a message on its way.
Carried(m, s) ==
  /\ m.sess = s.sess
  /\ m.kind = "authentication_sasl_continue" =>
       /\ m.data = s.first /\ s.state \notin {"open", "startup", "sasl_first"}
       /\ s.state = "sasl" => \A n \in Nonces : s.bare = BareOf(n) => s.first \in Goods(n)
  /\ m.kind = "authentication_sasl_final" => m.data.signature \in {{}, s.sig}

Carries(q, s) == \A i \in 1..Len(q) : Carried(q[i], s)

\* What the client and the server share, at each position of the exchange.
Shares(im, wbuf, s, n) ==
  /\ im.rp # 5 => im.scram = OnInit(<<n>>).scram /\ wbuf = OnInit(<<n>>).wbuf
  /\ im.rp # 3 => s.bare = BareOf(n)
  /\ im.rp = 5 =>
       /\ s.first \in Goods(n)
       /\ im.scram.signature = ProofsOf(Password, n, s.first).signature
       /\ wbuf = [bytes |-> FinalOf(n), proof |-> ProofsOf(Password, n, s.first).proof]

Knows(im, wbuf, s) ==
  /\ im.rp = 1 => wbuf = [bytes |-> <<"startup">>, proof |-> {}]
  /\ im.rp \in 1..4 => im.scram.signature = {}
  /\ im.rp \in 3..5 => \E n \in Nonces : Shares(im, wbuf, s, n)
  /\ im.rp \in 5..7 => im.scram.signature # {}
  /\ im.rp \in 1..5 => s.sig = {}
  /\ s.sig # {} => s.sig = im.scram.signature /\ s.pw = Password
  /\ s.state = "verified" => s.sig # {}
  /\ (im.rp \in {7, 8} /\ im.scram.signature # {}) => s.sig # {}

IsState(s) == s = [wbuf |-> s.wbuf, rbuf |-> s.rbuf, key |-> s.key, diag |-> s.diag]
IsImpl(im) == im = [rp |-> im.rp, scram |-> im.scram]
Server(sess, state, pw, bare, first, sig, honest, quiet, extra) ==
  [sess |-> sess, state |-> state, pw |-> pw, bare |-> bare, first |-> first,
   sig |-> sig, honest |-> honest, quiet |-> quiet, extra |-> extra]
IsServer(s) ==
  /\ s = Server(s.sess, s.state, s.pw, s.bare, s.first, s.sig, s.honest, s.quiet, s.extra)
  /\ s.honest \in BOOLEAN /\ s.quiet \in BOOLEAN

Ahead == st.rbuf \o inflight
Talks == pc \in {"writing", "reading", "parsing"}

\* Where connect() is, and what that says of the socket's other end.
Places ==
  /\ pc \in {"idle", "connecting"} => srv.state = "none" /\ inflight = <<>>
  /\ pc = "connecting" => st.rbuf = <<>> /\ impl = NewImpl /\ srv.sess < attempt
  /\ pc = "writing" => impl.rp \in {1, 3, 5}
  /\ pc \in {"reading", "parsing"} => impl.rp \in {2, 4, 6, 7, 8}
  /\ pc = "up" => impl.rp = 8 /\ srv.state = "ready"
  /\ pc \notin {"idle", "up"} => ret.ec = "none"
  /\ srv.sess <= attempt

Dialogue ==
  /\ \E M : st.rbuf \in Seq(M) /\ inflight \in Seq(M)
  /\ Linked(impl, st.wbuf, Ahead, srv) /\ Carries(Ahead, srv)

\* The two sides of a call that began with an empty read buffer are in step.
InStep ==
  /\ TypeOK /\ IsState(st) /\ IsImpl(impl) /\ IsServer(srv) /\ Places
  /\ FailsForCause /\ ProofAccepted
  /\ Talks => Dialogue
  /\ (Talks \/ pc = "up") => Knows(impl, st.wbuf, srv)

\* What holds of every call, whatever its read buffer held.
Situation ==
  /\ pc \in {"idle", "connecting"} => sock = "closed" /\ srv.state = "none" /\ inflight = <<>>
  /\ pc \notin {"idle", "connecting"} => sock = "open"
  /\ pc = "connecting" => impl = NewImpl /\ srv.sess < attempt
  /\ pc = "writing" => impl.rp \in {1, 3, 5}
  /\ pc \in {"reading", "parsing"} => impl.rp \in {2, 4, 6, 7, 8}
  /\ pc = "up" => impl.rp = 8
  /\ pc \notin {"idle", "up"} => ret.ec = "none"
  /\ srv.sess <= attempt

\* Every message was sent in some session.
Dated(a, b) ==
  \E M : a \in Seq(M) /\ b \in Seq(M) /\ \A m \in M : m.sess \in 0..MaxAttempts

Base ==
  /\ TypeOK /\ IsState(st) /\ IsImpl(impl) /\ IsServer(srv)
  /\ Situation /\ Dated(st.rbuf, inflight)

IInv == Base /\ (fresh => InStep)

-----------------------------------------------------------------------------
(* The messages of SCRAM *)

\* CommaFrom finds the comma that no other comma precedes.
LEMMA CommaAt ==
  ASSUME NEW t, NEW i \in Nat, Len(t) \in Nat, NEW j \in i..Len(t), t[j] = Comma,
         \A k \in i..(j - 1) : t[k] # Comma
  PROVE  CommaFrom(t, i) = j
  BY DEF CommaFrom

LEMMA CommaNone ==
  ASSUME NEW t, NEW i, \A k \in i..Len(t) : t[k] # Comma
  PROVE  CommaFrom(t, i) = 0
  BY DEF CommaFrom

\* v is a followed by b, element by element.
IsJoin(v, a, b, S) ==
  /\ v \in Seq(S) /\ Len(v) = Len(a) + Len(b) /\ Len(a) \in Nat /\ Len(b) \in Nat
  /\ \A i \in 1..Len(a) : v[i] = a[i]
  /\ \A i \in (Len(a) + 1)..Len(v) : v[i] = b[i - Len(a)]

LEMMA Joins ==
  ASSUME NEW S, NEW a \in Seq(S), NEW b \in Seq(S)
  PROVE  IsJoin(a \o b, a, b, S)
  BY SeqConcat, SeqLen DEF IsJoin

LEMMA JoinedLen ==
  ASSUME NEW S, NEW a \in Seq(S), NEW b \in Seq(S)
  PROVE  a \o b \in Seq(S) /\ Len(a \o b) = Len(a) + Len(b)
  BY SeqConcat

LEMMA TwoInARow ==
  ASSUME NEW a, NEW b
  PROVE  <<a>> \o <<b>> = <<a, b>>
  <1> DEFINE u == <<a>>
             v == <<b>>
             w == u \o v
             S == {a, b}
  <1>1. u \in Seq(S) /\ v \in Seq(S) /\ Len(u) = 1 /\ Len(v) = 1 /\ u[1] = a /\ v[1] = b
    OBVIOUS
  <1> HIDE DEF u, v, w, S
  <1>2. IsJoin(w, u, v, S)
    BY <1>1, Joins DEF w
  <1>4. w = <<a, b>>
    BY <1>1, <1>2 DEF IsJoin
  <1>. QED
    BY <1>4 DEF w, u, v

LEMMA SecondOfTwo ==
  ASSUME NEW a, NEW b
  PROVE  SubSeq(<<a, b>>, 2, 2) = <<b>>
  <1> DEFINE t == <<a, b>>
             u == SubSeq(t, 2, 2)
             S == {a, b}
  <1> HIDE DEF t, S
  <1> HIDE DEF u
  <1>4. u \in Seq(S) /\ Len(u) = 1 /\ u[1] = b
    BY SeqPart DEF t, S, u
  <1>5. u = <<b>>
    BY <1>4
  <1>. QED
    BY <1>5 DEF u, t

\* The tokens of a server-first-message with the nonce of the client, n.
Tokens(n, c) == <<"r=", n, "server_nonce", Comma, "s=", "salt", Comma, "i=", c>>

\* The shape of the messages, token by token.
LEMMA SaslFirstIs ==
  ASSUME NEW n, NEW c
  PROVE  SaslFirst(<<n, "server_nonce">>, c) = Tokens(n, c)
  <1> DEFINE S == {"r=", n, "server_nonce", Comma, "s=", "salt", "i=", c}
             a == <<"r=">>
             b == <<n, "server_nonce">>
             d == <<Comma, "s=", "salt", Comma, "i=", c>>
             t == Tokens(n, c)
  <1>1. a \in Seq(S) /\ b \in Seq(S) /\ d \in Seq(S) /\ t \in Seq(S)
    BY DEF Tokens
  <1>4. /\ Len(t) = 9 /\ t[1] = "r=" /\ t[2] = n /\ t[3] = "server_nonce" /\ t[4] = Comma
        /\ t[5] = "s=" /\ t[6] = "salt" /\ t[7] = Comma /\ t[8] = "i=" /\ t[9] = c
    BY DEF Tokens
  <1> HIDE DEF a, b, d, t, S
  <1> DEFINE w == a \o b
             u == w \o d
  <1> HIDE DEF w
  <1>6. w \in Seq(S) /\ Len(w) = 3 /\ w[1] = "r=" /\ w[2] = n /\ w[3] = "server_nonce"
    BY <1>1, Joins DEF IsJoin, a, b, w
  <1> HIDE DEF u
  <1>b. IsJoin(u, w, d, S)
    BY <1>1, <1>6, Joins DEF u
  <1>7. /\ u \in Seq(S) /\ Len(u) = 9
        /\ u[1] = "r=" /\ u[2] = n /\ u[3] = "server_nonce" /\ u[4] = Comma
        /\ u[5] = "s=" /\ u[6] = "salt" /\ u[7] = Comma /\ u[8] = "i=" /\ u[9] = c
    BY <1>6, <1>b DEF IsJoin, d
  <1>. QED
    BY <1>1, <1>4, <1>7, SeqSame DEF u, w, t, b, SaslFirst, a, d

\* t has the tokens of a server-first-message, with or without an extension.
Framed(t, n, c, S) ==
  /\ t \in Seq(S)
  /\ t[1] = "r=" /\ t[2] = n /\ t[3] = "server_nonce" /\ t[4] = Comma
  /\ t[5] = "s=" /\ t[6] = "salt" /\ t[7] = Comma /\ t[8] = "i=" /\ t[9] = c
  /\ \/ Len(t) = 9
     \/ Len(t) = 11 /\ t[10] = Comma

LEMMA TokensAre ==
  ASSUME NEW n, NEW c
  PROVE  \E S : Framed(Tokens(n, c), n, c, S)
  <1> DEFINE S == {"r=", n, "server_nonce", Comma, "s=", "salt", "i=", c}
  <1>1. Framed(Tokens(n, c), n, c, S)
    BY DEF Tokens, Framed
  <1>. QED
    BY <1>1

LEMMA ExtendedIs ==
  ASSUME NEW n, NEW c
  PROVE  \E S : Framed(Tokens(n, c) \o <<Comma, "x=">>, n, c, S)
  <1> DEFINE S == {"r=", n, "server_nonce", Comma, "s=", "salt", "i=", c, "x="}
             a == Tokens(n, c)
             b == <<Comma, "x=">>
             t == a \o b
  <1> HIDE DEF a, b, S, t
  <1>5. Framed(t, n, c, S)
    BY Joins DEF IsJoin, Framed, b, Tokens, a, t, S
  <1>. QED
    BY <1>5 DEF t, a, b

LEMMA CommaDiffers ==
  Comma \notin {"r=", "server_nonce", "s=", "salt", "i=", "0", "2", "too_many", "NaN", "x=",
                "other_nonce", "unprintable", "m", "m="}
  BY Zenon DEF Comma

LEMMA FramedCommas ==
  ASSUME NEW S, NEW t, NEW n, NEW c, Framed(t, n, c, S), n # Comma, c # Comma
  PROVE  /\ CommaFrom(t, 1) = 4 /\ CommaFrom(t, 5) = 7
         /\ CommaFrom(t, 8) = IF Len(t) = 9 THEN 0 ELSE 10
  <1> USE CommaDiffers
  <1>1. CommaFrom(t, 1) = 4
    <2>1. \A k \in 1..(4 - 1) : t[k] # Comma
      BY DEF Framed
    <2>. QED
      BY <2>1, CommaAt DEF Framed
  <1>2. CommaFrom(t, 5) = 7
    BY CommaAt DEF Framed
  <1>3. CASE Len(t) = 9
    BY <1>3, <1>1, <1>2, CommaNone DEF Framed
  <1>4. CASE Len(t) = 11 /\ t[10] = Comma
    <2>2. CommaFrom(t, 8) = 10
      BY <1>4, CommaAt DEF Framed
    <2>. QED
      BY <1>1, <1>2, <1>4, <2>2
  <1>. QED
    BY <1>3, <1>4 DEF Framed

LEMMA FramedParts ==
  ASSUME NEW S, NEW t, NEW n, NEW c, Framed(t, n, c, S)
  PROVE  /\ SubSeq(t, 2, 3) = <<n, "server_nonce">>
         /\ SubSeq(t, 6, 6) = <<"salt">>
         /\ SubSeq(t, 9, 9) = <<c>>
  <1> DEFINE a == SubSeq(t, 2, 3)
             b == SubSeq(t, 6, 6)
             d == SubSeq(t, 9, 9)
  <1>1. \A i \in 1..9 : t[i] \in S
    BY SeqLen, SeqElem DEF Framed
  <1>2. a \in Seq(S) /\ Len(a) = 2 /\ a[1] = t[2] /\ a[2] = t[3]
    BY <1>1, SeqPart
  <1>3. b \in Seq(S) /\ Len(b) = 1 /\ b[1] = t[6]
    BY <1>1, SeqPart
  <1>4. d \in Seq(S) /\ Len(d) = 1 /\ d[1] = t[9]
    BY <1>1, SeqPart
  <1> HIDE DEF a, b, d
  <1>5. a = <<n, "server_nonce">>
    BY <1>2 DEF Framed
  <1>6. b = <<"salt">>
    BY <1>3 DEF Framed
  <1>7. d = <<c>>
    BY <1>4 DEF Framed
  <1>. QED
    BY <1>5, <1>6, <1>7 DEF a, b, d

\* What parse(server_first_message) makes of it.
LEMMA FramedParses ==
  ASSUME NEW S, NEW t, NEW n, NEW c, Framed(t, n, c, S), Printable(n), c # Comma
  PROVE  ParseServerFirst(t) =
           IF c \in DOMAIN Numeral
           THEN [ec |-> "ok", nonce |-> <<n, "server_nonce">>, salt |-> <<"salt">>,
                 count |-> Numeral[c]]
           ELSE Invalid
  <1> DEFINE c1 == CommaFrom(t, 1)
             c2 == CommaFrom(t, c1 + 1)
             c3 == CommaFrom(t, c2 + 1)
             last == IF c3 = 0 THEN Len(t) ELSE c3 - 1
             nonce == SubSeq(t, 2, c1 - 1)
             salt == SubSeq(t, c1 + 2, c2 - 1)
             count == SubSeq(t, c2 + 2, last)
  <1>1. c1 = 4 /\ c2 = 7 /\ last = 9
    BY FramedCommas DEF Printable, Framed
  <1>2. nonce = <<n, "server_nonce">> /\ salt = <<"salt">> /\ count = <<c>>
    <2> HIDE DEF last, c3, c2, c1
    <2>. QED
      BY <1>1, FramedParts
  <1> HIDE DEF nonce, salt, count, last, c3, c2, c1
  <1>3. /\ \A i \in DOMAIN nonce : Printable(nonce[i])
        /\ \A i \in DOMAIN salt : IsBase64(salt[i])
        /\ Len(count) = 1 /\ count[1] = c
    BY <1>2, CommaDiffers DEF Printable, IsBase64
  <1>4. /\ t # <<>> /\ t[1] \notin {"m", "m="}
        /\ 1 <= Len(t) /\ t[1] = "r=" /\ c1 # 0 /\ c1 + 1 <= Len(t) /\ t[c1 + 1] = "s="
        /\ c2 # 0 /\ c2 + 1 <= Len(t) /\ t[c2 + 1] = "i="
    BY <1>1 DEF Framed
  <1>5. ParseServerFirst(t) =
           IF count[1] \in DOMAIN Numeral
           THEN [ec |-> "ok", nonce |-> nonce, salt |-> salt, count |-> Numeral[count[1]]]
           ELSE Invalid
    <2> HIDE DEF Numeral, Invalid, Printable, IsBase64
    <2>. QED
      BY <1>3, <1>4, Zenon DEF ParseServerFirst, nonce, salt, count, last, c3, c2, c1
  <1>. QED
    BY <1>2, <1>3, <1>5

LEMMA GoodIsFramed ==
  ASSUME NEW n, NEW d \in Goods(n)
  PROVE  \E S : Framed(d, n, "2", S)
  <1>1. d \in {Tokens(n, "2"), Tokens(n, "2") \o <<Comma, "x=">>}
    BY SaslFirstIs DEF Goods
  <1>. QED
    BY <1>1, TokensAre, ExtendedIs, ZenonT(30)

\* The client's first message, and the span of it that is client-first-message-bare.
LEMMA InitIs ==
  ASSUME NEW n
  PROVE  /\ OnInit(<<n>>).wbuf.bytes = <<"p", "SCRAM-SHA-256", Gs2Header, BareStart, n>>
         /\ OnInit(<<n>>).wbuf = [bytes |-> OnInit(<<n>>).wbuf.bytes, proof |-> {}]
         /\ OnInit(<<n>>).scram = [nonce |-> <<n>>, first |-> 4, last |-> 5, signature |-> {}]
         /\ SubSeq(OnInit(<<n>>).wbuf.bytes, 4, 5) = BareOf(n)
  <1> DEFINE S == {"p", "SCRAM-SHA-256", Gs2Header, BareStart, n}
             a == <<"p", "SCRAM-SHA-256", Gs2Header, BareStart>>
             b == <<n>>
             w == a \o b
  <1>1. a \in Seq(S) /\ b \in Seq(S) /\ Len(a) = 4 /\ Len(b) = 1 /\ b[1] = n
    OBVIOUS
  <1>3. ClientFirst(<<n>>) = w
    BY DEF ClientFirst
  <1> HIDE DEF a, b, w
  <1>4. IsJoin(w, a, b, S)
    BY <1>1, Joins DEF w
  <1>5. /\ w \in Seq(S) /\ Len(w) = 5 /\ w[1] = "p" /\ w[2] = "SCRAM-SHA-256" /\ w[3] = Gs2Header
        /\ w[4] = BareStart /\ w[5] = n
    BY <1>1, <1>4 DEF IsJoin, a
  <1>6. w = <<"p", "SCRAM-SHA-256", Gs2Header, BareStart, n>>
    BY <1>5
  <1> DEFINE u == SubSeq(w, 4, 5)
  <1>7. u \in Seq(S) /\ Len(u) = 2 /\ u[1] = w[4] /\ u[2] = w[5]
    BY <1>5, SeqPart
  <1> HIDE DEF u
  <1>8. u = <<BareStart, n>>
    BY <1>5, <1>7
  <1>9. OnInit(<<n>>) = [wbuf |-> [bytes |-> w, proof |-> {}],
                         scram |-> [nonce |-> <<n>>, first |-> 4, last |-> 5, signature |-> {}]]
    BY <1>3, <1>5, ZenonT(30) DEF OnInit, BareFirst
  <1>. QED
    BY <1>6, <1>8, <1>9 DEF u, BareOf

\* A sequence starts with a nonce of one token if that is its first one.
LEMMA StartsWithOne ==
  ASSUME NEW q, NEW a, Len(q) \in Nat \ {0}
  PROVE  StartsWith(q, <<a>>) <=> q[1] = a
  <1> DEFINE p == SubSeq(q, 1, 1)
  <1>3. Len(p) = 1 /\ p[1] = q[1] /\ p \in Seq({q[1]})
    BY SeqPart
  <1> HIDE DEF p
  <1>4. p = <<a>> <=> p[1] = a
    BY <1>3
  <1>. QED
    BY <1>3, <1>4 DEF StartsWith, p

\* The client accepts a server-first-message that answers its own.
LEMMA GoodAccepted ==
  ASSUME NEW n \in Nonces, NEW d \in Goods(n)
  PROVE  OnServerFirst(OnInit(<<n>>).scram, OnInit(<<n>>).wbuf, d, Password) =
           [ec |-> "ok",
            wbuf |-> [bytes |-> FinalOf(n), proof |-> ProofsOf(Password, n, d).proof],
            scram |-> [OnInit(<<n>>).scram EXCEPT !.signature = ProofsOf(Password, n, d).signature]]
  <1> DEFINE msg == ParseServerFirst(d)
             scram == OnInit(<<n>>).scram
             wbuf == OnInit(<<n>>).wbuf
  <1>1. msg = [ec |-> "ok", nonce |-> <<n, "server_nonce">>, salt |-> <<"salt">>, count |-> 2]
    <2>1. PICK S : Framed(d, n, "2", S)
      BY GoodIsFramed
    <2>2. Printable(n) /\ "2" # Comma /\ "2" \in DOMAIN Numeral /\ Numeral["2"] = 2
      BY ConnectParams, CommaDiffers DEF Printable, Numeral
    <2>. QED
      BY <2>1, <2>2, FramedParses
  <1>2. /\ scram.nonce = <<n>> /\ scram.first = 4 /\ scram.last = 5
        /\ SubSeq(wbuf.bytes, 4, 5) = BareOf(n)
    <2>1. /\ OnInit(<<n>>).scram = [nonce |-> <<n>>, first |-> 4, last |-> 5, signature |-> {}]
          /\ SubSeq(OnInit(<<n>>).wbuf.bytes, 4, 5) = BareOf(n)
      BY InitIs, ZenonT(30)
    <2>. QED
      BY <2>1
  <1>3. <<n, "server_nonce">> # <<>> /\ StartsWith(<<n, "server_nonce">>, <<n>>)
    BY StartsWithOne
  <1>4. 2 # 0 /\ ~(2 > MaxIterations)
    BY IterationBound
  <1> HIDE DEF msg, scram, wbuf
  <1>5. msg.ec = "ok" /\ msg.nonce = <<n, "server_nonce">> /\ msg.salt = <<"salt">> /\ msg.count = 2
    BY <1>1
  <1>. QED
    BY <1>2, <1>3, <1>4, <1>5, ZenonT(30) DEF OnServerFirst, msg, scram, wbuf, AuthOf, FinalOf, ProofsOf

\* What a server-first-message that was accepted must have had.
LEMMA AcceptedHas ==
  ASSUME NEW t, ParseServerFirst(t).ec = "ok"
  PROVE  LET c1 == CommaFrom(t, 1)
             c2 == CommaFrom(t, c1 + 1)
         IN  /\ ~(t # <<>> /\ t[1] \in {"m", "m="})
             /\ 1 <= Len(t) /\ t[1] = "r=" /\ c1 # 0 /\ c1 + 1 <= Len(t)
             /\ c2 # 0 /\ c2 + 1 <= Len(t)
             /\ ParseServerFirst(t).nonce = SubSeq(t, 2, c1 - 1)
             /\ \A i \in DOMAIN SubSeq(t, 2, c1 - 1) : Printable(SubSeq(t, 2, c1 - 1)[i])
  <1> DEFINE c1 == CommaFrom(t, 1)
             c2 == CommaFrom(t, c1 + 1)
             c3 == CommaFrom(t, c2 + 1)
             nonce == SubSeq(t, 2, c1 - 1)
             salt == SubSeq(t, c1 + 2, c2 - 1)
             count == SubSeq(t, c2 + 2, IF c3 = 0 THEN Len(t) ELSE c3 - 1)
             Tag(i, s) == i <= Len(t) /\ t[i] = s
             ismand == t # <<>> /\ t[1] \in {"m", "m="}
             isinv == \/ ~Tag(1, "r=") \/ c1 = 0 \/ (\E i \in DOMAIN nonce : ~Printable(nonce[i]))
                      \/ ~Tag(c1 + 1, "s=") \/ c2 = 0
             isb64 == \E i \in DOMAIN salt : ~IsBase64(salt[i])
             isnum == ~Tag(c2 + 1, "i=") \/ Len(count) # 1 \/ count[1] \notin DOMAIN Numeral
             good == [ec |-> "ok", nonce |-> nonce, salt |-> salt, count |-> Numeral[count[1]]]
             r == ParseServerFirst(t)
  <1>1. r = IF ismand
            THEN IF t[1] = "m" /\ Tag(2, Comma)
                 THEN [ec |-> "mandatory_scram_extension_not_supported"] ELSE Invalid
            ELSE IF isinv THEN Invalid
            ELSE IF isb64 THEN [ec |-> "invalid_base64"]
            ELSE IF isnum THEN Invalid ELSE good
    BY Zenon DEF ParseServerFirst
  <1>2. good.nonce = nonce
    BY ZenonT(30)
  <1>4. ~ismand /\ ~isinv /\ ~isb64 /\ ~isnum /\ r = good
    <2> HIDE DEF ismand, isinv, isb64, isnum, good, r
    <2>. QED
      BY <1>1 DEF Invalid, r
  <1>5. r.nonce = nonce
    <2> HIDE DEF r, good
    <2>. QED
      BY <1>2, <1>4
  <1>. QED
    BY <1>4, <1>5, Zenon

\* What on_server_first() asks of the message beyond its syntax.
LEMMA AcceptedFirst ==
  ASSUME NEW scram, NEW wbuf, NEW t, NEW pw, OnServerFirst(scram, wbuf, t, pw).ec = "ok"
  PROVE  LET msg == ParseServerFirst(t)
         IN  /\ msg.ec = "ok" /\ msg.nonce # <<>> /\ StartsWith(msg.nonce, scram.nonce)
             /\ msg.count # 0 /\ ~(msg.count > MaxIterations)
  BY DEF OnServerFirst

LEMMA BadCounts ==
  ASSUME NEW n \in Nonces, NEW c \in {"0", "too_many", "NaN"}, NEW scram, NEW wbuf
  PROVE  OnServerFirst(scram, wbuf, SaslFirst(<<n, "server_nonce">>, c), Password).ec # "ok"
  <1> DEFINE t == SaslFirst(<<n, "server_nonce">>, c)
             msg == ParseServerFirst(t)
  <1>2. PICK S : Framed(t, n, c, S)
    BY TokensAre, SaslFirstIs
  <1>4. msg = IF c \in DOMAIN Numeral
              THEN [ec |-> "ok", nonce |-> <<n, "server_nonce">>, salt |-> <<"salt">>,
                    count |-> Numeral[c]]
              ELSE Invalid
    BY <1>2, FramedParses, ConnectParams, CommaDiffers DEF Printable
  <1> HIDE DEF msg, t
  <1>5. CASE c = "NaN"
    BY <1>5, <1>4, AcceptedFirst DEF Numeral, Invalid, msg, t
  <1>6. CASE c = "0"
    BY <1>6, <1>4, AcceptedFirst DEF Numeral, msg, t
  <1>7. CASE c = "too_many"
    BY <1>7, <1>4, IterationBound, AcceptedFirst DEF Numeral, msg, t
  <1>. QED
    BY <1>5, <1>6, <1>7

\* A message that ends before its iteration count.
LEMMA BadCuts ==
  ASSUME NEW n \in Nonces, NEW i \in 0..7, NEW scram, NEW wbuf
  PROVE  OnServerFirst(scram, wbuf, SubSeq(SaslFirst(<<n, "server_nonce">>, "2"), 1, i), Password).ec # "ok"
  <1> DEFINE f == Tokens(n, "2")
             t == SubSeq(f, 1, i)
             c1 == CommaFrom(t, 1)
             c2 == CommaFrom(t, c1 + 1)
  <1>1. PICK S : Framed(f, n, "2", S)
    BY TokensAre
  <1> HIDE DEF f
  <1>3. /\ Len(t) = i
        /\ \A j \in 1..i : t[j] = f[j]
    BY <1>1, SeqLen, SeqElem, SeqPart DEF Framed
  <1> HIDE DEF t
  <1>4. /\ f[1] # Comma /\ f[2] # Comma /\ f[3] # Comma /\ f[4] = Comma
        /\ f[5] # Comma /\ f[6] # Comma /\ f[7] = Comma
    BY <1>1, CommaDiffers, ConnectParams DEF Framed
  <1>5. ASSUME ParseServerFirst(t).ec = "ok"
        PROVE  1 <= Len(t) /\ c1 # 0 /\ c1 + 1 <= Len(t) /\ c2 # 0 /\ c2 + 1 <= Len(t)
    BY <1>5, AcceptedHas
  <1>6. CASE i \in 0..3
    <2>2. c1 = 0
      BY CommaNone, <1>3, <1>4, <1>6
    <2>. QED
      BY AcceptedFirst, SaslFirstIs, <1>5, <2>2 DEF t, f
  <1>7. CASE i \in 4..7
    <2>3. c1 = 4
      BY CommaAt, <1>3, <1>4, <1>7
    <2>4. CASE i = 4
      BY <1>3, <1>5, <2>3, <2>4, AcceptedFirst, SaslFirstIs DEF t, f
    <2>5. CASE i \in {5, 6}
      <3>2. c2 = 0
        BY <2>3, CommaNone, <1>3, <1>4, <2>5
      <3>. QED
        BY <1>5, <3>2, AcceptedFirst, SaslFirstIs DEF t, f
    <2>6. CASE i = 7
      <3>1. t[7] = Comma /\ \A k \in 5..(7 - 1) : t[k] # Comma
        BY <1>3, <1>4, <2>6
      <3>3. CommaFrom(t, 5) = 7
        BY <3>1, CommaAt, <1>3, <2>6
      <3>. QED
        BY <1>5, AcceptedFirst, SaslFirstIs, <1>3, <2>6, <2>3, <3>3 DEF t, f
    <2>. QED
      BY <1>7, <2>4, <2>5, <2>6
  <1>. QED
    BY <1>6, <1>7

\* A nonce that is empty, another client's, or not printable.
LEMMA BadNonces ==
  ASSUME NEW n \in Nonces, NEW x \in {<<>>, <<"other_nonce">>, <<"unprintable">>},
         NEW scram, scram.nonce = <<n>>, NEW wbuf
  PROVE  OnServerFirst(scram, wbuf, SaslFirst(x, "2"), Password).ec # "ok"
  <1> DEFINE S == {"r=", "other_nonce", "unprintable", Comma, "s=", "salt", "i=", "2"}
             a == <<"r=">>
             d == <<Comma, "s=", "salt", Comma, "i=", "2">>
             w == a \o x
             t == w \o d
             k == Len(x) + 2
             nonce == SubSeq(t, 2, k - 1)
  <1>1. a \in Seq(S) /\ x \in Seq(S) /\ d \in Seq(S)
    <2>1. <<>> \in Seq(S) /\ <<"other_nonce">> \in Seq(S) /\ <<"unprintable">> \in Seq(S)
      OBVIOUS
    <2>2. a \in Seq(S)
      OBVIOUS
    <2>3. d \in Seq(S)
      OBVIOUS
    <2> HIDE DEF S, a, d
    <2>. QED
      BY <2>1, <2>2, <2>3, ZenonT(30)
  <1>3. Len(x) \in {0, 1} /\ (Len(x) = 1 => x[1] # Comma) /\ (Len(x) = 0 => x = <<>>)
    BY CommaDiffers
  <1>4. SaslFirst(x, "2") = t
    BY DEF SaslFirst
  <1> HIDE DEF a, d, w, t, S
  <1>7. /\ Len(t) = Len(x) + 7 /\ t[1] = "r=" /\ t \in Seq(S)
        /\ Len(x) = 1 => t[2] = x[1] /\ t[3] = Comma
        /\ Len(x) = 0 => t[2] = Comma
    BY <1>3, <1>1, Joins DEF IsJoin, a, d, w, t
  <1>8. CommaFrom(t, 1) = k
    <2>4. \A l \in {0, 1} : (l = 0 /\ l + 2 = 2) \/ (l = 1 /\ l + 2 = 3)
      OBVIOUS
    <2>3. (Len(x) = 0 /\ k = 2) \/ (Len(x) = 1 /\ k = 3)
      BY <1>3, <2>4, Zenon
    <2> HIDE DEF k
    <2>. QED
      BY CommaAt, <1>3, <1>7, <2>3, CommaDiffers
  <1> HIDE DEF nonce
  <1>10. nonce = x
    BY <1>3, <1>1, SeqSame, <1>7, SeqElem, SeqPart DEF k, nonce
  <1>11. ASSUME ParseServerFirst(t).ec = "ok"
         PROVE  ParseServerFirst(t).nonce = x /\ \A j \in DOMAIN x : Printable(x[j])
    <2>1. /\ ParseServerFirst(t).nonce = SubSeq(t, 2, CommaFrom(t, 1) - 1)
          /\ \A i \in DOMAIN SubSeq(t, 2, CommaFrom(t, 1) - 1) : Printable(SubSeq(t, 2, CommaFrom(t, 1) - 1)[i])
      BY <1>11, AcceptedHas, ZenonT(30)
    <2>. QED
      BY <1>8, <1>10, <2>1, ZenonT(30) DEF nonce
  <1>14. ASSUME OnServerFirst(scram, wbuf, t, Password).ec = "ok"
         PROVE  FALSE
    BY <1>14, <1>11, AcceptedFirst, ConnectParams, StartsWithOne DEF Printable
  <1>. QED
    BY <1>4, <1>14

\* The client rejects every server-first-message that does not answer its own.
LEMMA BadRejected ==
  ASSUME NEW n \in Nonces, NEW d \in Bads(n)
  PROVE  OnServerFirst(OnInit(<<n>>).scram, OnInit(<<n>>).wbuf, d, Password).ec # "ok"
  <1> DEFINE scram == OnInit(<<n>>).scram
             wbuf == OnInit(<<n>>).wbuf
  <1>1. scram.nonce = <<n>>
    <2>1. scram = [nonce |-> <<n>>, first |-> 4, last |-> 5, signature |-> {}]
      BY InitIs, ZenonT(30)
    <2>. QED
      BY <2>1
  <1>2. ASSUME d \in {<<"m=", Comma>>, <<"m", Comma>>}
        PROVE  ParseServerFirst(d).ec # "ok"
    BY <1>2, AcceptedHas
  <1> HIDE DEF scram, wbuf
  <1>3. OnServerFirst(scram, wbuf, d, Password).ec # "ok"
    BY <1>1, <1>2, AcceptedFirst, BadCounts, BadNonces, BadCuts, ZenonT(30) DEF Bads
  <1>. QED
    BY <1>3 DEF scram, wbuf

\* What the server may send, given the nonce of the client.
LEMMA FirstsAre ==
  ASSUME NEW n, srv.bare = BareOf(n), NEW f \in ServerFirsts
  PROVE  (f.ok = TRUE /\ f.data \in Goods(n)) \/ (f.ok = FALSE /\ f.data \in Bads(n))
  <1> DEFINE nonce == SubSeq(srv.bare, 2, Len(srv.bare)) \o <<"server_nonce">>
  <1>1. nonce = <<n, "server_nonce">>
    <2>1. Len(srv.bare) = 2 /\ srv.bare = <<BareStart, n>>
      BY DEF BareOf
    <2>2. SubSeq(<<BareStart, n>>, 2, 2) = <<n>>
      BY SecondOfTwo
    <2>3. <<n>> \o <<"server_nonce">> = <<n, "server_nonce">>
      BY TwoInARow
    <2>. QED
      BY <2>1, <2>2, <2>3, ZenonT(30)
  <1> HIDE DEF nonce
  <1>2. f \in {[ok |-> TRUE, data |-> SaslFirst(nonce, "2")],
               [ok |-> TRUE, data |-> SaslFirst(nonce, "2") \o <<Comma, "x=">>]} \cup
              {[ok |-> FALSE, data |-> e] : e \in
                {SaslFirst(nonce, c) : c \in {"0", "too_many", "NaN"}} \cup
                {SaslFirst(x, "2") : x \in {<<>>, <<"other_nonce">>, <<"unprintable">>}} \cup
                {SubSeq(SaslFirst(nonce, "2"), 1, i) : i \in 0..7} \cup
                {<<"m=", Comma>>, <<"m", Comma>>}}
    BY DEF ServerFirsts, nonce
  <1>3. f \in {[ok |-> TRUE, data |-> e] : e \in Goods(n)} \cup {[ok |-> FALSE, data |-> e] : e \in Bads(n)}
    BY <1>1, <1>2, Zenon DEF Goods, Bads
  <1>. QED
    BY <1>3

-----------------------------------------------------------------------------
(* The computations of SCRAM *)

\* compute_hi() of two iterations.
LEMMA HiIs ==
  ASSUME NEW str, NEW salt
  PROVE  LET h == Hmac(str, Append(salt, "INT(1)"))
         IN  ComputeHi(str, salt, 2) = ComputeXor(h, HmacOf(str, h))
  <1> DEFINE h == Hmac(str, Append(salt, "INT(1)"))
             UD(u) == [i \in 1..2 |-> IF i = 1 THEN h ELSE HmacOf(str, u[i - 1])]
             U == CHOOSE u : u = UD(u)
             SD(s) == [i \in 1..2 |-> IF i = 1 THEN U[1] ELSE ComputeXor(s[i - 1], U[i])]
             Sum == CHOOSE s : s = SD(s)
             U0 == [i \in 1..2 |-> IF i = 1 THEN h ELSE HmacOf(str, h)]
             S0 == [i \in 1..2 |-> IF i = 1 THEN U[1] ELSE ComputeXor(U[1], U[i])]
  <1>1. ComputeHi(str, salt, 2) = Sum[2]
    BY DEF ComputeHi
  <1> HIDE DEF h
  <1>2. U0 = UD(U0)
    OBVIOUS
  <1>3. U = UD(U)
    BY <1>2, Zenon
  <1> HIDE DEF U
  <1>5. S0 = SD(S0)
    OBVIOUS
  <1>6. Sum = SD(Sum)
    BY <1>5, Zenon
  <1> HIDE DEF Sum
  <1>. QED
    BY <1>1, <1>3, <1>6 DEF h

Hi(pw) == ComputeHi(NormalizePassword(pw), <<"salt">>, 2)

\* Different passwords have different salted passwords.
LEMMA HiDiffers ==
  ASSUME NEW a, NEW b, Hi(a) = Hi(b)
  PROVE  a = b
  <1> DEFINE salt == Append(<<"salt">>, "INT(1)")
             x(p) == <<"hmac", NormalizePassword(p), salt>>
             y(p) == <<"hmac_digest", NormalizePassword(p), {x(p)}>>
  <1> HIDE DEF salt
  <1>1. ASSUME NEW p PROVE Hi(p) = ComputeXor({x(p)}, {y(p)})
    BY HiIs, ZenonT(30) DEF Hi, Hmac, HmacOf, salt
  <1>2. ASSUME NEW p, NEW q PROVE x(p) # y(q)
    OBVIOUS
  <1>3. ASSUME NEW p, NEW q, x(p) = x(q) PROVE p = q
    <2>1. NormalizePassword(p) = NormalizePassword(q)
      BY <1>3
    <2>2. <<"password", p>> = <<"password", q>>
      BY <2>1, Zenon DEF NormalizePassword
    <2>. QED
      BY <2>2
  <1> HIDE DEF x, y
  <1>4. ASSUME NEW p PROVE Hi(p) = {x(p), y(p)}
    BY <1>1, <1>2 DEF ComputeXor
  <1>. QED
    BY <1>2, <1>3, <1>4

LEMMA HmacDiffers ==
  ASSUME NEW k, NEW l, NEW d, NEW e, Hmac(k, d) = Hmac(l, e)
  PROVE  k = l /\ d = e
  <1>1. <<"hmac", k, d>> = <<"hmac", l, e>>
    BY Zenon DEF Hmac
  <1>. QED
    BY <1>1

LEMMA KeyDiffers ==
  ASSUME NEW h, NEW k
  PROVE  /\ ClientKey(h) = ClientKey(k) => h = k
         /\ \E d : Len(d) = 1 /\ ClientKey(h) = Hmac(h, d)
  <1>1. ASSUME NEW x PROVE Len(<<x>>) = 1
    OBVIOUS
  <1>2. ASSUME NEW x PROVE \E d : Len(d) = 1 /\ Hmac(h, <<x>>) = Hmac(h, d)
    BY <1>1
  <1>3. ASSUME NEW x, Hmac(h, <<x>>) = Hmac(k, <<x>>) PROVE h = k
    BY <1>3, HmacDiffers
  <1>. QED
    BY <1>2, <1>3, Zenon DEF ClientKey

\* The message that is signed has more than one part.
LEMMA AuthIsLong ==
  ASSUME NEW n \in Nonces, NEW d \in Goods(n)
  PROVE  Len(AuthOf(n, d)) # 1
  <1>1. PICK S : Framed(d, n, "2", S)
    BY GoodIsFramed
  <1> DEFINE T == S \cup {BareStart, n, Comma, "p", FinalStart, "server_nonce"}
             f == FinalOf(n)
             w == WithoutProof(f)
             a == BareOf(n)
             c == <<Comma>>
  <1>2. f \in Seq(T) /\ Len(f) = 4
    BY Joins DEF FinalOf, ClientFinal, IsJoin
  <1>3. w \in Seq(T) /\ Len(w) \in Nat
    <2> HIDE DEF f
    <2>. QED
      BY <1>2, SeqTail, SeqLen, SeqEmpty DEF WithoutProof
  <1>4. a \in Seq(T) /\ Len(a) = 2 /\ c \in Seq(T) /\ Len(c) = 1
    BY DEF BareOf
  <1>5. d \in Seq(T) /\ Len(d) \in Nat
    BY <1>1, SeqLen DEF Framed
  <1> HIDE DEF T, f, w, a, c
  <1> DEFINE u1 == a \o c
             u2 == u1 \o d
             u3 == u2 \o c
             u4 == u3 \o w
  <1> HIDE DEF u1, u2, u3, u4
  <1>6. u1 \in Seq(T) /\ Len(u1) = Len(a) + Len(c)
    BY <1>4, JoinedLen, ZenonT(30) DEF u1
  <1>7. u2 \in Seq(T) /\ Len(u2) = Len(u1) + Len(d)
    BY <1>5, <1>6, JoinedLen DEF u2
  <1>8. u3 \in Seq(T) /\ Len(u3) = Len(u2) + Len(c)
    BY <1>4, <1>7, JoinedLen, ZenonT(30) DEF u3
  <1>9. u4 \in Seq(T) /\ Len(u4) = Len(u3) + Len(w)
    BY <1>3, <1>8, JoinedLen DEF u4
  <1>10. AuthOf(n, d) = u4
    BY DEF AuthOf, u1, u2, u3, u4, a, c, w, f
  <1>11. Len(u4) = 2 + 1 + Len(d) + 1 + Len(w)
    BY <1>4, <1>6, <1>7, <1>8, <1>9, Zenon
  <1>12. \A i, j \in Nat : 2 + 1 + i + 1 + j # 1
    OBVIOUS
  <1>. QED
    BY <1>3, <1>5, <1>10, <1>11, <1>12, Zenon

\* ComputeXor on the two hashes of a proof.
LEMMA XorTwice ==
  ASSUME NEW a, NEW b
  PROVE  ComputeXor(ComputeXor(a, b), b) = a
  BY Zenon DEF ComputeXor

LEMMA XorKeeps ==
  ASSUME NEW x, NEW y, NEW z, x # y, x # z
  PROVE  x \in ComputeXor(ComputeXor({x}, {y}), {z}) /\ ComputeXor({x}, {y}) # {}
  BY DEF ComputeXor

\* The parts of a proof: the client's key, and a hash of another message.
LEMMA ProofsAre ==
  ASSUME NEW pw, NEW n, NEW d
  PROVE  LET ck == ClientKey(Hi(pw))
         IN  /\ ProofsOf(pw, n, d).proof = ComputeXor(ck, Hmac(Sha256(ck), AuthOf(n, d)))
             /\ ProofsOf(pw, n, d).signature = Hmac(ServerKey(Hi(pw)), AuthOf(n, d))
  BY DEF ProofsOf, ComputeProofs, Hi

\* The proof and the signature are never empty.
LEMMA ProofsFull ==
  ASSUME NEW pw, NEW n \in Nonces, NEW d \in Goods(n)
  PROVE  ProofsOf(pw, n, d).proof # {} /\ ProofsOf(pw, n, d).signature # {}
  <1> DEFINE ck == ClientKey(Hi(pw))
             m == AuthOf(n, d)
  <1>1. PICK l : Len(l) = 1 /\ ck = Hmac(Hi(pw), l)
    BY KeyDiffers
  <1> HIDE DEF ck, m
  <1>3. <<"hmac", Hi(pw), l>> # <<"hmac", Sha256(ck), m>>
    BY <1>1, AuthIsLong DEF m
  <1>4. ComputeXor(ck, Hmac(Sha256(ck), m)) # {}
    BY <1>1, <1>3, XorKeeps, ZenonT(30) DEF Hmac
  <1>5. Hmac(ServerKey(Hi(pw)), m) # {}
    BY ZenonT(30) DEF Hmac
  <1>. QED
    BY <1>4, <1>5, ProofsAre DEF ck, m

\* The server accepts the proof of a client that has its password, and no other.
LEMMA ProofVerifies ==
  ASSUME NEW pw, NEW n \in Nonces, NEW d \in Goods(n)
  PROVE  LET stored == Sha256(ClientKey(Hi(pw)))
         IN  (Sha256(ComputeXor(ProofsOf(Password, n, d).proof, Hmac(stored, AuthOf(n, d)))) = stored)
               <=> pw = Password
  <1> DEFINE ck == ClientKey(Hi(Password))
             cs == ClientKey(Hi(pw))
             m == AuthOf(n, d)
             key == ComputeXor(ComputeXor(ck, Hmac(Sha256(ck), m)), Hmac(Sha256(cs), m))
  <1>3. ASSUME key = cs PROVE pw = Password
    <2>1. PICK l : Len(l) = 1 /\ ck = Hmac(Hi(Password), l)
      BY KeyDiffers
    <2>2. PICK k : Len(k) = 1 /\ cs = Hmac(Hi(pw), k)
      BY KeyDiffers
    <2> HIDE DEF ck, cs, m
    <2> DEFINE x == <<"hmac", Hi(Password), l>>
               y == <<"hmac", Sha256(ck), m>>
               z == <<"hmac", Sha256(cs), m>>
    <2>5. x # y /\ x # z
      BY <2>1, AuthIsLong DEF m
    <2>6. ck = {x} /\ Hmac(Sha256(ck), m) = {y} /\ Hmac(Sha256(cs), m) = {z}
      BY <2>1 DEF Hmac
    <2> HIDE DEF x, y, z
    <2>7. x \in key
      BY <2>5, <2>6, XorKeeps, ZenonT(30)
    <2>. QED
      BY HiDiffers, KeyDiffers, <2>6, <2>2, <1>3, <2>7 DEF ck, cs, Hmac
  <1>4. Sha256(key) = Sha256(cs) <=> key = cs
    <2>1. ASSUME NEW a, NEW b, Sha256(a) = Sha256(b) PROVE a = b
      <3>1. <<"sha256", a>> = <<"sha256", b>>
        BY <2>1, Zenon DEF Sha256
      <3>. QED
        BY <3>1
    <2>. QED
      BY <2>1
  <1>. QED
    BY <1>3, <1>4, ProofsAre, XorTwice

\* The parts of the client's final message that the server compares.
LEMMA ServerNonce ==
  ASSUME NEW n \in Nonces, NEW d \in Goods(n)
  PROVE  SubSeq(d, 2, CommaFrom(d, 1) - 1) = <<n, "server_nonce">>
  BY GoodIsFramed, ConnectParams, CommaDiffers, FramedCommas, FramedParts

LEMMA Verifies ==
  ASSUME NEW n \in Nonces, NEW d \in Goods(n), srv.bare = BareOf(n), srv.first = d
  PROVE  /\ Verified(FinalOf(n), ProofsOf(Password, n, d).proof) <=> srv.pw = Password
         /\ Signature(FinalOf(n)) = ProofsOf(srv.pw, n, d).signature
  <1> DEFINE auth == srv.bare \o <<Comma>> \o srv.first \o <<Comma>> \o WithoutProof(FinalOf(n))
             nonce == SubSeq(srv.first, 2, CommaFrom(srv.first, 1) - 1)
             stored == Sha256(ClientKey(Hi(srv.pw)))
             key == ComputeXor(ProofsOf(Password, n, d).proof, Hmac(stored, auth))
  <1>1. auth = AuthOf(n, d)
    BY DEF AuthOf
  <1>2. nonce = <<n, "server_nonce">>
    BY ServerNonce
  <1>3. WithoutProof(FinalOf(n)) = WithoutProof(ClientFinal(nonce))
    BY <1>2, ZenonT(30) DEF FinalOf
  <1>4. (Sha256(key) = stored) <=> srv.pw = Password
    BY <1>1, ProofVerifies, ZenonT(30)
  <1>5. Verified(FinalOf(n), ProofsOf(Password, n, d).proof)
          <=> Sha256(key) = stored /\ WithoutProof(FinalOf(n)) = WithoutProof(ClientFinal(nonce))
    BY Zenon DEF Verified, Hi
  <1>6. Signature(FinalOf(n)) = ComputeProofs(srv.pw, <<"salt">>, 2, auth).signature
    BY Zenon DEF Signature
  <1>. QED
    BY <1>1, <1>3, <1>4, <1>5, <1>6, ZenonT(30) DEF ProofsOf

\* The three messages of the client are told apart by the server.
LEMMA FinalIsNotStartup ==
  ASSUME NEW n
  PROVE  /\ FinalOf(n) # <<"startup">>
         /\ <<"p", "SCRAM-SHA-256", Gs2Header, BareStart, n>> # <<"startup">>
  BY Joins DEF FinalOf, ClientFinal, IsJoin

\* WriteDone, at each of the three messages.
LEMMA ReceivesStartup ==
  ASSUME srv.state = "open", NEW w, w = [bytes |-> <<"startup">>, proof |-> {}]
  PROVE  ServerReceives(w) = [srv EXCEPT !.state = "startup"]
  BY DEF ServerReceives

LEMMA ReceivesFirst ==
  ASSUME srv.state = "sasl", NEW n, NEW w, w = OnInit(<<n>>).wbuf
  PROVE  ServerReceives(w) = [srv EXCEPT !.state = "sasl_first", !.bare = BareOf(n)]
  <1>1. /\ w.bytes = <<"p", "SCRAM-SHA-256", Gs2Header, BareStart, n>>
        /\ w = [bytes |-> w.bytes, proof |-> {}]
        /\ SubSeq(w.bytes, 4, 5) = BareOf(n)
    BY InitIs, ZenonT(30)
  <1>2. w.bytes # <<"startup">>
    BY <1>1, FinalIsNotStartup
  <1>3. w.proof = {}
    BY <1>1
  <1>4. Len(w.bytes) = 5
    BY <1>1
  <1>. QED
    BY <1>1, <1>2, <1>3, <1>4, ZenonT(30) DEF ServerReceives, BareFirst

LEMMA ReceivesFinal ==
  ASSUME srv.state = "sasl", NEW n \in Nonces, NEW d \in Goods(n), srv.bare = BareOf(n),
         srv.first = d, NEW w, w = [bytes |-> FinalOf(n), proof |-> ProofsOf(Password, n, d).proof]
  PROVE  ServerReceives(w) =
           IF srv.pw = Password
           THEN [srv EXCEPT !.state = "verified", !.sig = ProofsOf(Password, n, d).signature]
           ELSE [srv EXCEPT !.state = "sasl_final"]
  <1>1. w.bytes = FinalOf(n) /\ w.proof = ProofsOf(Password, n, d).proof
    OBVIOUS
  <1>2. w.bytes # <<"startup">> /\ w.proof # {}
    BY <1>1, FinalIsNotStartup, ProofsFull
  <1>3. /\ Verified(w.bytes, w.proof) <=> srv.pw = Password
        /\ Signature(w.bytes) = ProofsOf(srv.pw, n, d).signature
    BY <1>1, Verifies
  <1>. QED
    BY <1>2, <1>3, ZenonT(30) DEF ServerReceives

-----------------------------------------------------------------------------
(* Paths *)

LEMMA MoveRange ==
  ASSUME NEW p, NEW m, NEW scram, NEW wbuf
  PROVE  Move(p, m, scram, wbuf) \in {0, 3, 5, 7, 8, 9, 10}
  BY DEF Move

\* The positions at which the client waits for an answer to its own message come first.
LEMMA WaitsFirst ==
  ASSUME NEW P, NEW p, NEW S, NEW q \in Seq(S), NEW scram, NEW wbuf, Path(P, p, q, scram, wbuf),
         P[Len(q) + 1] \in {1, 2, 4, 6}
  PROVE  q = <<>> /\ p = P[Len(q) + 1]
  BY SeqEmpty, MoveRange, SeqLen DEF Path

\* At a turn, no message is ahead.
LEMMA TurnIsLast ==
  ASSUME NEW P, NEW p \in Turns, NEW S, NEW q \in Seq(S), NEW scram, NEW wbuf, Path(P, p, q, scram, wbuf)
  PROVE  q = <<>>
  BY SeqLen, SeqEmpty DEF Path

LEMMA EmptyPath ==
  ASSUME NEW p \in 0..10, NEW scram, NEW wbuf
  PROVE  \E P : Path(P, p, <<>>, scram, wbuf) /\ P[Len(<<>>) + 1] = p /\ Len(<<>>) = 0
  <1> DEFINE P == [i \in 1..1 |-> p]
  <1>2. P \in [1..1 -> 0..10] /\ P[1] = p
    OBVIOUS
  <1> HIDE DEF P
  <1>. QED
    BY <1>2 DEF Path

\* R is P and the positions after it.
Extends(R, P, n) == \A i \in 1..n : R[i] = P[i]

LEMMA PathAppend ==
  ASSUME NEW P, NEW p, NEW S, NEW q \in Seq(S), NEW m \in S, NEW scram, NEW wbuf,
         Path(P, p, q, scram, wbuf), P[Len(q) + 1] \notin Turns
  PROVE  \E R : /\ Path(R, p, Append(q, m), scram, wbuf)
                /\ R[Len(Append(q, m)) + 1] = Move(P[Len(q) + 1], m, scram, wbuf)
                /\ Extends(R, P, Len(q) + 1)
  <1> DEFINE n == Len(q)
             x == Move(P[n + 1], m, scram, wbuf)
             t == Append(q, m)
             R == [i \in 1..(n + 2) |-> IF i <= n + 1 THEN P[i] ELSE x]
  <1>1. n \in Nat
    BY SeqLen
  <1>2. Len(t) = n + 1 /\ (\A i \in 1..n : t[i] = q[i]) /\ t[n + 1] = m
    BY SeqAppend
  <1> HIDE DEF n, t, x
  <1>9. \A i \in 1..(n + 1) : R[i] = P[i]
    BY <1>1
  <1>10. R[n + 2] = x
    BY <1>1
  <1> HIDE DEF R
  <1>12. ASSUME NEW i \in 1..(n + 1)
         PROVE  R[i] \notin Turns /\ R[i + 1] = Move(R[i], t[i], scram, wbuf)
    BY <1>1, <1>2, <1>9, <1>10 DEF n, x, Path
  <1>13. Len(t) + 1 = n + 2
    BY <1>1, <1>2
  <1>14. Path(R, p, t, scram, wbuf)
    BY <1>2, <1>12, <1>13, <1>1, <1>9, MoveRange DEF Path, x, R, n
  <1>. QED
    BY <1>9, <1>10, <1>13, <1>14 DEF Extends, n, t, x

\* The path after the first message was handled.
\* R is P without its first position, for the messages q.
Shifts(R, P, q) ==
  /\ R[Len(Tail(q)) + 1] = P[Len(q) + 1] /\ Len(Tail(q)) + 1 = Len(q)
  /\ \A i \in 1..Len(q) : R[i] = P[i + 1]

LEMMA PathTail ==
  ASSUME NEW P, NEW p, NEW S, NEW q \in Seq(S), q # <<>>, NEW scram, NEW wbuf, Path(P, p, q, scram, wbuf)
  PROVE  \E R : Path(R, Move(p, q[1], scram, wbuf), Tail(q), scram, wbuf) /\ Shifts(R, P, q)
  <1> DEFINE n == Len(q)
             t == Tail(q)
             R == [i \in 1..n |-> P[i + 1]]
  <1>1. n \in Nat \ {0}
    BY SeqEmpty
  <1>2. Len(t) = n - 1 /\ \A i \in 1..Len(t) : t[i] = q[i + 1]
    BY SeqTail
  <1>3. P \in [1..(n + 1) -> 0..10] /\ P[1] = p
    BY DEF Path
  <1>4. \A i \in 1..n : P[i] \notin Turns /\ P[i + 1] = Move(P[i], q[i], scram, wbuf)
    BY DEF Path
  <1> HIDE DEF n, t
  <1>5. R \in [1..n -> 0..10] /\ \A i \in 1..n : R[i] = P[i + 1]
    BY <1>1, <1>3
  <1> HIDE DEF R
  <1>6. 1 \in 1..n /\ n \in 1..n
    BY <1>1
  <1>8. ASSUME NEW i \in 1..Len(t)
        PROVE  R[i] \notin Turns /\ R[i + 1] = Move(R[i], t[i], scram, wbuf)
    <2>1. i \in 1..n /\ i + 1 \in 1..n
      BY <1>1, <1>2
    <2>. QED
      BY <1>4, <2>1, <1>2, <1>5
  <1>9. Len(t) + 1 = n
    BY <1>1, <1>2
  <1>10. Path(R, Move(p, q[1], scram, wbuf), t, scram, wbuf)
    BY <1>5, <1>8, <1>9, <1>3, <1>4, <1>6 DEF Path
  <1>. QED
    BY <1>10, <1>5, <1>9, <1>6 DEF t, n, Shifts

-----------------------------------------------------------------------------
(* Records *)

\* A session of the server, t, that differs from s in the fields given.
Updated(t, s, state, bare, first, sig, honest, quiet) ==
  /\ IsServer(t) /\ t.sess = s.sess /\ t.state = state /\ t.pw = s.pw /\ t.bare = bare
  /\ t.first = first /\ t.sig = sig /\ t.honest = honest /\ t.quiet = quiet

LEMMA ServerFields ==
  ASSUME NEW s, NEW a, NEW b, NEW c, NEW d, NEW e, NEW f \in BOOLEAN, NEW g \in BOOLEAN,
         NEW t, t = Server(s.sess, a, s.pw, b, c, d, f, g, e)
  PROVE  Updated(t, s, a, b, c, d, f, g)
  BY DEF Server, Updated, IsServer

LEMMA StateSet ==
  ASSUME NEW s, IsServer(s), NEW x
  PROVE  Updated([s EXCEPT !.state = x], s, x, s.bare, s.first, s.sig, s.honest, s.quiet)
  BY ServerFields DEF IsServer, Server

LEMMA StateHonestSet ==
  ASSUME NEW s, IsServer(s), NEW x, NEW y \in BOOLEAN
  PROVE  Updated([s EXCEPT !.state = x, !.honest = y], s, x, s.bare, s.first, s.sig, y, s.quiet)
  <1> DEFINE u == [s EXCEPT !.state = x]
             t == [u EXCEPT !.honest = y]
  <1> HIDE DEF u, t
  <1>1. u = Server(s.sess, x, s.pw, s.bare, s.first, s.sig, s.honest, s.quiet, s.extra)
    BY DEF IsServer, Server, u
  <1>3. s.honest \in BOOLEAN /\ s.quiet \in BOOLEAN
    BY DEF IsServer
  <1>4. Updated(t, s, x, s.bare, s.first, s.sig, y, s.quiet)
    BY <1>3, ServerFields, <1>1 DEF Server, t
  <1>. QED
    BY <1>4 DEF u, t

LEMMA FirstSet ==
  ASSUME NEW s, IsServer(s), NEW x, NEW y, NEW z \in BOOLEAN
  PROVE  Updated([s EXCEPT !.state = x, !.first = y, !.honest = z], s, x, s.bare, y, s.sig, z, s.quiet)
  <1> DEFINE u == [s EXCEPT !.state = x]
             v == [u EXCEPT !.first = y]
             t == [v EXCEPT !.honest = z]
  <1> HIDE DEF u, v, t
  <1>1. u = Server(s.sess, x, s.pw, s.bare, s.first, s.sig, s.honest, s.quiet, s.extra)
    BY DEF IsServer, Server, u
  <1>2. v = Server(s.sess, x, s.pw, s.bare, y, s.sig, s.honest, s.quiet, s.extra)
    BY <1>1 DEF Server, v
  <1>5. Updated(t, s, x, s.bare, y, s.sig, z, s.quiet)
    BY ServerFields, <1>2 DEF Server, t, IsServer
  <1>. QED
    BY <1>5 DEF u, v, t

LEMMA ExtraSet ==
  ASSUME NEW s, IsServer(s), NEW x, NEW y \in BOOLEAN
  PROVE  Updated([s EXCEPT !.extra = x, !.quiet = y], s, s.state, s.bare, s.first, s.sig, s.honest, y)
  <1> DEFINE u == [s EXCEPT !.extra = x]
             t == [u EXCEPT !.quiet = y]
  <1> HIDE DEF u, t
  <1>1. u = Server(s.sess, s.state, s.pw, s.bare, s.first, s.sig, s.honest, s.quiet, x)
    BY DEF IsServer, Server, u
  <1>3. s.honest \in BOOLEAN /\ s.quiet \in BOOLEAN
    BY DEF IsServer
  <1>4. Updated(t, s, s.state, s.bare, s.first, s.sig, s.honest, y)
    BY <1>3, ServerFields, <1>1 DEF Server, t
  <1>. QED
    BY <1>4 DEF u, t

LEMMA BareSet ==
  ASSUME NEW s, IsServer(s), NEW x, NEW y
  PROVE  Updated([s EXCEPT !.state = x, !.bare = y], s, x, y, s.first, s.sig, s.honest, s.quiet)
  <1> DEFINE u == [s EXCEPT !.state = x]
             t == [u EXCEPT !.bare = y]
  <1> HIDE DEF u, t
  <1>1. u = Server(s.sess, x, s.pw, s.bare, s.first, s.sig, s.honest, s.quiet, s.extra)
    BY DEF IsServer, Server, u
  <1>3. s.honest \in BOOLEAN /\ s.quiet \in BOOLEAN
    BY DEF IsServer
  <1>4. Updated(t, s, x, y, s.first, s.sig, s.honest, s.quiet)
    BY <1>3, ServerFields, <1>1 DEF Server, t
  <1>. QED
    BY <1>4 DEF u, t

LEMMA SigSet ==
  ASSUME NEW s, IsServer(s), NEW x, NEW y
  PROVE  Updated([s EXCEPT !.state = x, !.sig = y], s, x, s.bare, s.first, y, s.honest, s.quiet)
  <1> DEFINE u == [s EXCEPT !.state = x]
             t == [u EXCEPT !.sig = y]
  <1> HIDE DEF u, t
  <1>1. u = Server(s.sess, x, s.pw, s.bare, s.first, s.sig, s.honest, s.quiet, s.extra)
    BY DEF IsServer, Server, u
  <1>3. s.honest \in BOOLEAN /\ s.quiet \in BOOLEAN
    BY DEF IsServer
  <1>4. Updated(t, s, x, s.bare, s.first, y, s.honest, s.quiet)
    BY <1>3, ServerFields, <1>1 DEF Server, t
  <1>. QED
    BY <1>4 DEF u, t

-----------------------------------------------------------------------------
(* The server sends *)

LEMMA LinkAppend ==
  ASSUME NEW im, NEW wbuf, NEW S, NEW q \in Seq(S), NEW m \in S, NEW s, NEW t,
         NEW P, Path(P, im.rp, q, im.scram, wbuf), Met(P, q, s), P[Len(q) + 1] \notin Turns,
         Meets(t.state, Move(P[Len(q) + 1], m, im.scram, wbuf)),
         Fair(t) => Fair(s) /\ Move(P[Len(q) + 1], m, im.scram, wbuf) # 0
  PROVE  Linked(im, wbuf, Append(q, m), t)
  <1> DEFINE x == Move(P[Len(q) + 1], m, im.scram, wbuf)
             u == Append(q, m)
  <1>1. PICK R : Path(R, im.rp, u, im.scram, wbuf) /\ R[Len(u) + 1] = x /\ Extends(R, P, Len(q) + 1)
    BY PathAppend
  <1> HIDE DEF x, u
  <1>4. ASSUME Fair(t), NEW i \in 1..(Len(u) + 1) PROVE R[i] # 0
    BY <1>4, <1>1, SeqAppend, SeqLen DEF x, Met, Extends, u
  <1>. QED
    BY <1>1, <1>4 DEF Linked, u, Met, x

LEMMA CarriesAppend ==
  ASSUME NEW S, NEW q \in Seq(S), NEW m \in S, NEW t, Carries(q, t), Carried(m, t)
  PROVE  Carries(Append(q, m), t)
  BY SeqAppend, SeqLen DEF Carries

\* The states in which the server sends, and what it changes of its session.
Sends == {"startup", "sasl_first", "sasl_final", "verified", "approved"}

Follows(t) ==
  /\ IsServer(t)
  /\ t.sess = srv.sess /\ t.pw = srv.pw /\ t.bare = srv.bare /\ t.sig = srv.sig
  /\ t.state \in {"startup", "sasl", "sasl_first", "approved", "ready", "refused", "stopped"}
  /\ t.first = srv.first \/ srv.state = "sasl_first"
  /\ srv.state \in {"startup", "sasl_first"} \/ t.state \notin {"startup", "sasl_first", "sasl"}

LEMMA CarriesKept ==
  ASSUME NEW q, Carries(q, srv), NEW t, Follows(t)
  PROVE  Carries(q, t)
  BY DEF Carries, Carried, Follows

LEMMA KnowsKept ==
  ASSUME NEW im, NEW wbuf, Knows(im, wbuf, srv), im.rp # 5, NEW t, Follows(t)
  PROVE  Knows(im, wbuf, t)
  BY DEF Follows, Shares, Knows

LEMMA SendTalks ==
  ASSUME InStep, srv.state \in Sends
  PROVE  Talks /\ Dialogue /\ Knows(impl, st.wbuf, srv) /\ ret.ec = "none"
  BY DEF InStep, TypeOK, Places, Sends, Talks

LEMMA JoinsAssociate ==
  ASSUME NEW S, NEW a \in Seq(S), NEW b \in Seq(S), NEW c \in Seq(S)
  PROVE  a \o (b \o c) = (a \o b) \o c
  BY SeqAssoc

LEMMA AheadSent ==
  ASSUME NEW M, NEW N, st.rbuf \in Seq(M), inflight \in Seq(M), NEW msgs \in Seq(N)
  PROVE  /\ st.rbuf \in Seq(M \cup N) /\ inflight \o msgs \in Seq(M \cup N)
         /\ Ahead \in Seq(M \cup N)
         /\ st.rbuf \o (inflight \o msgs) = Ahead \o msgs
  <1>1. st.rbuf \in Seq(M \cup N) /\ inflight \in Seq(M \cup N) /\ msgs \in Seq(M \cup N)
    BY SeqWider
  <1>3. st.rbuf \o (inflight \o msgs) = (st.rbuf \o inflight) \o msgs
    <2> DEFINE T == M \cup N
               a == st.rbuf
               b == inflight
    <2>1. a \in Seq(T) /\ b \in Seq(T) /\ msgs \in Seq(T)
      BY <1>1
    <2> HIDE DEF a, b, T
    <2>2. a \o (b \o msgs) = (a \o b) \o msgs
      BY <2>1, JoinsAssociate
    <2>. QED
      BY <2>2 DEF a, b
  <1>. QED
    BY <1>1, <1>3, SeqConcat DEF Ahead

LEMMA SendStep ==
  ASSUME InStep, srv.state \in Sends, NEW N, NEW msgs \in Seq(N), NEW t, Send(msgs, t), Follows(t),
         Linked(impl, st.wbuf, Ahead \o msgs, t), Carries(Ahead \o msgs, t)
  PROVE  InStep'
  <1>1. Talks /\ Dialogue /\ Knows(impl, st.wbuf, srv) /\ ret.ec = "none"
    BY SendTalks
  <1>2. srv' = t /\ inflight' = inflight \o msgs /\ pc' = pc /\ sock' = sock /\ impl' = impl
        /\ st' = st /\ attempt' = attempt /\ fresh' = fresh /\ ret' = ret
    BY DEF Send
  <1>3. PICK M : st.rbuf \in Seq(M) /\ inflight \in Seq(M)
    BY <1>1 DEF Dialogue
  <1>4. Ahead' = Ahead \o msgs
    BY <1>2, <1>3, AheadSent, ZenonT(30) DEF Ahead
  <1>5. Dialogue'
    <2>1. st.rbuf \in Seq(M \cup N) /\ inflight \o msgs \in Seq(M \cup N)
      BY <1>3, AheadSent
    <2>. QED
      BY <1>2, <1>4, <2>1 DEF Dialogue
  <1>6. impl.rp # 5
    <2>1. PICK P : Path(P, impl.rp, Ahead, impl.scram, st.wbuf) /\ Met(P, Ahead, srv)
      BY <1>1 DEF Dialogue, Linked
    <2>3. ASSUME impl.rp = 5 PROVE FALSE
      BY <2>1, <2>3, TurnIsLast, <1>3, SeqConcat DEF Turns, Path, Met, Meets, Sends, Ahead
    <2>. QED
      BY <2>3
  <1>8. TypeOK'
    BY <1>2 DEF InStep, TypeOK, Follows, States
  <1>. QED
    BY <1>5, <1>8, <1>1, <1>2, <1>6, KnowsKept DEF InStep, Places, Follows, Talks, FailsForCause,
       ProofAccepted, Causes

\* One message, and its consequences, from the position that the server expects.
Answers(m, t) ==
  \A p : (Meets(srv.state, p) /\ (p \in {4, 6} => impl.rp = p)) =>
         /\ Meets(t.state, Move(p, m, impl.scram, st.wbuf))
         /\ (Fair(t) /\ p # 0) => Move(p, m, impl.scram, st.wbuf) # 0

LEMMA SendOne ==
  ASSUME InStep, srv.state \in Sends, NEW m, NEW t, Send(<<m>>, t), Follows(t), Carried(m, t),
         Fair(t) => Fair(srv), Answers(m, t)
  PROVE  InStep'
  <1>1. Dialogue
    BY SendTalks
  <1>2. PICK M : st.rbuf \in Seq(M) /\ inflight \in Seq(M)
    BY <1>1 DEF Dialogue
  <1>3. PICK P : Path(P, impl.rp, Ahead, impl.scram, st.wbuf) /\ Met(P, Ahead, srv)
    BY <1>1 DEF Dialogue, Linked
  <1> DEFINE T == M \cup {m}
             p == P[Len(Ahead) + 1]
  <1>4. <<m>> \in Seq({m})
    OBVIOUS
  <1>5. Ahead \in Seq(T) /\ m \in T
    BY <1>2, <1>4, AheadSent, ZenonT(30)
  <1>6. Meets(srv.state, p)
    BY <1>3 DEF Met
  <1>10. /\ Meets(t.state, Move(p, m, impl.scram, st.wbuf))
         /\ Fair(t) => Fair(srv) /\ Move(p, m, impl.scram, st.wbuf) # 0
    BY <1>3, <1>6, <1>5, WaitsFirst, SeqLen DEF Met, Answers
  <1> HIDE DEF T
  <1>11. Linked(impl, st.wbuf, Append(Ahead, m), t)
    BY <1>3, <1>5, <1>10, LinkAppend, <1>6 DEF Meets, Sends, Turns
  <1>12. Carries(Append(Ahead, m), t)
    BY <1>1, <1>5, CarriesKept, CarriesAppend DEF Dialogue
  <1>13. Append(Ahead, m) = Ahead \o <<m>>
    BY <1>5, AppendConcat
  <1>. QED
    BY <1>4, <1>11, <1>12, <1>13, SendStep, ZenonT(30)

LEMMA MsgIs ==
  ASSUME NEW k
  PROVE  Msg(k).kind = k /\ Msg(k).sess = srv.sess
  BY DEF Msg

\* A message that is not part of SASL.
LEMMA PlainCarried ==
  ASSUME NEW k, k \notin {"authentication_sasl_continue", "authentication_sasl_final"},
         NEW t, t.sess = srv.sess
  PROVE  Carried(Msg(k), t)
  BY MsgIs DEF Carried

LEMMA MisbehavesStep ==
  ASSUME InStep, ServerMisbehaves
  PROVE  InStep'
  <1>1. PICK k \in Stray \ (IF srv.state = "approved" THEN {"ready_for_query"} ELSE {}) :
          Send(<<Msg(k)>>, [srv EXCEPT !.state = "stopped", !.honest = FALSE])
    BY DEF ServerMisbehaves
  <1> DEFINE t == [srv EXCEPT !.state = "stopped", !.honest = FALSE]
             m == Msg(k)
  <1>2. srv.state \in {"startup", "sasl_first", "sasl_final", "approved"}
    BY DEF ServerMisbehaves
  <1>3. Updated(t, srv, "stopped", srv.bare, srv.first, srv.sig, FALSE, srv.quiet)
    BY StateHonestSet, ZenonT(30) DEF InStep
  <1>4. k \in {"data_row", "ready_for_query", "malformed"} /\ (srv.state = "approved" => k # "ready_for_query")
    BY DEF Stray
  <1> HIDE DEF t, m
  <1>6. Follows(t) /\ Carried(m, t) /\ ~Fair(t)
    BY <1>3, <1>4, PlainCarried DEF Follows, Fair, m, Updated
  <1>7. Answers(m, t)
    BY <1>2, <1>4, <1>3, <1>6, MsgIs DEF Meets, Move, UnknownAuth, Answers, Updated, m
  <1>. QED
    BY <1>6, <1>7, SendOne, <1>1, <1>2 DEF m, t, Sends

\* A message that changes only the state of the session, and keeps every path going.
Steers(m, x) ==
  \A p : (Meets(srv.state, p) /\ (p \in {4, 6} => impl.rp = p)) =>
         /\ Meets(x, Move(p, m, impl.scram, st.wbuf))
         /\ p # 0 => Move(p, m, impl.scram, st.wbuf) # 0

LEMMA SendPlain ==
  ASSUME InStep, srv.state \in Sends, NEW m, NEW x, Send(<<m>>, [srv EXCEPT !.state = x]),
         m.sess = srv.sess,
         m.kind \notin {"authentication_sasl_continue", "authentication_sasl_final"},
         x \in {"startup", "sasl", "sasl_first", "approved", "ready", "refused", "stopped"},
         srv.state \in {"startup", "sasl_first"} \/ x \notin {"startup", "sasl_first", "sasl"},
         Steers(m, x)
  PROVE  InStep'
  <1> DEFINE t == [srv EXCEPT !.state = x]
  <1> HIDE DEF t
  <1>2. Follows(t) /\ Carried(m, t) /\ (Fair(t) => Fair(srv)) /\ t.state = x
    BY StateSet DEF Follows, Fair, Updated, Carried, InStep, t
  <1>4. Send(<<m>>, t)
    BY DEF t
  <1>. QED
    BY <1>2, <1>4, SendOne DEF Answers, Steers

LEMMA RefusesStep ==
  ASSUME InStep, ServerRefuses
  PROVE  InStep'
  BY MsgIs, SendPlain DEF ServerRefuses, Sends, Meets, Move, UnknownAuth, Steers

LEMMA TrustsStep ==
  ASSUME InStep, ServerTrusts
  PROVE  InStep'
  BY MsgIs, SendPlain DEF ServerTrusts, Sends, Meets, Move, UnknownAuth, Steers

LEMMA ReadyStep ==
  ASSUME InStep, ServerReady
  PROVE  InStep'
  BY MsgIs, SendPlain DEF ServerReady, Sends, Meets, Move, UnknownAuth, Steers

LEMMA AsksStep ==
  ASSUME InStep, ServerAsks
  PROVE  InStep'
  <1>1. srv.state = "startup" /\ srv.state \in Sends
    BY DEF ServerAsks, Sends
  <1>2. ASSUME NEW k \in UnknownAuth, Send(<<Msg(k)>>, [srv EXCEPT !.state = "stopped"])
        PROVE  InStep'
    BY <1>2, <1>1, MsgIs, SendPlain DEF Meets, Move, UnknownAuth, Steers
  <1>3. ASSUME NEW scram \in BOOLEAN,
               Send(<<[kind |-> "authentication_sasl", sess |-> srv.sess,
                       mechanisms |-> IF scram THEN {"SCRAM-SHA-256-PLUS", "SCRAM-SHA-256"}
                                               ELSE {"SCRAM-SHA-256-PLUS"}]>>,
                    [srv EXCEPT !.state = IF scram THEN "sasl" ELSE "stopped"])
        PROVE  InStep'
    BY <1>3, <1>1, SendPlain DEF Meets, Move, UnknownAuth, Steers
  <1>. QED
    BY <1>2, <1>3, ZenonT(30) DEF ServerAsks

LEMMA ExtrasStep ==
  ASSUME InStep, ServerExtras
  PROVE  InStep'
  <1> DEFINE y == srv.quiet /\ srv.state = "approved"
             t == [srv EXCEPT !.extra = srv.extra + 1, !.quiet = y]
  <1>1. srv.state \in {"startup", "sasl_first", "approved"} /\ srv.state \in Sends
    BY DEF ServerExtras, Sends
  <1>2. PICK k \in IF srv.state = "approved"
                   THEN {"parameter_status", "notice_response", "backend_key_data"}
                   ELSE {"notice_response"} :
          Send(<<Msg(k)>>, [srv EXCEPT !.extra = @ + 1, !.quiet = @ /\ srv.state = "approved"])
    BY DEF ServerExtras
  <1> DEFINE m == Msg(k)
  <1>3. Send(<<m>>, t)
    BY <1>2
  <1>5. y \in BOOLEAN
    OBVIOUS
  <1>6. y <=> (srv.quiet /\ srv.state = "approved")
    OBVIOUS
  <1> HIDE DEF y
  <1>7. Updated(t, srv, srv.state, srv.bare, srv.first, srv.sig, srv.honest, y)
    BY <1>5, ExtraSet, ZenonT(30) DEF InStep
  <1> HIDE DEF t, m
  <1>10. ASSUME NEW p, Meets(srv.state, p)
         PROVE  /\ Meets(srv.state, Move(p, m, impl.scram, st.wbuf))
                /\ (srv.state = "approved" /\ p # 0) => Move(p, m, impl.scram, st.wbuf) # 0
    BY <1>1, <1>10, <1>2, MsgIs DEF Meets, Move, UnknownAuth, m
  <1>. QED
    BY <1>1, <1>3, SendOne, <1>2, <1>7, PlainCarried, <1>10, <1>6 DEF Updated, m, Answers,
       Follows, Fair

LEMMA FirstsAnswer ==
  ASSUME NEW f \in ServerFirsts
  PROVE  f.ok \in BOOLEAN
  <1> DEFINE nonce == SubSeq(srv.bare, 2, Len(srv.bare)) \o <<"server_nonce">>
             a == SaslFirst(nonce, "2")
             b == SaslFirst(nonce, "2") \o <<Comma, "x=">>
             D == {SaslFirst(nonce, c) : c \in {"0", "too_many", "NaN"}} \cup
                  {SaslFirst(n, "2") : n \in {<<>>, <<"other_nonce">>, <<"unprintable">>}} \cup
                  {SubSeq(SaslFirst(nonce, "2"), 1, i) : i \in 0..7} \cup
                  {<<"m=", Comma>>, <<"m", Comma>>}
  <1>1. f \in {[ok |-> TRUE, data |-> a], [ok |-> TRUE, data |-> b]} \cup
             (IF ~Faulty THEN {} ELSE {[ok |-> FALSE, data |-> d] : d \in D})
    BY Zenon DEF ServerFirsts
  <1> HIDE DEF a, b, D
  <1>2. f \in {[ok |-> TRUE, data |-> a], [ok |-> TRUE, data |-> b]}
        \/ \E d \in D : f = [ok |-> FALSE, data |-> d]
    BY <1>1, Zenon
  <1>3. ASSUME NEW x, NEW d, f = [ok |-> x, data |-> d] PROVE f.ok = x
    BY <1>3
  <1>4. f.ok = TRUE \/ f.ok = FALSE
    BY <1>2, <1>3, Zenon
  <1>. QED
    BY <1>4, Zenon

LEMMA ContinuesStep ==
  ASSUME InStep, ServerContinues
  PROVE  InStep'
  <1>1. srv.state = "sasl_first" /\ srv.state \in Sends
    BY DEF ServerContinues, Sends
  <1>2. PICK f \in ServerFirsts :
          Send(<<[kind |-> "authentication_sasl_continue", sess |-> srv.sess, data |-> f.data]>>,
               [srv EXCEPT !.state = IF f.ok THEN "sasl" ELSE "stopped", !.first = f.data,
                           !.honest = @ /\ f.ok])
    BY ZenonT(30) DEF ServerContinues
  <1>3. f.ok \in BOOLEAN
    BY FirstsAnswer
  <1> DEFINE m == [kind |-> "authentication_sasl_continue", sess |-> srv.sess, data |-> f.data]
             x == IF f.ok THEN "sasl" ELSE "stopped"
             y == f.data
             z == srv.honest /\ f.ok
             t == [srv EXCEPT !.state = x, !.first = y, !.honest = z]
  <1>4. Send(<<m>>, t)
    BY <1>2
  <1>5. m.kind = "authentication_sasl_continue" /\ m.sess = srv.sess /\ m.data = y
    OBVIOUS
  <1>6. z \in BOOLEAN /\ (z <=> (srv.honest /\ f.ok))
    OBVIOUS
  <1>7. x \in {"sasl", "stopped"} /\ (x = "sasl" <=> f.ok)
    OBVIOUS
  <1> HIDE DEF x, z
  <1>8. Updated(t, srv, x, srv.bare, y, srv.sig, z, srv.quiet)
    BY <1>6, FirstSet, ZenonT(30) DEF InStep
  <1> HIDE DEF t, m
  <1>9. Follows(t) /\ t.state = x /\ t.first = y /\ t.bare = srv.bare /\ t.sess = srv.sess
    BY <1>1, <1>7, <1>8 DEF Follows, Updated
  <1>11. Carried(m, t)
    <2>1. ASSUME f.ok, NEW n \in Nonces, srv.bare = BareOf(n)
          PROVE  y \in Goods(n)
      BY <2>1, FirstsAre, ZenonT(30)
    <2>. QED
      BY <1>5, <1>7, <1>9, <2>1 DEF Carried
  <1>12. ASSUME NEW p, Meets(srv.state, p), p \in {4, 6} => impl.rp = p
         PROVE  /\ Meets(x, Move(p, m, impl.scram, st.wbuf))
                /\ (f.ok /\ p # 0) => Move(p, m, impl.scram, st.wbuf) # 0
    <2>2. CASE p = 0
      BY <1>5, <1>7, <2>2 DEF Move, Meets
    <2>3. CASE p = 4
      <3>1. impl.rp = 4 /\ Knows(impl, st.wbuf, srv)
        BY <1>1, <1>12, <2>3, SendTalks
      <3>2. PICK n \in Nonces : Shares(impl, st.wbuf, srv, n)
        BY <3>1 DEF Knows
      <3>3. impl.scram = OnInit(<<n>>).scram /\ st.wbuf = OnInit(<<n>>).wbuf /\ srv.bare = BareOf(n)
        BY <3>1, <3>2 DEF Shares
      <3>4. OnServerFirst(impl.scram, st.wbuf, y, Password).ec = "ok" <=> f.ok
        <4>1. CASE f.ok = TRUE /\ f.data \in Goods(n)
          <5>1. OnServerFirst(impl.scram, st.wbuf, y, Password) =
                  [ec |-> "ok",
                   wbuf |-> [bytes |-> FinalOf(n), proof |-> ProofsOf(Password, n, y).proof],
                   scram |-> [OnInit(<<n>>).scram EXCEPT !.signature = ProofsOf(Password, n, y).signature]]
            BY <3>3, <4>1, GoodAccepted
          <5>. QED
            BY <4>1, <5>1
        <4>2. CASE f.ok = FALSE /\ f.data \in Bads(n)
          BY <3>3, <4>2, BadRejected
        <4>. QED
          BY <3>3, <4>1, <4>2, FirstsAre, ZenonT(30)
      <3>. QED
        BY <1>7, <1>5, <2>3, <3>4 DEF Meets, Move, UnknownAuth
    <2>. QED
      BY <2>2, <2>3, <1>1, <1>12 DEF Meets
  <1>. QED
    BY <1>1, <1>4, <1>9, <1>11, SendOne, <1>12, <1>6, <1>8 DEF Answers, Fair, Updated

\* When the server answers the client's proof, nothing else is on its way.
LEMMA ProofIsLast ==
  ASSUME InStep, srv.state \in {"sasl_final", "verified"}
  PROVE  Ahead = <<>> /\ impl.rp = 6
  <1>1. Dialogue
    BY SendTalks DEF Sends
  <1>2. PICK M : st.rbuf \in Seq(M) /\ inflight \in Seq(M)
    BY <1>1 DEF Dialogue
  <1>3. PICK P : Path(P, impl.rp, Ahead, impl.scram, st.wbuf) /\ Met(P, Ahead, srv)
    BY <1>1 DEF Dialogue, Linked
  <1>4. Ahead \in Seq(M)
    BY <1>2, SeqConcat DEF Ahead
  <1>. QED
    BY <1>3, <1>4, WaitsFirst DEF Met, Meets

LEMMA SignsStep ==
  ASSUME InStep, ServerSigns
  PROVE  InStep'
  <1> DEFINE f == Final("v=", TRUE, srv.sig)
             a == Msg("authentication_ok")
             msgs == <<f, a>>
             t == [srv EXCEPT !.state = "approved"]
             P == <<6, 7, 8>>
  <1>1. srv.state = "verified" /\ srv.state \in Sends /\ Send(msgs, t)
    BY DEF ServerSigns, Sends
  <1>2. Ahead = <<>> /\ impl.rp = 6 /\ Knows(impl, st.wbuf, srv) /\ Dialogue
    BY <1>1, ProofIsLast, SendTalks
  <1>3. Updated(t, srv, "approved", srv.bare, srv.first, srv.sig, srv.honest, srv.quiet)
    BY StateSet DEF InStep
  <1>4. /\ f.kind = "authentication_sasl_final" /\ f.sess = srv.sess
        /\ f.data = [tag |-> "v=", base64 |-> TRUE, signature |-> srv.sig]
        /\ f.data.signature = srv.sig
    BY DEF Final
  <1>5. a.kind = "authentication_ok" /\ a.sess = srv.sess
    BY MsgIs
  <1> HIDE DEF f, a, t
  <1>6. Follows(t) /\ t.state = "approved" /\ (Fair(t) => Fair(srv))
    BY <1>1, <1>3 DEF Follows, Updated, Fair
  <1>10. msgs \in Seq({f, a}) /\ Len(msgs) = 2 /\ msgs[1] = f /\ msgs[2] = a
    OBVIOUS
  <1>11. P \in [1..3 -> 0..10] /\ P[1] = 6 /\ P[2] = 7 /\ P[3] = 8
    OBVIOUS
  <1> HIDE DEF msgs, P
  <1>13. Path(P, 6, msgs, impl.scram, st.wbuf)
    BY <1>10, <1>11, <1>1, <1>2, <1>4, <1>5 DEF Path, Turns, Knows, OnServerFinal,
       ParseServerFinal, Move, UnknownAuth
  <1>15. Linked(impl, st.wbuf, msgs, t)
    BY <1>2, <1>13, <1>6, <1>10, <1>11 DEF Linked, Met, Meets
  <1>16. Carries(msgs, t)
    BY <1>10, <1>3, <1>4, <1>5 DEF Carries, Carried, Updated
  <1>. QED
    BY <1>1, <1>6, <1>10, <1>15, <1>16, SendStep, <1>2, SeqUnit

LEMMA ForgesStep ==
  ASSUME InStep, ServerForges
  PROVE  InStep'
  <1>1. PICK f \in {Final("v=", TRUE, {}), Final("v=", FALSE, {}), Final("e=", TRUE, {})} :
          Send(<<f, Msg("authentication_ok"), Msg("ready_for_query")>>,
               [srv EXCEPT !.state = "stopped", !.honest = FALSE])
    BY ZenonT(30) DEF ServerForges
  <1> DEFINE a == Msg("authentication_ok")
             b == Msg("ready_for_query")
             msgs == <<f, a, b>>
             t == [srv EXCEPT !.state = "stopped", !.honest = FALSE]
             P == <<6, 0, 0, 0>>
  <1>2. srv.state = "sasl_final" /\ srv.state \in Sends /\ Send(msgs, t)
    BY <1>1 DEF ServerForges, Sends
  <1>3. Ahead = <<>> /\ impl.rp = 6 /\ Knows(impl, st.wbuf, srv)
    BY <1>2, ProofIsLast, SendTalks
  <1>4. Updated(t, srv, "stopped", srv.bare, srv.first, srv.sig, FALSE, srv.quiet)
    BY StateHonestSet, ZenonT(30) DEF InStep
  <1>5. f.kind = "authentication_sasl_final" /\ f.sess = srv.sess /\ f.data.signature = {}
    BY <1>1 DEF Final
  <1> HIDE DEF a, b, t
  <1>7. Follows(t) /\ t.state = "stopped" /\ ~Fair(t)
    BY <1>2, <1>4 DEF Follows, Updated, Fair
  <1>9. Move(6, f, impl.scram, st.wbuf) = 0
    BY <1>3, <1>5 DEF Knows, OnServerFinal, ParseServerFinal, Invalid, Move, UnknownAuth
  <1>11. msgs \in Seq({f, a, b}) /\ Len(msgs) = 3 /\ msgs[1] = f /\ msgs[2] = a /\ msgs[3] = b
    OBVIOUS
  <1>12. P \in [1..4 -> 0..10] /\ P[1] = 6 /\ P[2] = 0 /\ P[3] = 0 /\ P[4] = 0
    OBVIOUS
  <1> HIDE DEF msgs, P
  <1>16. Linked(impl, st.wbuf, msgs, t)
    BY <1>3, <1>7, <1>11, <1>12, <1>9 DEF Linked, Met, Meets, Path, Turns, Move
  <1>17. Carries(msgs, t)
    BY <1>11, <1>4, <1>5, MsgIs DEF Carries, Carried, Updated, a, b
  <1>. QED
    BY <1>2, <1>7, <1>11, <1>16, <1>17, SendStep, <1>3, SeqUnit

-----------------------------------------------------------------------------
(* The client's steps *)

\* connect() returns an error and closes the socket.
LEMMA Closes ==
  ASSUME InStep, NEW ec, NEW d, ec # "ok", Returns(ec, d), attempt' = attempt /\ fresh' = fresh,
         IsState(st'), IsImpl(impl'), impl'.rp \in 0..8,
         st'.key \in 0..MaxAttempts, st'.diag \in 0..MaxAttempts,
         Fair(srv) => ec \in Causes
  PROVE  InStep'
  <1> DEFINE t == [srv EXCEPT !.state = "none"]
  <1>2. srv' = t /\ pc' = "idle" /\ sock' = "closed" /\ inflight' = <<>> /\ ret'.ec = ec
    BY DEF Returns
  <1> HIDE DEF t
  <1>3. /\ IsServer(srv') /\ srv'.state = "none" /\ srv'.sess = srv.sess
        /\ srv'.honest = srv.honest /\ srv'.quiet = srv.quiet
    BY <1>2, StateSet DEF Updated, InStep, t
  <1>6. FailsForCause' /\ ProofAccepted'
    BY <1>2, <1>3 DEF FailsForCause, ProofAccepted, Fair
  <1>. QED
    BY <1>3, <1>6, <1>2 DEF InStep, TypeOK, States, Places, Talks

LEMMA IoFailsStep ==
  ASSUME InStep, PhysicalFails \/ IoFails
  PROVE  InStep'
  BY Closes DEF PhysicalFails, IoFails, InStep, TypeOK, Causes

LEMMA SessionLostStep ==
  ASSUME InStep, SessionLost
  PROVE  InStep'
  <1> DEFINE t == [srv EXCEPT !.state = "none"]
  <1>2. /\ srv' = t /\ pc' = "idle" /\ sock' = "closed" /\ inflight' = <<>> /\ ret' = ret
        /\ impl' = impl /\ attempt' = attempt /\ fresh' = fresh
    BY DEF SessionLost
  <1>3. PICK rest : st' = [st EXCEPT !.rbuf = rest]
    BY ZenonT(30) DEF SessionLost
  <1> HIDE DEF t
  <1>5. /\ IsServer(srv') /\ srv'.state = "none" /\ srv'.sess = srv.sess
        /\ srv'.honest = srv.honest /\ srv'.quiet = srv.quiet
    BY <1>2, StateSet DEF Updated, InStep, t
  <1>8. FailsForCause' /\ ProofAccepted'
    BY <1>2, <1>5 DEF InStep, FailsForCause, ProofAccepted
  <1>. QED
    BY <1>5, <1>8, <1>2, <1>3 DEF InStep, TypeOK, States, IsState, Places, Talks

LEMMA WbufSet ==
  ASSUME IsState(st), NEW w, NEW s, s = [st EXCEPT !.wbuf = w]
  PROVE  IsState(s) /\ s.wbuf = w /\ s.rbuf = st.rbuf /\ s.key = st.key /\ s.diag = st.diag
  BY DEF IsState

LEMMA ConnectedStep ==
  ASSUME InStep, PhysicalConnected
  PROVE  InStep'
  <1> DEFINE w == [bytes |-> <<"startup">>, proof |-> {}]
  <1>1. PICK pw \in Passwords :
          srv' = [NoServer EXCEPT !.sess = srv.sess + 1, !.state = "open", !.pw = pw]
    BY ZenonT(30) DEF PhysicalConnected
  <1>2. /\ pc = "connecting" /\ sock' = "open" /\ pc' = "writing" /\ inflight' = inflight
        /\ attempt' = attempt /\ fresh' = fresh /\ ret' = ret
        /\ impl' = [impl EXCEPT !.rp = 1] /\ st' = [st EXCEPT !.wbuf = w]
    BY DEF PhysicalConnected
  <1>3. /\ st.rbuf = <<>> /\ impl = NewImpl /\ inflight = <<>> /\ srv.sess < attempt /\ ret.ec = "none"
    BY <1>2 DEF InStep, Places
  <1>4. srv' = Server(srv.sess + 1, "open", pw, <<>>, <<>>, {}, TRUE, TRUE, 0)
    BY <1>1, ZenonT(30) DEF NoServer, Server
  <1>5. IsImpl(impl') /\ impl'.rp = 1 /\ impl'.scram = NewScram
    BY <1>2, <1>3 DEF NewImpl, IsImpl
  <1>6. IsState(st') /\ st'.rbuf = <<>> /\ st'.wbuf = w /\ st'.key = st.key /\ st'.diag = st.diag
    BY <1>2, <1>3, WbufSet DEF InStep
  <1> HIDE DEF w
  <1>7. IsServer(srv') /\ srv'.state = "open" /\ srv'.sess = srv.sess + 1 /\ srv'.sig = {}
    BY <1>4 DEF IsServer, Server
  <1>13. Knows(impl', st'.wbuf, srv')
    BY <1>5, <1>6, <1>7 DEF Knows, w, NewScram
  <1>14. Dialogue'
    <2>1. PICK P : /\ Path(P, 1, <<>>, impl'.scram, st'.wbuf)
                   /\ P[Len(<<>>) + 1] = 1 /\ Len(<<>>) = 0
      BY EmptyPath
    <2>. QED
      BY <2>1, <1>5, <1>7, SeqUnit, <1>6, <1>2, <1>3 DEF Dialogue, Carries, Linked, Met, Meets,
         Ahead
  <1>. QED
    BY <1>5, <1>6, <1>7, <1>13, <1>14, <1>2, <1>3, ConnectParams DEF InStep, TypeOK, States, Places,
       FailsForCause, ProofAccepted, Causes

LEMMA EmptyLinked ==
  ASSUME NEW im, im.rp \in 1..10, NEW wbuf, NEW s, Meets(s.state, im.rp)
  PROVE  Linked(im, wbuf, <<>>, s) /\ Carries(<<>>, s)
  <1> DEFINE p == im.rp
             scram == im.scram
  <1>1. p \in 0..10 /\ p # 0
    OBVIOUS
  <1> HIDE DEF p, scram
  <1>2. PICK P : Path(P, p, <<>>, scram, wbuf) /\ P[Len(<<>>) + 1] = p /\ Len(<<>>) = 0
    BY <1>1, EmptyPath
  <1>. QED
    BY <1>2, <1>1 DEF Linked, Carries, p, scram, Met

LEMMA WriteEnds ==
  ASSUME InStep, WriteDone, Ahead = <<>>, impl'.rp \in {2, 4, 6}, IsServer(srv'),
         srv'.sess = srv.sess, Meets(srv'.state, impl'.rp),
         srv'.pw = Password => srv'.state # "sasl_final", Knows(impl', st.wbuf, srv')
  PROVE  InStep'
  <1>1. /\ pc = "writing" /\ pc' = "parsing" /\ impl' = [impl EXCEPT !.rp = impl.rp + 1]
        /\ st' = st /\ sock' = sock /\ inflight' = inflight /\ attempt' = attempt /\ fresh' = fresh /\ ret' = ret
    BY DEF WriteDone
  <1>2. ret.ec = "none" /\ Dialogue
    BY <1>1 DEF InStep, Places, Talks
  <1>7. FailsForCause' /\ ProofAccepted'
    BY <1>1, <1>2 DEF FailsForCause, ProofAccepted, Causes
  <1>8. Dialogue'
    <2>3. Linked(impl', st'.wbuf, <<>>, srv') /\ Carries(<<>>, srv')
      BY EmptyLinked
    <2>. QED
      BY <1>1, <1>2, <2>3 DEF Dialogue, Ahead
  <1>. QED
    BY <1>1, <1>7, <1>8, <1>2 DEF InStep, IsImpl, TypeOK, Meets, States, Places

\* While the client writes, the server waits for its message.
LEMMA WritesAlone ==
  ASSUME InStep, pc = "writing"
  PROVE  impl.rp \in {1, 3, 5} /\ Ahead = <<>> /\ Meets(srv.state, impl.rp)
  <1>1. Dialogue /\ impl.rp \in {1, 3, 5}
    BY DEF InStep, Places, Talks
  <1>2. PICK M : st.rbuf \in Seq(M) /\ inflight \in Seq(M)
    BY <1>1 DEF Dialogue
  <1>3. PICK P : Path(P, impl.rp, Ahead, impl.scram, st.wbuf) /\ Met(P, Ahead, srv)
    BY <1>1 DEF Dialogue, Linked
  <1>. QED
    BY <1>1, <1>3, TurnIsLast, <1>2, SeqConcat DEF Met, Path, Ahead, Turns

LEMMA KnowsNothing ==
  ASSUME NEW im, NEW wbuf, NEW s, im.rp = 2, im.scram.signature = {}, s.sig = {},
         s.state # "verified"
  PROVE  Knows(im, wbuf, s)
  BY SMTT(20) DEF Knows

LEMMA KnowsVerified ==
  ASSUME NEW im, NEW wbuf, NEW s, im.rp = 6, im.scram.signature # {},
         s.sig = im.scram.signature, s.pw = Password
  PROVE  Knows(im, wbuf, s)
  BY SMTT(20) DEF Knows

LEMMA WriteStep ==
  ASSUME InStep, WriteDone
  PROVE  InStep'
  <1> DEFINE w == st.wbuf
  <1>1. pc = "writing" /\ srv' = ServerReceives(w) /\ impl' = [impl EXCEPT !.rp = impl.rp + 1]
    BY DEF WriteDone
  <1>2. Dialogue /\ Knows(impl, w, srv) /\ impl.rp \in {1, 3, 5} /\ IsImpl(impl) /\ IsServer(srv)
    BY <1>1 DEF InStep, Places, Talks
  <1>3. impl'.rp = impl.rp + 1 /\ impl'.scram = impl.scram
    BY <1>1, <1>2 DEF IsImpl
  <1>4. Ahead = <<>> /\ Meets(srv.state, impl.rp)
    BY <1>1, WritesAlone
  <1> HIDE DEF w
  <1>5. CASE impl.rp = 1
    <2>1. srv.state = "open"
      BY <1>4, <1>5 DEF Meets
    <2>2. Updated(srv', srv, "startup", srv.bare, srv.first, srv.sig, srv.honest, srv.quiet)
      BY <1>2, <2>1, StateSet, <1>1, <1>5, ReceivesStartup DEF Knows
    <2>3. impl'.rp = 2 /\ Meets("startup", 2)
      BY <1>3, <1>5 DEF Meets
    <2>4. Knows(impl', w, srv')
      <3>1. impl'.scram.signature = {} /\ srv.sig = {}
        BY <1>2, <1>3, <1>5 DEF Knows
      <3>2. srv'.sig = {} /\ srv'.state # "verified"
        BY <2>2, <3>1 DEF Updated
      <3>. QED
        BY <2>3, <3>1, <3>2, KnowsNothing, ZenonT(30)
    <2>. QED
      BY <1>4, WriteEnds, <2>2, <2>3, <2>4 DEF w, Updated
  <1>6. CASE impl.rp = 3
    <2>1. PICK n \in Nonces : Shares(impl, w, srv, n)
      <3>1. impl.rp \in 3..5
        BY <1>6
      <3> QED BY <3>1, <1>2, ZenonT(30) DEF Knows
    <2>2. impl.scram = OnInit(<<n>>).scram /\ w = OnInit(<<n>>).wbuf
      BY <1>6, <2>1 DEF Shares
    <2>3. srv' = [srv EXCEPT !.state = "sasl_first", !.bare = BareOf(n)]
      <3>1. srv.state = "sasl"
        BY <1>4, <1>6 DEF Meets
      <3> QED BY <1>1, <2>2, <3>1, ReceivesFirst, ZenonT(30)
    <2>4. Updated(srv', srv, "sasl_first", BareOf(n), srv.first, srv.sig, srv.honest, srv.quiet)
      BY <1>2, <2>3, BareSet, ZenonT(30)
    <2>5. impl'.rp = 4 /\ Meets("sasl_first", 4)
      BY <1>3, <1>6 DEF Meets
    <2>6. Shares(impl', w, srv', n)
      BY <1>3, <2>2, <2>4, <2>5 DEF Shares, Updated
    <2>7. Knows(impl', w, srv')
      BY <1>2, <1>3, <1>6, <2>4, <2>5, <2>6 DEF Knows, Updated
    <2>. QED
      BY <1>4, WriteEnds, <2>4, <2>5, <2>7, ZenonT(30) DEF w, Updated
  <1>7. CASE impl.rp = 5
    <2>1. PICK n \in Nonces : Shares(impl, w, srv, n)
      BY <1>2, <1>7 DEF Knows
    <2> DEFINE d == srv.first
               sig == ProofsOf(Password, n, d).signature
    <2>2. /\ d \in Goods(n) /\ srv.bare = BareOf(n) /\ impl.scram.signature = sig
          /\ w = [bytes |-> FinalOf(n), proof |-> ProofsOf(Password, n, d).proof]
      BY <1>7, <2>1 DEF Shares
    <2>3. srv' = IF srv.pw = Password
                 THEN [srv EXCEPT !.state = "verified", !.sig = sig]
                 ELSE [srv EXCEPT !.state = "sasl_final"]
      <3>1. srv.state = "sasl"
        BY <1>4, <1>7 DEF Meets
      <3> QED BY <1>1, <2>2, <3>1, ReceivesFinal, ZenonT(30)
    <2>4. srv.sig = {} /\ impl.scram.signature # {}
      BY <1>2, <1>7 DEF Knows
    <2>7. impl'.rp = 6 /\ Meets("verified", 6) /\ Meets("sasl_final", 6)
      BY <1>3, <1>7 DEF Meets
    <2> HIDE DEF sig
    <2>5. CASE srv.pw = Password
      <3>1. srv' = [srv EXCEPT !.state = "verified", !.sig = sig]
        BY <2>3, <2>5
      <3>2. Updated(srv', srv, "verified", srv.bare, srv.first, sig, srv.honest, srv.quiet)
        BY <1>2, <3>1, SigSet, ZenonT(30)
      <3>3. Knows(impl', w, srv')
        <4>1. impl'.rp = 6 /\ impl'.scram.signature = sig /\ sig # {}
          BY <1>3, <2>2, <2>4, <2>7
        <4>2. srv'.sig = sig /\ srv'.pw = Password
          BY <2>5, <3>2 DEF Updated
        <4>. QED
          BY <4>1, <4>2, KnowsVerified, ZenonT(30)
      <3>. QED
        BY <1>4, WriteEnds, <2>7, <3>2, <3>3 DEF w, Updated
    <2>6. CASE srv.pw # Password
      <3>1. srv' = [srv EXCEPT !.state = "sasl_final"]
        BY <2>3, <2>6
      <3>2. Updated(srv', srv, "sasl_final", srv.bare, srv.first, srv.sig, srv.honest, srv.quiet)
        BY <1>2, <3>1, StateSet
      <3>3. Knows(impl', w, srv')
        BY <1>3, <2>4, <2>7, <3>2 DEF Knows, Updated
      <3>. QED
        BY <1>4, WriteEnds, <2>6, <2>7, <3>2, <3>3 DEF w, Updated
    <2>. QED
      BY <2>5, <2>6
  <1>. QED
    BY <1>2, <1>5, <1>6, <1>7

LEMMA CutJoins ==
  ASSUME NEW S, NEW b \in Seq(S), NEW n \in 1..Len(b)
  PROVE  /\ SubSeq(b, 1, n) \in Seq(S) /\ SubSeq(b, n + 1, Len(b)) \in Seq(S)
         /\ SubSeq(b, 1, n) \o SubSeq(b, n + 1, Len(b)) = b
  BY SeqLen, SeqElem, SeqPart, SeqParts, SeqWhole

LEMMA ReadStep ==
  ASSUME InStep, ReadDone
  PROVE  InStep'
  <1> DEFINE a == st.rbuf
             b == inflight
             w == st.wbuf
  <1>1. PICK n \in 1..Len(b) : /\ st' = [st EXCEPT !.rbuf = @ \o SubSeq(b, 1, n)]
                               /\ inflight' = SubSeq(b, n + 1, Len(b))
    BY ZenonT(30) DEF ReadDone
  <1>2. /\ pc = "reading" /\ pc' = "parsing" /\ sock' = sock /\ impl' = impl /\ srv' = srv
        /\ attempt' = attempt /\ fresh' = fresh /\ ret' = ret
    BY DEF ReadDone
  <1>3. Dialogue /\ Knows(impl, w, srv)
    BY <1>2 DEF InStep, Talks
  <1> DEFINE c == SubSeq(b, 1, n)
             d == SubSeq(b, n + 1, Len(b))
  <1>4. /\ IsState(st') /\ st'.rbuf = a \o c /\ st'.wbuf = w /\ st'.key = st.key /\ st'.diag = st.diag
    BY <1>1, ZenonT(30) DEF InStep, IsState
  <1>5. PICK M : a \in Seq(M) /\ b \in Seq(M)
    BY <1>3 DEF Dialogue
  <1>6. inflight' = d
    BY <1>1
  <1>7. c \in Seq(M) /\ d \in Seq(M) /\ c \o d = b
    BY <1>5, CutJoins
  <1>8. Ahead' = Ahead /\ Ahead = a \o b
    <2>1. Ahead' = (a \o c) \o d /\ Ahead = a \o b
      BY <1>4, <1>6 DEF Ahead
    <2>a. a \in Seq(M) /\ c \in Seq(M) /\ d \in Seq(M)
      BY <1>5, <1>7
    <2> HIDE DEF a, b, c, d
    <2>2. a \o (c \o d) = (a \o c) \o d
      BY <2>a, JoinsAssociate
    <2>. QED
      BY <1>7, <2>1, <2>2
  <1>9. Dialogue'
    <2>1. a \o c \in Seq(M)
      BY <1>5, <1>7, JoinedLen
    <2>2. \E X : st'.rbuf \in Seq(X) /\ inflight' \in Seq(X)
      BY <1>4, <1>6, <1>7, <2>1, ZenonT(30)
    <2>. QED
      BY <2>2, <1>2, <1>3, <1>4, <1>8 DEF Dialogue
  <1>. QED
    BY <1>4, <1>9, <1>2, <1>3 DEF InStep, TypeOK, Places, FailsForCause, ProofAccepted

-----------------------------------------------------------------------------
(* A message is handled *)

\* What OnMessage returns for the message m, by the position x that Move gives.
Ends(r, m, x) ==
  /\ r.type = "done" /\ r.impl = impl
  /\ r.st = st \/ r.st = [st EXCEPT !.diag = m.sess]
  /\ \/ x = 9 /\ r.ec = "ok" /\ impl.rp = 8
     \/ x = 10 /\ r.ec \in Causes \ {"ok"}
     \/ x = 0 /\ r.ec # "ok"

GoesOn(r, m, x) ==
  /\ r.type = "read" /\ x \in {7, 8} /\ r.impl = [impl EXCEPT !.rp = x]
  /\ r.st = st \/ r.st = [st EXCEPT !.key = m.sess]
  /\ x = 7 => /\ impl.rp = 6 /\ m.kind = "authentication_sasl_final"
              /\ OnServerFinal(impl.scram, m.data) = "ok"
  /\ x = 8 => impl.rp \in {2, 7, 8}

BeginsScram(r, nonce, x) ==
  /\ r.type = "write" /\ x = 3 /\ impl.rp = 2
  /\ r.impl = [rp |-> 3, scram |-> OnInit(nonce).scram]
  /\ r.st = [st EXCEPT !.wbuf = OnInit(nonce).wbuf]

GivesProof(r, m, x) ==
  LET f == OnServerFirst(impl.scram, st.wbuf, m.data, Password)
  IN  /\ r.type = "write" /\ x = 5 /\ impl.rp = 4 /\ m.kind = "authentication_sasl_continue"
      /\ r.impl = [rp |-> 5, scram |-> f.scram]
      /\ r.st = [st EXCEPT !.wbuf = f.wbuf]

Outcome(r, m, nonce, x) ==
  Ends(r, m, x) \/ GoesOn(r, m, x) \/ BeginsScram(r, nonce, x) \/ GivesProof(r, m, x)

LEMMA DoneEnds ==
  ASSUME NEW ec, NEW s, s = st, NEW m, NEW x,
         (x = 9 /\ ec = "ok" /\ impl.rp = 8) \/ (x = 10 /\ ec \in Causes \ {"ok"}) \/ (x = 0 /\ ec # "ok")
  PROVE  Ends(Done(ec, s), m, x)
  BY DEF Done, Ends

LEMMA ErrorEnds ==
  ASSUME NEW m
  PROVE  Ends(ProcessError(m), m, 10)
  BY DEF ProcessError, Done, Ends, Causes

LEMMA ReadGoesOn ==
  ASSUME NEW x \in {7, 8}, NEW s, NEW m, s = st \/ s = [st EXCEPT !.key = m.sess],
         x = 7 => /\ impl.rp = 6 /\ m.kind = "authentication_sasl_final"
                  /\ OnServerFinal(impl.scram, m.data) = "ok",
         x = 8 => impl.rp \in {2, 7, 8}
  PROVE  GoesOn(Yields("read", x, s), m, x)
  BY DEF GoesOn, Yields

LEMMA AuthResponse ==
  ASSUME impl.rp \in {2, 7}, NEW m, NEW scram, NEW wbuf,
         impl.rp = 2 => m.kind \notin UnknownAuth \cup {"authentication_sasl"}
  PROVE  LET x == Move(impl.rp, m, scram, wbuf)
         IN  Ends(HandleAuthResponse(m), m, x) \/ GoesOn(HandleAuthResponse(m), m, x)
  BY ErrorEnds, ReadGoesOn, DoneEnds DEF Move, HandleAuthResponse, UnknownAuth

LEMMA AuthRequestOutcome ==
  ASSUME impl.rp = 2, NEW m, NEW nonce
  PROVE  Outcome(OnAuthRequest(m, nonce), m, nonce, Move(2, m, impl.scram, st.wbuf))
  BY DoneEnds, AuthResponse DEF Move, OnAuthRequest, Causes, Outcome, UnknownAuth, BeginsScram

LEMMA SaslContinueOutcome ==
  ASSUME impl.rp = 4, NEW m, NEW nonce
  PROVE  Outcome(OnSaslContinue(m), m, nonce, Move(4, m, impl.scram, st.wbuf))
  BY ErrorEnds, DoneEnds DEF Move, OnSaslContinue, Outcome, UnknownAuth, GivesProof

LEMMA SaslFinalOutcome ==
  ASSUME impl.rp = 6, NEW m, NEW nonce
  PROVE  Outcome(OnSaslFinal(m), m, nonce, Move(6, m, impl.scram, st.wbuf))
  BY ErrorEnds, DoneEnds, ReadGoesOn DEF Move, OnSaslFinal, Outcome, UnknownAuth

LEMMA WaitReadyOutcome ==
  ASSUME impl.rp = 8, NEW m, NEW nonce
  PROVE  Outcome(WaitReady(m), m, nonce, Move(8, m, impl.scram, st.wbuf))
  BY ErrorEnds, ReadGoesOn, DoneEnds DEF Move, WaitReady, Outcome

\* startup_fsm_impl does what Move says.
LEMMA MessageOutcome ==
  ASSUME impl.rp \in {2, 4, 6, 7, 8}, NEW m, NEW nonce
  PROVE  Outcome(OnMessage(m, nonce), m, nonce, Move(impl.rp, m, impl.scram, st.wbuf))
  BY AuthRequestOutcome, SaslContinueOutcome, SaslFinalOutcome, AuthResponse, WaitReadyOutcome
     DEF OnMessage, Outcome

\* The first message of a buffer with something behind it.
LEMMA HeadOfJoin ==
  ASSUME NEW S, NEW a \in Seq(S), a # <<>>, NEW b \in Seq(S)
  PROVE  /\ a \o b \in Seq(S) /\ a \o b # <<>> /\ (a \o b)[1] = Head(a)
         /\ Tail(a) \in Seq(S) /\ Tail(a \o b) = Tail(a) \o b
  <1> DEFINE q == a \o b
             u == Tail(a)
             v == Tail(q)
             w == u \o b
  <1>1. IsJoin(q, a, b, S)
    BY Joins
  <1>2. Len(a) \in Nat \ {0} /\ a[1] = Head(a)
    BY SeqEmpty
  <1> HIDE DEF q
  <1>3. q \in Seq(S) /\ Len(q) = Len(a) + Len(b) /\ Len(b) \in Nat /\ q[1] = a[1]
    BY <1>1, <1>2 DEF IsJoin
  <1>4. q # <<>>
    BY <1>2, <1>3
  <1>5. /\ u \in Seq(S) /\ Len(u) = Len(a) - 1
        /\ \A i \in 1..Len(u) : u[i] = a[i + 1]
    BY SeqTail
  <1>6. /\ v \in Seq(S) /\ Len(v) = Len(q) - 1
        /\ \A i \in 1..Len(v) : v[i] = q[i + 1]
    BY <1>3, <1>4, SeqTail
  <1> HIDE DEF u, v, w
  <1>7. IsJoin(w, u, b, S)
    BY <1>5, Joins DEF w
  <1>8. w \in Seq(S) /\ Len(w) = Len(v)
    BY <1>2, <1>3, <1>5, <1>6, <1>7 DEF IsJoin
  <1>9. ASSUME NEW i \in 1..Len(v) PROVE v[i] = w[i]
    <2>1. v[i] = q[i + 1]
      BY <1>6
    <2>2. CASE i \in 1..Len(u)
      BY <1>2, <1>5, <1>1, <1>7, <2>2, <2>1 DEF IsJoin
    <2>3. CASE i \notin 1..Len(u)
      <3>1. i \in (Len(u) + 1)..Len(w) /\ i + 1 \in (Len(a) + 1)..Len(q) /\ i - Len(u) = (i + 1) - Len(a)
        BY <1>2, <1>3, <1>5, <1>6, <1>8, <2>3
      <3>2. q[i + 1] = b[(i + 1) - Len(a)] /\ w[i] = b[i - Len(u)]
        BY <1>1, <1>7, <3>1 DEF IsJoin
      <3>. QED
        BY <2>1, <3>1, <3>2, ZenonT(30)
    <2>. QED
      BY <2>2, <2>3
  <1>. QED
    BY <1>2, <1>3, <1>4, <1>5, <1>6, <1>8, <1>9, SeqSame DEF q, u, v, w

\* What is left when the first message has led to the position x.
Rest == Tail(st.rbuf) \o inflight

Remains(x) ==
  /\ \E M : Tail(st.rbuf) \in Seq(M) /\ inflight \in Seq(M)
  /\ \E R : Path(R, x, Rest, impl.scram, st.wbuf) /\ Met(R, Rest, srv)
  /\ Carries(Rest, srv) /\ Carried(Head(st.rbuf), srv)
  /\ Fair(srv) => x # 0
  /\ x \in Turns => Rest = <<>> /\ Meets(srv.state, x)

LEMMA Consumes ==
  ASSUME Dialogue, st.rbuf # <<>>
  PROVE  Remains(Move(impl.rp, Head(st.rbuf), impl.scram, st.wbuf))
  <1> DEFINE a == st.rbuf
             b == inflight
             q == Ahead
             p == impl.rp
             scram == impl.scram
             w == st.wbuf
             h == Head(a)
             x == Move(p, h, scram, w)
  <1>1. PICK M : a \in Seq(M) /\ b \in Seq(M)
    BY DEF Dialogue
  <1>2. PICK P : Path(P, p, q, scram, w) /\ Met(P, q, srv)
    BY DEF Dialogue, Linked
  <1>3. q \in Seq(M) /\ q # <<>> /\ q[1] = h /\ Tail(a) \in Seq(M) /\ Tail(q) = Rest
    <2>1. q = a \o b /\ a # <<>> /\ Rest = Tail(a) \o b
      BY DEF Ahead, Rest
    <2> HIDE DEF a, b, q
    <2>. QED
      BY <2>1, <1>1, HeadOfJoin
  <1>4. Carries(q, srv)
    BY DEF Dialogue
  <1> HIDE DEF a, b, q, p, scram, w
  <1>a. PICK R : Path(R, x, Tail(q), scram, w) /\ Shifts(R, P, q)
    BY <1>2, <1>3, PathTail
  <1>5. /\ Path(R, x, Tail(q), scram, w)
        /\ R[Len(Tail(q)) + 1] = P[Len(q) + 1] /\ Len(Tail(q)) + 1 = Len(q)
        /\ \A i \in 1..Len(q) : R[i] = P[i + 1]
    BY <1>a DEF Shifts
  <1> DEFINE t == Tail(q)
             n == Len(q)
  <1>6. /\ t \in Seq(M) /\ Len(t) = n - 1 /\ n \in Nat \ {0}
        /\ \A i \in 1..Len(t) : t[i] = q[i + 1]
    BY <1>3, SeqTail, SeqEmpty
  <1> HIDE DEF t, n, h, x
  <1>7. Met(R, t, srv)
    BY <1>5, <1>6, <1>2 DEF t, n, Met
  <1>8. Fair(srv) => x # 0
    BY <1>5, <1>6, <1>7 DEF Path, Met
  <1>9. Carried(h, srv)
    BY <1>6, <1>3, <1>4 DEF n, Carries
  <1>11. ASSUME x \in Turns PROVE t = <<>> /\ Meets(srv.state, x)
    BY <1>5, <1>6, <1>11, <1>7, TurnIsLast DEF t, Path, Met
  <1>12. Rest = t
    BY <1>3 DEF t
  <1>13. Path(R, x, t, scram, w)
    BY <1>5 DEF t
  <1>14. \E X : Tail(st.rbuf) \in Seq(X) /\ inflight \in Seq(X)
    BY <1>1, <1>3 DEF a, b
  <1>15. Remains(x)
    BY <1>7, <1>8, <1>9, <1>11, <1>12, <1>13, <1>14, <1>6, <1>4 DEF Remains, h, a, scram, w, n,
       Carries
  <1>. QED
    BY <1>15 DEF x, p, h, a, scram, w

LEMMA StateTail ==
  ASSUME NEW x, IsState(x), NEW s, s = [x EXCEPT !.rbuf = Tail(@)]
  PROVE  IsState(s) /\ s.wbuf = x.wbuf /\ s.rbuf = Tail(x.rbuf) /\ s.key = x.key /\ s.diag = x.diag
  BY ZenonT(30) DEF IsState

\* The client has handled a message and goes on with the login.
LEMMA TalksOn ==
  ASSUME InStep, pc = "parsing", pc' \in {"writing", "parsing"},
         UNCHANGED <<sock, srv, inflight, ret, attempt, fresh>>,
         IsState(st'), IsImpl(impl'), st'.rbuf = Tail(st.rbuf),
         st'.key \in 0..MaxAttempts, st'.diag \in 0..MaxAttempts,
         pc' = "writing" => impl'.rp \in {1, 3, 5},
         pc' = "parsing" => impl'.rp \in {2, 4, 6, 7, 8},
         \E M : Tail(st.rbuf) \in Seq(M) /\ inflight \in Seq(M),
         Linked(impl', st'.wbuf, Rest, srv), Carries(Rest, srv), Knows(impl', st'.wbuf, srv)
  PROVE  InStep'
  <1>1. sock' = sock /\ srv' = srv /\ inflight' = inflight /\ ret' = ret /\ attempt' = attempt /\ fresh' = fresh
    OBVIOUS
  <1>7. FailsForCause' /\ ProofAccepted' /\ IsServer(srv')
    BY <1>1 DEF InStep, FailsForCause, ProofAccepted
  <1>8. Ahead' = Rest
    BY <1>1 DEF Ahead, Rest
  <1>9. Dialogue' /\ Knows(impl, st.wbuf, srv)'
    BY <1>1, <1>8 DEF Dialogue
  <1>10. TypeOK'
    BY <1>1 DEF InStep, TypeOK, IsImpl
  <1>11. Places'
    BY <1>1, ZenonT(30) DEF InStep, Places
  <1>. QED
    BY <1>7, <1>9, <1>10, <1>11 DEF InStep

LEMMA EndsStep ==
  ASSUME InStep, pc = "parsing", NEW m, NEW x, NEW r, Ends(r, m, x), Remains(x),
         m.sess \in 0..MaxAttempts,
         st' = [r.st EXCEPT !.rbuf = Tail(@)], impl' = r.impl, attempt' = attempt /\ fresh' = fresh,
         Returns(r.ec, st'.diag)
  PROVE  InStep'
  <1>1. IsState(r.st) /\ r.st.wbuf = st.wbuf /\ r.st.key = st.key /\ r.st.diag \in 0..MaxAttempts
    BY DEF InStep, TypeOK, IsState, Ends
  <1>2. IsState(st') /\ st'.wbuf = st.wbuf /\ st'.key = st.key /\ st'.diag \in 0..MaxAttempts
    BY <1>1, StateTail
  <1>3. impl' = impl /\ IsImpl(impl') /\ impl'.rp \in 0..8 /\ st'.key \in 0..MaxAttempts
    BY <1>2 DEF Ends, InStep, TypeOK
  <1>4. CASE r.ec # "ok"
    <2>1. Fair(srv) => r.ec \in Causes
      BY <1>4 DEF Ends, Remains
    <2>. QED
      BY <1>2, <1>3, <1>4, <2>1, Closes, ZenonT(30)
  <1>5. CASE r.ec = "ok"
    <2>3. pc' = "up" /\ sock' = sock /\ srv' = srv /\ inflight' = inflight /\ ret'.ec = "ok"
      BY <1>5 DEF Returns
    <2>5. Places' /\ ~Talks'
      BY <1>3, <2>3, <1>5 DEF InStep, Places, Talks, Remains, Turns, Meets, Ends
    <2>. QED
      BY <1>2, <1>3, <2>5, <2>3 DEF InStep, TypeOK, FailsForCause, ProofAccepted, Causes, Talks
  <1>. QED
    BY <1>4, <1>5

LEMMA GoesOnStep ==
  ASSUME InStep, pc = "parsing", NEW x, NEW r, NEW m, m = Head(st.rbuf), GoesOn(r, m, x), Remains(x),
         m.sess \in 0..MaxAttempts,
         st' = [r.st EXCEPT !.rbuf = Tail(@)], impl' = r.impl, pc' = "parsing",
         UNCHANGED <<sock, srv, inflight, ret, attempt, fresh>>
  PROVE  InStep'
  <1>1. /\ IsState(r.st) /\ r.st.wbuf = st.wbuf /\ r.st.diag = st.diag /\ r.st.key \in 0..MaxAttempts
        /\ r.st.rbuf = st.rbuf
    BY DEF InStep, TypeOK, IsState, GoesOn
  <1>2. /\ IsState(st') /\ st'.wbuf = st.wbuf /\ st'.diag = st.diag /\ st'.key \in 0..MaxAttempts
        /\ st'.rbuf = Tail(st.rbuf)
    BY <1>1, StateTail
  <1>4. x \in {7, 8} /\ impl' = [impl EXCEPT !.rp = x] /\ IsImpl(impl)
    BY DEF GoesOn, InStep
  <1>5. IsImpl(impl') /\ impl'.rp = x /\ impl'.scram = impl.scram
    BY <1>4 DEF IsImpl
  <1>6. Knows(impl, st.wbuf, srv)
    BY DEF InStep, Talks
  <1>7. Knows(impl', st'.wbuf, srv)
    <2>1. CASE x = 7
      <3>1. /\ impl.rp = 6 /\ m.kind = "authentication_sasl_final"
            /\ OnServerFinal(impl.scram, m.data) = "ok"
        BY <2>1 DEF GoesOn
      <3>. QED
        BY <1>2, <1>5, <1>6, <2>1, <3>1 DEF Knows, OnServerFinal, ParseServerFinal, Invalid,
           Remains, Carried
    <2>2. CASE x = 8
      BY <1>6, <1>2, <1>5, <2>2 DEF GoesOn, Knows
    <2>. QED
      BY <1>4, <2>1, <2>2
  <1>. QED
    BY <1>2, <1>5, <1>7, TalksOn, <1>4 DEF InStep, TypeOK, Linked, Remains

\* The client writes a message of SCRAM: nothing is ahead of it.
LEMMA WritesStep ==
  ASSUME InStep, pc = "parsing", NEW x \in {3, 5}, Remains(x), NEW r, NEW w, NEW scram,
         r.st = [st EXCEPT !.wbuf = w], r.impl = [rp |-> x, scram |-> scram],
         st' = [r.st EXCEPT !.rbuf = Tail(@)], impl' = r.impl, pc' = "writing",
         UNCHANGED <<sock, srv, inflight, ret, attempt, fresh>>,
         Knows([rp |-> x, scram |-> scram], w, srv)
  PROVE  InStep'
  <1>1. IsState(st) /\ st.key \in 0..MaxAttempts /\ st.diag \in 0..MaxAttempts
    BY DEF InStep, TypeOK
  <1>2. /\ IsState(r.st) /\ r.st.wbuf = w /\ r.st.rbuf = st.rbuf /\ r.st.key = st.key
        /\ r.st.diag = st.diag
    BY <1>1, WbufSet
  <1>3. /\ IsState(st') /\ st'.wbuf = w /\ st'.rbuf = Tail(st.rbuf) /\ st'.key = st.key
        /\ st'.diag = st.diag
    <2> DEFINE y == r.st
    <2>1. IsState(y) /\ st' = [y EXCEPT !.rbuf = Tail(@)]
      BY <1>2
    <2> HIDE DEF y
    <2>2. /\ IsState(st') /\ st'.wbuf = y.wbuf /\ st'.rbuf = Tail(y.rbuf) /\ st'.key = y.key
          /\ st'.diag = y.diag
      BY <2>1, StateTail, ZenonT(30)
    <2>. QED
      BY <1>2, <2>2 DEF y
  <1>. QED
    BY <1>1, <1>3, TalksOn, EmptyLinked DEF Remains, Turns, IsImpl

LEMMA BeginsStep ==
  ASSUME InStep, pc = "parsing", NEW x, NEW r, NEW n \in Nonces, BeginsScram(r, <<n>>, x), Remains(x),
         st' = [r.st EXCEPT !.rbuf = Tail(@)], impl' = r.impl, pc' = "writing",
         UNCHANGED <<sock, srv, inflight, ret, attempt, fresh>>
  PROVE  InStep'
  <1> DEFINE w == OnInit(<<n>>).wbuf
             scram == OnInit(<<n>>).scram
             im == [rp |-> x, scram |-> scram]
  <1>1. /\ x = 3 /\ impl.rp = 2 /\ r.impl = [rp |-> x, scram |-> scram] /\ r.st = [st EXCEPT !.wbuf = w]
    BY DEF BeginsScram
  <1>2. scram.signature = {}
    <2>1. scram = [nonce |-> <<n>>, first |-> 4, last |-> 5, signature |-> {}]
      BY InitIs, ZenonT(30)
    <2>. QED
      BY <2>1
  <1>3. im.rp = 3 /\ im.scram = scram
    BY <1>1
  <1>4. Shares(im, w, srv, n)
    BY <1>3 DEF Shares
  <1> HIDE DEF w, scram
  <1> HIDE DEF im
  <1>6. Knows(im, w, srv)
    BY <1>1, <1>2, <1>3, <1>4 DEF Knows, InStep, Talks
  <1>. QED
    BY <1>1, <1>6, WritesStep, ZenonT(30) DEF im

LEMMA GivesStep ==
  ASSUME InStep, pc = "parsing", NEW x, NEW r, NEW m, m = Head(st.rbuf), GivesProof(r, m, x), Remains(x),
         st' = [r.st EXCEPT !.rbuf = Tail(@)], impl' = r.impl, pc' = "writing",
         UNCHANGED <<sock, srv, inflight, ret, attempt, fresh>>
  PROVE  InStep'
  <1> DEFINE f == OnServerFirst(impl.scram, st.wbuf, m.data, Password)
             w == f.wbuf
             scram == f.scram
             im == [rp |-> x, scram |-> scram]
             d == srv.first
  <1>1. /\ x = 5 /\ impl.rp = 4 /\ m.kind = "authentication_sasl_continue"
        /\ r.impl = [rp |-> x, scram |-> scram] /\ r.st = [st EXCEPT !.wbuf = w]
    BY DEF GivesProof
  <1>2. Knows(impl, st.wbuf, srv)
    BY DEF InStep, Talks
  <1>3. PICK n \in Nonces : Shares(impl, st.wbuf, srv, n)
    BY <1>1, <1>2 DEF Knows
  <1>4. impl.scram = OnInit(<<n>>).scram /\ st.wbuf = OnInit(<<n>>).wbuf /\ srv.bare = BareOf(n)
    BY <1>1, <1>3 DEF Shares
  <1>5. srv.state = "sasl"
    BY <1>1 DEF Remains, Turns, Meets
  <1>6. m.data = d /\ d \in Goods(n)
    BY <1>1, <1>4, <1>5 DEF Remains, Carried
  <1> DEFINE sig == ProofsOf(Password, n, d).signature
             proof == ProofsOf(Password, n, d).proof
  <1>7. f = [ec |-> "ok", wbuf |-> [bytes |-> FinalOf(n), proof |-> proof],
             scram |-> [OnInit(<<n>>).scram EXCEPT !.signature = sig]]
    BY <1>4, <1>6, GoodAccepted
  <1> HIDE DEF f, sig, proof
  <1>10. scram.signature = sig
    <2>1. OnInit(<<n>>).scram = [nonce |-> <<n>>, first |-> 4, last |-> 5, signature |-> {}]
      BY InitIs, ZenonT(30)
    <2>. QED
      BY <1>7, <2>1
  <1>11. im.rp = 5 /\ im.scram = scram
    BY <1>1
  <1> HIDE DEF im, w, scram, d
  <1>13. Knows(im, w, srv)
    BY <1>1, <1>2, <1>5, <1>10, <1>11, <1>6, ProofsFull, <1>4, <1>7 DEF Knows, sig, Shares, proof,
       d, w
  <1>. QED
    BY <1>1, <1>13, WritesStep, ZenonT(30) DEF im

LEMMA ParseStep ==
  ASSUME InStep, ParseOne
  PROVE  InStep'
  <1> DEFINE m == Head(st.rbuf)
             x == Move(impl.rp, m, impl.scram, st.wbuf)
  <1>1. pc = "parsing" /\ attempt' = attempt /\ fresh' = fresh
    BY DEF ParseOne
  <1>2. Dialogue /\ impl.rp \in {2, 4, 6, 7, 8}
    BY <1>1 DEF InStep, Talks, Places
  <1>3. CASE st.rbuf = <<>>
    <2>1. /\ pc' = "reading" /\ sock' = sock /\ impl' = impl /\ st' = st /\ srv' = srv
          /\ inflight' = inflight /\ ret' = ret
      BY <1>3 DEF ParseOne
    <2>4. Dialogue' /\ Knows(impl', st'.wbuf, srv')
      BY <1>1, <1>2, <2>1 DEF InStep, Talks, Dialogue, Ahead
    <2>. QED
      BY <2>4, <1>1, <2>1, ZenonT(30) DEF InStep, TypeOK, Places, FailsForCause, ProofAccepted
  <1>4. ASSUME st.rbuf # <<>>
        PROVE  Remains(x) /\ m.sess \in 0..MaxAttempts
    BY <1>2, <1>4, Consumes, ZenonT(30) DEF Remains, Carried, InStep, TypeOK
  <1>5. CASE st.rbuf # <<>> /\ m.kind = "malformed"
    <2>2. x = 0
      BY <1>5 DEF Move, UnknownAuth
    <2>. QED
      BY <1>1, Closes, <1>5, <1>4, <2>2, ZenonT(30) DEF InStep, TypeOK, ParseOne, Remains
  <1>6. CASE st.rbuf # <<>> /\ m.kind # "malformed"
    <2>1. HandleMessage(m)
      BY <1>6 DEF ParseOne
    <2>2. PICK n \in Nonces :
            LET r == OnMessage(m, <<n>>)
                s == [r.st EXCEPT !.rbuf = Tail(@)]
            IN  /\ st' = s
                /\ impl' = r.impl
                /\ IF r.type = "done" THEN Returns(r.ec, s.diag)
                   ELSE /\ pc' = IF r.type = "write" THEN "writing" ELSE "parsing"
                        /\ UNCHANGED <<sock, srv, inflight, ret>>
      BY <2>1, ZenonT(30) DEF HandleMessage
    <2> DEFINE r == OnMessage(m, <<n>>)
               nonce == <<n>>
    <2>4. /\ st' = [r.st EXCEPT !.rbuf = Tail(@)] /\ impl' = r.impl
          /\ r.type = "done" => Returns(r.ec, st'.diag)
          /\ r.type = "write" => pc' = "writing" /\ UNCHANGED <<sock, srv, inflight, ret>>
          /\ r.type = "read" => pc' = "parsing" /\ UNCHANGED <<sock, srv, inflight, ret>>
      BY <2>2
    <2>5. Remains(x) /\ m.sess \in 0..MaxAttempts
      BY <1>4, <1>6
    <2> HIDE DEF r, x
    <2>6. CASE Ends(r, m, x)
      <3>1. Returns(r.ec, st'.diag)
        BY <2>4, <2>6 DEF Ends
      <3> HIDE DEF m
      <3>. QED
        BY <1>1, <2>4, <2>5, <2>6, <3>1, EndsStep
    <2>7. CASE GoesOn(r, m, x)
      <3>1. pc' = "parsing" /\ UNCHANGED <<sock, srv, inflight, ret, attempt, fresh>>
        BY <1>1, <2>4, <2>7 DEF GoesOn
      <3>. QED
        BY <1>1, <2>4, <2>5, <2>7, <3>1, GoesOnStep
    <2>8. CASE BeginsScram(r, nonce, x)
      <3>1. pc' = "writing" /\ UNCHANGED <<sock, srv, inflight, ret, attempt, fresh>>
        BY <1>1, <2>4, <2>8 DEF BeginsScram
      <3>. QED
        BY <1>1, <2>4, <2>5, <2>8, <3>1, BeginsStep, ZenonT(30)
    <2>9. CASE GivesProof(r, m, x)
      <3>1. pc' = "writing" /\ UNCHANGED <<sock, srv, inflight, ret, attempt, fresh>>
        BY <1>1, <2>4, <2>9 DEF GivesProof
      <3>. QED
        BY <1>1, <2>4, <2>5, <2>9, <3>1, GivesStep
    <2>. QED
      BY <2>6, <2>7, <2>8, <2>9, <1>2, MessageOutcome DEF Outcome, r, x
  <1>. QED
    BY <1>3, <1>5, <1>6

-----------------------------------------------------------------------------
(* What every call keeps, whatever its read buffer held *)

\* What a server that sends makes of its state.
Decides(x, y) ==
  \/ /\ x \in {"startup", "sasl_first", "sasl_final", "verified"}
     /\ y \in {x, "sasl", "approved", "refused", "stopped"}
  \/ x = "approved" /\ y \in {"approved", "ready", "refused", "stopped"}

\* The server sends the messages msgs and becomes t.
Replies(N, msgs, t) ==
  /\ msgs \in Seq(N) /\ \A m \in N : m.sess = srv.sess
  /\ IsServer(t) /\ t.sess = srv.sess /\ Decides(srv.state, t.state)
  /\ Send(msgs, t)

LEMMA RepliesOne ==
  ASSUME NEW m, m.sess = srv.sess, NEW t, IsServer(t), t.sess = srv.sess,
         Decides(srv.state, t.state), Send(<<m>>, t)
  PROVE  \E N, msgs, u : Replies(N, msgs, u)
  <1>1. <<m>> \in Seq({m})
    OBVIOUS
  <1>2. Replies({m}, <<m>>, t)
    BY <1>1 DEF Replies
  <1>. QED
    BY <1>2

LEMMA RepliesPlain ==
  ASSUME IsServer(srv), NEW m, m.sess = srv.sess, NEW x, Decides(srv.state, x),
         Send(<<m>>, [srv EXCEPT !.state = x])
  PROVE  \E N, msgs, u : Replies(N, msgs, u)
  <1> DEFINE t == [srv EXCEPT !.state = x]
  <1>1. Updated(t, srv, x, srv.bare, srv.first, srv.sig, srv.honest, srv.quiet)
    BY StateSet
  <1>2. Send(<<m>>, t)
    OBVIOUS
  <1> HIDE DEF t
  <1>. QED
    BY <1>1, <1>2, RepliesOne DEF Updated

LEMMA ServerReplies ==
  ASSUME IsServer(srv), ServerStep \/ ServerMisbehaves \/ ServerForges
  PROVE  \E N, msgs, u : Replies(N, msgs, u)
  <1>1. ASSUME NEW k PROVE Msg(k).sess = srv.sess
    BY DEF Msg
  <1>2. CASE ServerAsks
    <2>1. srv.state = "startup" /\ Decides(srv.state, "sasl") /\ Decides(srv.state, "stopped")
      BY <1>2 DEF ServerAsks, Decides
    <2>2. CASE \E k \in UnknownAuth : Send(<<Msg(k)>>, [srv EXCEPT !.state = "stopped"])
      BY <1>1, <2>1, <2>2, RepliesPlain
    <2>3. ASSUME NEW scram \in BOOLEAN,
                 Send(<<[kind |-> "authentication_sasl", sess |-> srv.sess,
                         mechanisms |-> IF scram THEN {"SCRAM-SHA-256-PLUS", "SCRAM-SHA-256"}
                                                 ELSE {"SCRAM-SHA-256-PLUS"}]>>,
                      [srv EXCEPT !.state = IF scram THEN "sasl" ELSE "stopped"])
          PROVE  \E N, msgs, u : Replies(N, msgs, u)
      <3> DEFINE m == [kind |-> "authentication_sasl", sess |-> srv.sess,
                       mechanisms |-> IF scram THEN {"SCRAM-SHA-256-PLUS", "SCRAM-SHA-256"}
                                               ELSE {"SCRAM-SHA-256-PLUS"}]
                 x == IF scram THEN "sasl" ELSE "stopped"
      <3>1. m.sess = srv.sess /\ Decides(srv.state, x) /\ Send(<<m>>, [srv EXCEPT !.state = x])
        BY <2>1, <2>3
      <3> HIDE DEF m, x
      <3>. QED
        BY <3>1, RepliesPlain
    <2>. QED
      BY <1>2, <2>2, <2>3, ZenonT(30) DEF ServerAsks
  <1>3. CASE ServerTrusts
    BY <1>1, <1>3, RepliesPlain DEF ServerTrusts, Decides
  <1>4. CASE ServerRefuses
    BY <1>1, <1>4, RepliesPlain DEF ServerRefuses, Decides
  <1>5. CASE ServerReady
    BY <1>1, <1>5, RepliesPlain DEF ServerReady, Decides
  <1>6. CASE ServerSigns
    <2> DEFINE m == Final("v=", TRUE, srv.sig)
               a == Msg("authentication_ok")
               t == [srv EXCEPT !.state = "approved"]
    <2>1. Send(<<m, a>>, t) /\ srv.state = "verified"
      BY <1>6 DEF ServerSigns
    <2>2. Updated(t, srv, "approved", srv.bare, srv.first, srv.sig, srv.honest, srv.quiet)
      BY StateSet
    <2>3. m.sess = srv.sess /\ a.sess = srv.sess
      BY <1>1 DEF Final
    <2> HIDE DEF m, a, t
    <2>4. <<m, a>> \in Seq({m, a})
      OBVIOUS
    <2>5. Replies({m, a}, <<m, a>>, t)
      BY <2>1, <2>2, <2>3, <2>4 DEF Replies, Updated, Decides
    <2>. QED
      BY <2>5
  <1>7. CASE ServerContinues
    <2>1. PICK f \in ServerFirsts :
            Send(<<[kind |-> "authentication_sasl_continue", sess |-> srv.sess, data |-> f.data]>>,
                 [srv EXCEPT !.state = IF f.ok THEN "sasl" ELSE "stopped", !.first = f.data,
                             !.honest = @ /\ f.ok])
      BY <1>7, ZenonT(30) DEF ServerContinues
    <2> DEFINE x == IF f.ok THEN "sasl" ELSE "stopped"
               y == f.data
               z == srv.honest /\ f.ok
               m == [kind |-> "authentication_sasl_continue", sess |-> srv.sess, data |-> f.data]
               t == [srv EXCEPT !.state = x, !.first = y, !.honest = z]
    <2>2. /\ x \in {"sasl", "stopped"} /\ z \in BOOLEAN /\ srv.state = "sasl_first" /\ Send(<<m>>, t)
          /\ m.sess = srv.sess
      BY <1>7, <2>1 DEF ServerContinues
    <2> HIDE DEF x, z, m
    <2>3. Updated(t, srv, x, srv.bare, y, srv.sig, z, srv.quiet)
      BY <2>2, FirstSet, ZenonT(30)
    <2> HIDE DEF t
    <2>. QED
      BY <2>2, <2>3, RepliesOne DEF Updated, Decides
  <1>8. CASE ServerExtras
    <2>1. PICK k : Send(<<Msg(k)>>, [srv EXCEPT !.extra = @ + 1, !.quiet = @ /\ srv.state = "approved"])
      BY <1>8 DEF ServerExtras
    <2> DEFINE y == srv.quiet /\ srv.state = "approved"
               x == srv.extra + 1
               t == [srv EXCEPT !.extra = x, !.quiet = y]
    <2>2. y \in BOOLEAN /\ Send(<<Msg(k)>>, t) /\ srv.state \in {"startup", "sasl_first", "approved"}
      BY <1>8, <2>1 DEF ServerExtras
    <2> HIDE DEF x, y
    <2>3. Updated(t, srv, srv.state, srv.bare, srv.first, srv.sig, srv.honest, y)
      BY <2>2, ExtraSet, ZenonT(30)
    <2> HIDE DEF t
    <2>. QED
      BY <1>1, <2>2, <2>3, RepliesOne DEF Updated, Decides
  <1>9. CASE ServerMisbehaves
    <2> DEFINE t == [srv EXCEPT !.state = "stopped", !.honest = FALSE]
    <2>1. PICK k : Send(<<Msg(k)>>, t)
      BY <1>9, ZenonT(30) DEF ServerMisbehaves
    <2>2. Updated(t, srv, "stopped", srv.bare, srv.first, srv.sig, FALSE, srv.quiet)
      BY StateHonestSet, ZenonT(30)
    <2> HIDE DEF t
    <2>. QED
      BY <1>1, <1>9, <2>1, <2>2, RepliesOne DEF Updated, Decides, ServerMisbehaves
  <1>10. CASE ServerForges
    <2> DEFINE a == Msg("authentication_ok")
               b == Msg("ready_for_query")
               t == [srv EXCEPT !.state = "stopped", !.honest = FALSE]
    <2>1. PICK f : Send(<<f, a, b>>, t) /\ f.sess = srv.sess
      <3>1. PICK f \in {Final("v=", TRUE, {}), Final("v=", FALSE, {}), Final("e=", TRUE, {})} :
              Send(<<f, a, b>>, t)
        BY <1>10, ZenonT(30) DEF ServerForges
      <3>2. f.sess = srv.sess
        BY <3>1 DEF Final
      <3>. QED
        BY <3>1, <3>2
    <2>2. Updated(t, srv, "stopped", srv.bare, srv.first, srv.sig, FALSE, srv.quiet)
      BY StateHonestSet, ZenonT(30)
    <2>3. a.sess = srv.sess /\ b.sess = srv.sess
      BY <1>1
    <2> HIDE DEF a, b, t
    <2>4. <<f, a, b>> \in Seq({f, a, b})
      OBVIOUS
    <2>5. Replies({f, a, b}, <<f, a, b>>, t)
      BY <1>10, <2>1, <2>2, <2>3, <2>4 DEF Replies, Updated, Decides, ServerForges
    <2>. QED
      BY <2>5
  <1>. QED
    BY <1>2, <1>3, <1>4, <1>5, <1>6, <1>7, <1>8, <1>9, <1>10 DEF ServerStep

LEMMA DatedSent ==
  ASSUME NEW a, NEW b, Dated(a, b), NEW N, NEW msgs \in Seq(N), \A m \in N : m.sess \in 0..MaxAttempts
  PROVE  Dated(a, b \o msgs)
  <1>1. PICK M : a \in Seq(M) /\ b \in Seq(M) /\ \A m \in M : m.sess \in 0..MaxAttempts
    BY DEF Dated
  <1>2. a \in Seq(M \cup N) /\ b \in Seq(M \cup N) /\ msgs \in Seq(M \cup N)
    BY <1>1, SeqWider
  <1>3. b \o msgs \in Seq(M \cup N)
    BY <1>2, JoinedLen
  <1>. QED
    BY <1>1, <1>2, <1>3 DEF Dated

LEMMA ServerKeeps ==
  ASSUME Base, ServerStep \/ ServerMisbehaves \/ ServerForges
  PROVE  Base'
  <1>1. PICK N, msgs, t : Replies(N, msgs, t)
    BY ServerReplies DEF Base
  <1>2. /\ srv' = t /\ inflight' = inflight \o msgs /\ pc' = pc /\ sock' = sock /\ impl' = impl
        /\ st' = st /\ attempt' = attempt /\ ret' = ret /\ fresh' = fresh
    BY <1>1 DEF Replies, Send
  <1>3. srv.sess \in 0..MaxAttempts /\ Dated(st.rbuf, inflight)
    BY DEF Base, TypeOK
  <1>4. Dated(st'.rbuf, inflight')
    BY <1>1, <1>2, <1>3, DatedSent DEF Replies
  <1>5. IsServer(srv') /\ srv'.sess = srv.sess /\ srv.state # "none" /\ srv'.state \in States
    BY <1>1, <1>2 DEF Replies, Decides, States
  <1>6. Situation'
    BY <1>2, <1>5 DEF Base, Situation
  <1>. QED
    BY <1>2, <1>4, <1>5, <1>6 DEF Base, TypeOK

\* connect() returns.
LEMMA ReturnKeeps ==
  ASSUME Base, pc \notin {"idle", "up"}, NEW ec, NEW d, Returns(ec, d), attempt' = attempt, fresh' = fresh,
         IsState(st'), IsImpl(impl'), impl'.rp \in 0..8, ec = "ok" => pc = "parsing" /\ impl'.rp = 8,
         st'.key \in 0..MaxAttempts, st'.diag \in 0..MaxAttempts,
         Dated(st'.rbuf, inflight), Dated(st'.rbuf, <<>>)
  PROVE  Base'
  <1>1. CASE ec = "ok"
    <2>1. pc' = "up" /\ sock' = sock /\ srv' = srv /\ inflight' = inflight
      BY <1>1 DEF Returns
    <2>. QED
      BY <1>1, <2>1 DEF Base, TypeOK, Situation
  <1>2. CASE ec # "ok"
    <2> DEFINE t == [srv EXCEPT !.state = "none"]
    <2>1. srv' = t /\ pc' = "idle" /\ sock' = "closed" /\ inflight' = <<>>
      BY <1>2 DEF Returns
    <2> HIDE DEF t
    <2>2. IsServer(srv') /\ srv'.state = "none" /\ srv'.sess = srv.sess
      BY <2>1, StateSet DEF Updated, Base, t
    <2>. QED
      BY <2>1, <2>2 DEF Base, TypeOK, Situation, States
  <1>. QED
    BY <1>1, <1>2

LEMMA DatedAlone ==
  ASSUME NEW a, NEW b, Dated(a, b)
  PROVE  Dated(a, <<>>) /\ Dated(<<>>, <<>>)
  <1>1. PICK M : a \in Seq(M) /\ b \in Seq(M) /\ \A m \in M : m.sess \in 0..MaxAttempts
    BY DEF Dated
  <1>2. <<>> \in Seq(M)
    BY SeqUnit
  <1>3. Dated(a, <<>>)
    BY <1>1, <1>2 DEF Dated
  <1>4. Dated(<<>>, <<>>)
    BY <1>1, <1>2, ZenonT(20) DEF Dated
  <1>. QED
    BY <1>3, <1>4

LEMMA FailureKeeps ==
  ASSUME Base, PhysicalFails \/ IoFails
  PROVE  Base'
  <1>1. /\ pc \notin {"idle", "up"} /\ Returns("io_error", st.diag)
        /\ impl' = impl /\ st' = st /\ attempt' = attempt /\ fresh' = fresh
    BY DEF PhysicalFails, IoFails
  <1>2. Dated(st.rbuf, <<>>)
    BY DatedAlone DEF Base
  <1>. QED
    BY <1>1, <1>2, ReturnKeeps DEF Base, TypeOK

LEMMA CallKeeps ==
  ASSUME Base, CallConnect
  PROVE  Base' /\ (fresh' => InStep')
  <1>1. /\ pc = "idle" /\ attempt < MaxAttempts /\ attempt' = attempt + 1 /\ pc' = "connecting"
        /\ impl' = NewImpl /\ (st' = st \/ st' = NewState) /\ ret'.ec = "none"
        /\ sock' = sock /\ srv' = srv /\ inflight' = inflight /\ fresh' = (st'.rbuf = <<>>)
    BY DEF CallConnect
  <1>2. /\ attempt' \in 0..MaxAttempts /\ 0 \in 0..MaxAttempts /\ srv'.sess < attempt'
        /\ srv'.sess <= attempt'
    BY <1>1, ConnectParams DEF Base, TypeOK, Situation
  <1>3. /\ IsState(st') /\ st'.key \in 0..MaxAttempts /\ st'.diag \in 0..MaxAttempts
        /\ Dated(st'.rbuf, inflight')
    <2>1. /\ IsState(NewState) /\ NewState.key = 0 /\ NewState.diag = 0 /\ NewState.rbuf = <<>>
          /\ inflight = <<>>
      BY <1>1 DEF NewState, IsState, NoKey, Base, Situation
    <2>2. Dated(<<>>, <<>>)
      BY DatedAlone DEF Base
    <2>. QED
      BY <1>1, <1>2, <2>1, <2>2 DEF Base, TypeOK
  <1>4. IsImpl(impl') /\ impl'.rp = 0
    BY <1>1 DEF IsImpl, NewImpl
  <1>5. TypeOK'
    BY <1>1, <1>2, <1>3, <1>4 DEF Base, TypeOK
  <1>6. Base'
    BY <1>1, <1>2, <1>3, <1>4, <1>5 DEF Base, Situation
  <1>7. ASSUME fresh' PROVE InStep'
    <2>0. st'.rbuf = <<>>
      BY <1>1, <1>7, ZenonT(20)
    <2>1. Places' /\ ~Talks' /\ pc' # "up"
      BY <1>1, <1>2, <2>0 DEF Base, Situation, Places, Talks
    <2>2. FailsForCause' /\ ProofAccepted'
      BY <1>1 DEF Base, Situation, FailsForCause, ProofAccepted, Causes
    <2>. QED
      BY <1>3, <1>4, <1>5, <2>1, <2>2, <1>1 DEF Base, InStep
  <1>. QED
    BY <1>6, <1>7

LEMMA LossKeeps ==
  ASSUME Base, SessionLost
  PROVE  Base'
  <1> DEFINE t == [srv EXCEPT !.state = "none"]
  <1>1. /\ srv' = t /\ pc' = "idle" /\ sock' = "closed" /\ inflight' = <<>> /\ ret' = ret
        /\ impl' = impl /\ attempt' = attempt /\ fresh' = fresh
    BY DEF SessionLost
  <1>2. PICK rest \in {<<>>, <<Msg("data_row")>>, <<Msg("error_response")>>} :
          st' = [st EXCEPT !.rbuf = rest]
    BY ZenonT(30) DEF SessionLost
  <1> HIDE DEF t
  <1>3. IsServer(srv') /\ srv'.state = "none" /\ srv'.sess = srv.sess
    BY <1>1, StateSet DEF Updated, Base, t
  <1>4. IsState(st') /\ st'.rbuf = rest /\ st'.key = st.key /\ st'.diag = st.diag
    BY <1>2 DEF Base, IsState
  <1>5. Dated(rest, <<>>)
    <2> DEFINE a == Msg("data_row")
               b == Msg("error_response")
    <2>1. a.sess \in 0..MaxAttempts /\ b.sess \in 0..MaxAttempts
      BY DEF Msg, Base, TypeOK
    <2> HIDE DEF a, b
    <2>2. rest \in Seq({a, b}) /\ <<>> \in Seq({a, b})
      <3>1. rest \in {<<>>, <<a>>, <<b>>}
        BY <1>2 DEF a, b
      <3>2. <<>> \in Seq({a, b}) /\ <<a>> \in Seq({a, b}) /\ <<b>> \in Seq({a, b})
        OBVIOUS
      <3>. QED
        BY <3>1, <3>2, ZenonT(30)
    <2>. QED
      BY <2>1, <2>2 DEF Dated
  <1>6. Situation'
    BY <1>1, <1>3 DEF Base, Situation
  <1>. QED
    BY <1>1, <1>3, <1>4, <1>5, <1>6 DEF Base, TypeOK, States

LEMMA ConnectedKeeps ==
  ASSUME Base, PhysicalConnected
  PROVE  Base'
  <1> DEFINE w == [bytes |-> <<"startup">>, proof |-> {}]
  <1>1. PICK pw \in Passwords :
          srv' = [NoServer EXCEPT !.sess = srv.sess + 1, !.state = "open", !.pw = pw]
    BY ZenonT(30) DEF PhysicalConnected
  <1>2. /\ pc = "connecting" /\ sock' = "open" /\ pc' = "writing" /\ inflight' = inflight
        /\ attempt' = attempt /\ ret' = ret /\ fresh' = fresh
        /\ impl' = [impl EXCEPT !.rp = 1] /\ st' = [st EXCEPT !.wbuf = w]
    BY DEF PhysicalConnected
  <1>3. impl = NewImpl /\ srv.sess < attempt /\ ret.ec = "none"
    BY <1>2 DEF Base, Situation
  <1>4. srv' = Server(srv.sess + 1, "open", pw, <<>>, <<>>, {}, TRUE, TRUE, 0)
    BY <1>1, ZenonT(30) DEF NoServer, Server
  <1>5. IsServer(srv') /\ srv'.state = "open" /\ srv'.sess = srv.sess + 1
    BY <1>4 DEF IsServer, Server
  <1>6. IsImpl(impl') /\ impl'.rp = 1
    BY <1>2, <1>3 DEF NewImpl, IsImpl
  <1> HIDE DEF w
  <1>7. IsState(st') /\ st'.rbuf = st.rbuf /\ st'.key = st.key /\ st'.diag = st.diag
    BY <1>2, WbufSet DEF Base
  <1>8. srv'.sess \in 0..MaxAttempts /\ srv'.sess <= attempt'
    BY <1>2, <1>3, <1>5, ConnectParams DEF Base, TypeOK
  <1>9. Situation'
    BY <1>2, <1>3, <1>5, <1>6, <1>8 DEF Situation
  <1>. QED
    BY <1>2, <1>5, <1>6, <1>7, <1>8, <1>9 DEF Base, TypeOK, States

LEMMA ReceivedFields ==
  ASSUME IsServer(srv), NEW w
  PROVE  /\ IsServer(ServerReceives(w)) /\ ServerReceives(w).sess = srv.sess
         /\ ServerReceives(w).state \in {"startup", "sasl_first", "verified", "sasl_final", "stopped"}
         /\ srv.state \in {"open", "sasl"} => ServerReceives(w).state # "stopped"
  <1> DEFINE b == SubSeq(w.bytes, BareFirst, Len(w.bytes))
             g == Signature(w.bytes)
             t == ServerReceives(w)
  <1> HIDE DEF b, g
  <1>1. \/ /\ srv.state \notin {"open", "sasl"}
           /\ t = [srv EXCEPT !.state = "stopped"]
        \/ \E x \in {"startup", "sasl_final"} : t = [srv EXCEPT !.state = x]
        \/ t = [srv EXCEPT !.state = "sasl_first", !.bare = b]
        \/ t = [srv EXCEPT !.state = "verified", !.sig = g]
    BY ZenonT(30) DEF ServerReceives, b, g
  <1> HIDE DEF t
  <1>2. ASSUME NEW x, t = [srv EXCEPT !.state = x]
        PROVE  Updated(t, srv, x, srv.bare, srv.first, srv.sig, srv.honest, srv.quiet)
    BY <1>2, StateSet
  <1>5. CASE srv.state \notin {"open", "sasl"} /\ t = [srv EXCEPT !.state = "stopped"]
    BY <1>2, <1>5 DEF Updated, t
  <1>6. CASE \E x \in {"startup", "sasl_final"} : t = [srv EXCEPT !.state = x]
    BY <1>2, <1>6 DEF Updated, t
  <1>3. CASE t = [srv EXCEPT !.state = "sasl_first", !.bare = b]
    <2>1. Updated(t, srv, "sasl_first", b, srv.first, srv.sig, srv.honest, srv.quiet)
      BY <1>3, BareSet, ZenonT(30)
    <2>. QED
      BY <2>1 DEF Updated, t
  <1>4. CASE t = [srv EXCEPT !.state = "verified", !.sig = g]
    <2>1. Updated(t, srv, "verified", srv.bare, srv.first, g, srv.honest, srv.quiet)
      BY <1>4, SigSet, ZenonT(30)
    <2>. QED
      BY <2>1 DEF Updated, t
  <1>. QED
    BY <1>1, <1>3, <1>4, <1>5, <1>6

LEMMA WriteKeeps ==
  ASSUME Base, WriteDone
  PROVE  Base'
  <1>1. /\ pc = "writing" /\ pc' = "parsing" /\ impl' = [impl EXCEPT !.rp = impl.rp + 1]
        /\ st' = st /\ sock' = sock /\ inflight' = inflight /\ attempt' = attempt /\ ret' = ret
        /\ fresh' = fresh /\ srv' = ServerReceives(st.wbuf)
    BY DEF WriteDone
  <1>2. IsServer(srv') /\ srv'.sess = srv.sess /\ srv'.state \in States
    BY <1>1, ReceivedFields DEF Base, States
  <1>3. IsImpl(impl') /\ impl'.rp = impl.rp + 1 /\ impl.rp \in {1, 3, 5}
    BY <1>1 DEF Base, IsImpl, Situation
  <1>4. impl'.rp \in {2, 4, 6}
    BY <1>3
  <1>5. Situation'
    BY <1>1, <1>2, <1>4 DEF Base, Situation
  <1>. QED
    BY <1>1, <1>2, <1>3, <1>4, <1>5 DEF Base, TypeOK

LEMMA ReadKeeps ==
  ASSUME Base, ReadDone
  PROVE  Base'
  <1> DEFINE a == st.rbuf
             b == inflight
  <1>1. PICK n \in 1..Len(b) : /\ st' = [st EXCEPT !.rbuf = @ \o SubSeq(b, 1, n)]
                               /\ inflight' = SubSeq(b, n + 1, Len(b))
    BY ZenonT(30) DEF ReadDone
  <1> DEFINE c == SubSeq(b, 1, n)
             d == SubSeq(b, n + 1, Len(b))
  <1>2. /\ pc = "reading" /\ pc' = "parsing" /\ sock' = sock /\ impl' = impl /\ srv' = srv
        /\ attempt' = attempt /\ ret' = ret /\ fresh' = fresh
    BY DEF ReadDone
  <1>3. IsState(st') /\ st'.rbuf = a \o c /\ st'.key = st.key /\ st'.diag = st.diag /\ inflight' = d
    BY <1>1, ZenonT(30) DEF Base, IsState
  <1>4. PICK M : a \in Seq(M) /\ b \in Seq(M) /\ \A m \in M : m.sess \in 0..MaxAttempts
    BY DEF Base, Dated
  <1>5. c \in Seq(M) /\ d \in Seq(M)
    BY <1>4, CutJoins
  <1> HIDE DEF a, b, c, d
  <1>6. a \o c \in Seq(M)
    BY <1>4, <1>5, JoinedLen
  <1>7. Dated(st'.rbuf, inflight')
    BY <1>3, <1>4, <1>5, <1>6, ZenonT(30) DEF Dated
  <1>8. Situation' /\ TypeOK'
    BY <1>2, <1>3 DEF Base, Situation, TypeOK
  <1>. QED
    BY <1>2, <1>3, <1>7, <1>8, ZenonT(20) DEF Base

\* A message was handled and the login goes on.
LEMMA GoesOnKeeps ==
  ASSUME Base, pc = "parsing", pc' \in {"writing", "parsing"},
         UNCHANGED <<sock, srv, inflight, ret, attempt, fresh>>,
         IsState(st'), IsImpl(impl'), st'.key \in 0..MaxAttempts, st'.diag \in 0..MaxAttempts,
         pc' = "writing" => impl'.rp \in {1, 3, 5},
         pc' = "parsing" => impl'.rp \in {2, 4, 6, 7, 8}, Dated(st'.rbuf, inflight)
  PROVE  Base'
  <1>1. /\ sock' = sock /\ srv' = srv /\ inflight' = inflight /\ ret' = ret /\ attempt' = attempt
        /\ fresh' = fresh
    OBVIOUS
  <1>2. impl'.rp \in 0..8
    OBVIOUS
  <1>3. Situation' /\ TypeOK'
    BY <1>1, <1>2 DEF Base, Situation, TypeOK
  <1>. QED
    BY <1>1, <1>3, ZenonT(20) DEF Base

LEMMA DatedTail ==
  ASSUME NEW a, a # <<>>, NEW b, Dated(a, b)
  PROVE  /\ Head(a).sess \in 0..MaxAttempts
         /\ Dated(Tail(a), b) /\ Dated(Tail(a), <<>>)
  <1>1. PICK M : a \in Seq(M) /\ b \in Seq(M) /\ \A m \in M : m.sess \in 0..MaxAttempts
    BY DEF Dated
  <1>2. Head(a) \in M /\ Tail(a) \in Seq(M)
    BY <1>1, SeqTail, SeqEmpty, SeqElem
  <1>3. Dated(Tail(a), b)
    BY <1>1, <1>2 DEF Dated
  <1>. QED
    BY <1>1, <1>2, <1>3, DatedAlone

LEMMA HandleKeeps ==
  ASSUME Base, pc = "parsing", st.rbuf # <<>>, NEW m, m = Head(st.rbuf), HandleMessage(m),
         attempt' = attempt, fresh' = fresh
  PROVE  Base'
  <1>1. PICK n \in Nonces :
          LET r == OnMessage(m, <<n>>)
              s == [r.st EXCEPT !.rbuf = Tail(@)]
          IN  /\ st' = s
              /\ impl' = r.impl
              /\ IF r.type = "done" THEN Returns(r.ec, s.diag)
                 ELSE /\ pc' = IF r.type = "write" THEN "writing" ELSE "parsing"
                      /\ UNCHANGED <<sock, srv, inflight, ret>>
    BY ZenonT(30) DEF HandleMessage
  <1> DEFINE r == OnMessage(m, <<n>>)
             nonce == <<n>>
             x == Move(impl.rp, m, impl.scram, st.wbuf)
  <1>2. /\ st' = [r.st EXCEPT !.rbuf = Tail(@)] /\ impl' = r.impl
        /\ r.type = "done" => Returns(r.ec, st'.diag)
        /\ r.type = "write" => pc' = "writing" /\ UNCHANGED <<sock, srv, inflight, ret>>
        /\ r.type = "read" => pc' = "parsing" /\ UNCHANGED <<sock, srv, inflight, ret>>
    BY <1>1
  <1>3. /\ m.sess \in 0..MaxAttempts
        /\ Dated(Tail(st.rbuf), inflight) /\ Dated(Tail(st.rbuf), <<>>)
    BY DatedTail DEF Base
  <1>4. IsState(st) /\ IsImpl(impl) /\ st.key \in 0..MaxAttempts /\ st.diag \in 0..MaxAttempts
        /\ impl.rp \in {2, 4, 6, 7, 8}
    BY ZenonT(30) DEF Base, TypeOK
  <1> HIDE DEF r, x
  <1>5. Outcome(r, m, nonce, x)
    BY <1>4, MessageOutcome DEF r, x
  <1>6. ASSUME IsState(r.st), r.st.rbuf = st.rbuf, r.st.key \in 0..MaxAttempts,
               r.st.diag \in 0..MaxAttempts
        PROVE  /\ IsState(st') /\ st'.rbuf = Tail(st.rbuf) /\ st'.key \in 0..MaxAttempts
               /\ st'.diag \in 0..MaxAttempts
    BY <1>2, <1>6, StateTail
  <1>7. CASE Ends(r, m, x)
    <2>1. /\ IsState(r.st) /\ r.st.rbuf = st.rbuf /\ r.st.key \in 0..MaxAttempts
          /\ r.st.diag \in 0..MaxAttempts
      BY <1>3, <1>4, <1>7 DEF Ends, IsState
    <2>2. impl' = impl /\ Returns(r.ec, st'.diag) /\ (r.ec = "ok" => impl.rp = 8)
      BY <1>2, <1>7 DEF Ends, Causes
    <2>. QED
      BY <1>3, <1>4, <1>6, <2>1, <2>2, ReturnKeeps
  <1>8. CASE GoesOn(r, m, x)
    <2>1. /\ IsState(r.st) /\ r.st.rbuf = st.rbuf /\ r.st.key \in 0..MaxAttempts
          /\ r.st.diag \in 0..MaxAttempts
      BY <1>3, <1>4, <1>8 DEF GoesOn, IsState
    <2>2. /\ x \in {7, 8} /\ impl' = [impl EXCEPT !.rp = x]
          /\ pc' = "parsing" /\ UNCHANGED <<sock, srv, inflight, ret, attempt, fresh>>
      BY <1>2, <1>8 DEF GoesOn
    <2>3. IsImpl(impl') /\ impl'.rp \in {7, 8}
      BY <1>4, <2>2 DEF IsImpl
    <2>. QED
      BY <1>3, <1>6, <2>1, <2>2, <2>3, GoesOnKeeps
  <1>9. ASSUME NEW w, NEW p \in {3, 5}, NEW scram, r.st = [st EXCEPT !.wbuf = w],
               r.impl = [rp |-> p, scram |-> scram], r.type = "write"
        PROVE  Base'
    <2>1. /\ IsState(r.st) /\ r.st.rbuf = st.rbuf /\ r.st.key = st.key /\ r.st.diag = st.diag
      <3> DEFINE y == r.st
      <3>1. IsState(st) /\ y = [st EXCEPT !.wbuf = w]
        BY <1>4, <1>9
      <3> HIDE DEF y
      <3>2. IsState(y) /\ y.rbuf = st.rbuf /\ y.key = st.key /\ y.diag = st.diag
        BY <3>1, WbufSet
      <3>. QED
        BY <3>2 DEF y
    <2>2. IsImpl(impl') /\ impl'.rp = p
      <3>1. impl' = [rp |-> p, scram |-> scram]
        BY <1>2, <1>9, ZenonT(20)
      <3>. QED
        BY <3>1 DEF IsImpl
    <2>3. pc' = "writing" /\ UNCHANGED <<sock, srv, inflight, ret, attempt, fresh>>
      BY <1>2, <1>9
    <2>. QED
      BY <1>3, <1>4, <1>6, <2>1, <2>2, <2>3, GoesOnKeeps
  <1>10. CASE BeginsScram(r, nonce, x)
    BY <1>9, <1>10, ZenonT(30) DEF BeginsScram
  <1>11. CASE GivesProof(r, m, x)
    BY <1>9, <1>11, ZenonT(30) DEF GivesProof
  <1>. QED
    BY <1>5, <1>7, <1>8, <1>10, <1>11 DEF Outcome

LEMMA ParseKeeps ==
  ASSUME Base, ParseOne
  PROVE  Base'
  <1>1. pc = "parsing" /\ attempt' = attempt /\ fresh' = fresh
    BY DEF ParseOne
  <1>2. CASE st.rbuf = <<>>
    <2>1. /\ pc' = "reading" /\ sock' = sock /\ impl' = impl /\ st' = st /\ srv' = srv
          /\ inflight' = inflight /\ ret' = ret
      BY <1>2 DEF ParseOne
    <2>2. Situation' /\ TypeOK'
      BY <1>1, <2>1 DEF Base, Situation, TypeOK
    <2>. QED
      BY <2>1, <2>2, ZenonT(20) DEF Base
  <1>3. CASE st.rbuf # <<>> /\ Head(st.rbuf).kind = "malformed"
    <2>1. Returns("protocol_value_error", st.diag) /\ impl' = impl /\ st' = st
      BY <1>3 DEF ParseOne
    <2>2. Dated(st.rbuf, <<>>)
      BY DatedAlone DEF Base
    <2>. QED
      BY <1>1, <2>1, <2>2, ReturnKeeps DEF Base, TypeOK
  <1>4. CASE st.rbuf # <<>> /\ Head(st.rbuf).kind # "malformed"
    BY <1>1, <1>4, HandleKeeps DEF ParseOne
  <1>. QED
    BY <1>2, <1>3, <1>4

-----------------------------------------------------------------------------
(* Theorems *)

LEMMA Start ==
  ASSUME Init
  PROVE  IInv
  <1>1. /\ pc = "idle" /\ sock = "closed" /\ inflight = <<>> /\ attempt = 0 /\ ret.ec = "none"
        /\ impl = NewImpl /\ st = NewState /\ srv = NoServer /\ fresh = TRUE
    BY DEF Init
  <1>2. IsState(st) /\ IsImpl(impl) /\ st.key = 0 /\ st.diag = 0 /\ st.rbuf = <<>> /\ impl.rp = 0
    BY <1>1 DEF IsState, IsImpl, NewState, NewImpl, NoKey
  <1>3. IsServer(srv) /\ srv.state = "none" /\ srv.sess = 0
    BY <1>1 DEF IsServer, Server, NoServer
  <1>4. FailsForCause /\ ProofAccepted
    BY <1>1, <1>3 DEF FailsForCause, ProofAccepted, Causes
  <1>5. TypeOK
    BY <1>1, <1>2, <1>3, ConnectParams DEF TypeOK, States
  <1>6. Dated(st.rbuf, inflight)
    <2>1. <<>> \in Seq({}) /\ \A m \in {} : m.sess \in 0..MaxAttempts
      OBVIOUS
    <2>. QED
      BY <1>1, <1>2, <2>1 DEF Dated
  <1>7. Base
    BY <1>1, <1>2, <1>3, <1>5, <1>6 DEF Base, Situation
  <1>8. InStep
    BY <1>1, <1>2, <1>3, <1>4, <1>5 DEF InStep, Places, Talks
  <1>. QED
    BY <1>7, <1>8 DEF IInv

LEMMA Stutters ==
  ASSUME InStep, UNCHANGED vars
  PROVE  InStep'
  <1>1. /\ pc' = pc /\ sock' = sock /\ impl' = impl /\ st' = st /\ srv' = srv
        /\ inflight' = inflight /\ attempt' = attempt /\ ret' = ret /\ fresh' = fresh
    BY DEF vars
  <1>4. (Talks => Dialogue)'
    BY <1>1 DEF InStep, Talks, Dialogue, Ahead
  <1>. QED
    BY <1>4, <1>1, ZenonT(30) DEF InStep, TypeOK, Places, FailsForCause, ProofAccepted, Talks

LEMMA BaseStutters ==
  ASSUME Base, UNCHANGED vars
  PROVE  Base'
  <1>1. /\ pc' = pc /\ sock' = sock /\ impl' = impl /\ st' = st /\ srv' = srv
        /\ inflight' = inflight /\ attempt' = attempt /\ ret' = ret /\ fresh' = fresh
    BY DEF vars
  <1>2. Situation' /\ TypeOK'
    BY <1>1 DEF Base, Situation, TypeOK
  <1>. QED
    BY <1>1, <1>2, ZenonT(20) DEF Base

LEMMA ServerInductive ==
  ASSUME InStep, ServerStep \/ ServerMisbehaves \/ ServerForges
  PROVE  InStep'
  BY AsksStep, TrustsStep, RefusesStep, ContinuesStep, SignsStep, ExtrasStep, ReadyStep,
     MisbehavesStep, ForgesStep DEF ServerStep

\* A step of Next other than a new call.
Goes ==
  \/ ClientStep \/ PhysicalFails \/ IoFails \/ SessionLost
  \/ ServerStep \/ ServerMisbehaves \/ ServerForges \/ UNCHANGED vars

LEMMA GoesInStep ==
  ASSUME InStep, Goes
  PROVE  InStep'
  BY ConnectedStep, WriteStep, ReadStep, ParseStep, IoFailsStep, SessionLostStep,
     ServerInductive, Stutters DEF Goes, ClientStep

LEMMA GoesKeeps ==
  ASSUME Base, Goes
  PROVE  Base'
  BY ConnectedKeeps, WriteKeeps, ReadKeeps, ParseKeeps, FailureKeeps, LossKeeps,
     ServerKeeps, BaseStutters DEF Goes, ClientStep

LEMMA FreshKept ==
  ASSUME IsServer(srv), Goes
  PROVE  fresh' = fresh
  <1>1. CASE ServerStep \/ ServerMisbehaves \/ ServerForges
    BY <1>1, ServerReplies DEF Replies, Send
  <1>2. CASE UNCHANGED vars
    BY <1>2 DEF vars
  <1>3. CASE ClientStep \/ PhysicalFails \/ IoFails \/ SessionLost
    BY <1>3, ZenonT(30) DEF ClientStep, PhysicalConnected, WriteDone, ReadDone, ParseOne, PhysicalFails,
       IoFails, SessionLost
  <1>. QED
    BY <1>1, <1>2, <1>3 DEF Goes

LEMMA NextCases ==
  ASSUME [Next]_vars
  PROVE  CallConnect \/ Goes
  BY DEF Next, Goes

LEMMA Inductive ==
  ASSUME IInv, [Next]_vars
  PROVE  IInv'
  <1>1. Base /\ (fresh => InStep)
    BY DEF IInv
  <1>2. CASE CallConnect
    BY <1>1, <1>2, CallKeeps DEF IInv
  <1>3. CASE Goes
    <2>1. Base' /\ fresh' = fresh
      BY <1>1, <1>3, GoesKeeps, FreshKept DEF Base
    <2>2. fresh => InStep'
      BY <1>1, <1>3, GoesInStep
    <2>. QED
      BY <2>1, <2>2, ZenonT(20) DEF IInv
  <1>. QED
    BY <1>2, <1>3, NextCases

\* The inductive invariant: every call keeps Base, and the two sides of a call that
\* began with an empty read buffer are in step.
THEOREM ConnectInvariant == Spec => []IInv
  <1>1. Init => IInv
    BY Start
  <1>2. IInv /\ [Next]_vars => IInv'
    BY Inductive
  <1>. QED
    BY <1>1, <1>2, PTL DEF Spec

LEMMA ProvesMutual ==
  ASSUME IInv
  PROVE  MutualProof
  BY ZenonT(30) DEF IInv, Base, InStep, Places, Knows, MutualProof

LEMMA ProvesCauses ==
  ASSUME IInv
  PROVE  FailsForCause /\ ProofAccepted
  BY DEF IInv, InStep, FailsForCause, ProofAccepted

\* A client that authenticated with SCRAM, in a call that began with an empty read
\* buffer, is up only when the server has verified its proof and has shown, with its
\* signature, that it knows the client's password.
THEOREM MutualProofHolds == Spec => []MutualProof
  <1>1. IInv => MutualProof
    BY ProvesMutual
  <1>. QED
    BY <1>1, ConnectInvariant, PTL

\* Against a server that follows the protocol and sends no notice during the
\* authentication, a connect() that began with an empty read buffer, on a new object
\* or on one that was connected before, fails only for a cause outside of the client:
\* a broken connection, a refusal, or a method that is not supported.
THEOREM FailsForCauseHolds == Spec => []FailsForCause
  <1>1. IInv => FailsForCause
    BY ProvesCauses
  <1>. QED
    BY <1>1, ConnectInvariant, PTL

\* A server with the client's password never rejects the proof of a client whose
\* connect() began with an empty read buffer.
THEOREM ProofAcceptedHolds == Spec => []ProofAccepted
  <1>1. IInv => ProofAccepted
    BY ProvesCauses
  <1>. QED
    BY <1>1, ConnectInvariant, PTL

-----------------------------------------------------------------------------
(* connect() implements the safety part of module Login *)

\* The refinement mapping, and Login's steps, in terms of its values.
Client(p, f) == IF p = "idle" \/ (p = "up" /\ ~f) THEN "down"
                ELSE IF p = "up" THEN "up" ELSE "logging_in"
Role(x) == IF x \in {"none", "approved", "ready"} THEN x
           ELSE IF x \in {"refused", "stopped"} THEN "refused" ELSE "deciding"
Peer(p, k, f, x) == IF k = "closed" \/ (p = "up" /\ ~f) THEN "none"
                    ELSE IF ~f THEN "deciding" ELSE Role(x)

LoginStep(c, s, d, t) ==
  \/ c = d /\ s = t
  \/ c = "down" /\ d = "logging_in" /\ t = "none"
  \/ c = "logging_in" /\ d = "logging_in" /\ s = "none" /\ t = "deciding"
  \/ c = "logging_in" /\ d = "logging_in" /\ s = "deciding" /\ t \in {"approved", "refused"}
  \/ c = "logging_in" /\ d = "logging_in" /\ s = "approved" /\ t \in {"ready", "refused"}
  \/ c = "logging_in" /\ d = "up" /\ s = "ready" /\ t = "ready"
  \/ c = "logging_in" /\ d = "down" /\ t = "none"
  \/ c = "up" /\ d = "down" /\ t = "none"

\* A step of connect() and its server is one of Login.
Logs == LoginStep(Client(pc, fresh), Peer(pc, sock, fresh, srv.state),
                  Client(pc', fresh'), Peer(pc', sock', fresh', srv'.state))

LEMMA LoginStepMaps ==
  ASSUME Logs
  PROVE  [Promise!Next]_Promise!vars
  BY ZenonT(30) DEF Logs, LoginStep, Client, Peer, Role, Promise!Next, Promise!vars, Promise!Dial,
     Promise!Accept, Promise!Decide, Promise!Succeed, Promise!GiveUp, Promise!Lose

LEMMA CallLogs ==
  ASSUME Base, CallConnect
  PROVE  Logs
  BY ZenonT(30) DEF CallConnect, Base, Situation, Logs, LoginStep, Client, Peer

\* A call that began with old bytes: only where connect() is counts.
LEMMA StaleLogs ==
  ASSUME Base, Base', Goes, ~fresh
  PROVE  Logs
  <1>1. fresh' = fresh
    BY FreshKept DEF Base
  <1>2. \/ pc' = pc
        \/ pc = "connecting" /\ pc' = "writing"
        \/ pc \in {"writing", "reading", "parsing"} /\ pc' \in {"writing", "reading", "parsing"}
        \/ pc \notin {"idle", "up"} /\ pc' \in {"idle", "up"}
        \/ pc = "up" /\ pc' = "idle"
    <2>1. CASE ServerStep \/ ServerMisbehaves \/ ServerForges
      BY <2>1, ServerReplies DEF Replies, Send, Base
    <2>2. CASE UNCHANGED vars
      BY <2>2 DEF vars
    <2>3. CASE PhysicalConnected \/ WriteDone \/ ReadDone \/ SessionLost
      BY <2>3, ZenonT(30) DEF PhysicalConnected, WriteDone, ReadDone, SessionLost
    <2>4. ASSUME NEW ec, NEW d, Returns(ec, d) PROVE pc' \in {"idle", "up"}
      BY <2>4 DEF Returns
    <2>5. CASE PhysicalFails \/ IoFails
      BY <2>4, <2>5 DEF PhysicalFails, IoFails
    <2>6. CASE ParseOne
      <3>1. \/ pc' \in {"reading", "parsing", "writing"}
            \/ \E ec, d : Returns(ec, d)
        BY <2>6, ZenonT(30) DEF ParseOne, HandleMessage
      <3>. QED
        BY <2>4, <2>6, <3>1 DEF ParseOne
    <2>. QED
      BY <2>1, <2>2, <2>3, <2>5, <2>6 DEF Goes, ClientStep
  <1>3. /\ sock = "closed" <=> pc \in {"idle", "connecting"}
        /\ sock' = "closed" <=> pc' \in {"idle", "connecting"}
    BY DEF Base, Situation, TypeOK
  <1>. QED
    BY <1>1, <1>2, <1>3 DEF Logs, LoginStep, Client, Peer

\* A call that began with an empty buffer: what the server has decided counts.
LEMMA InStepLogs ==
  ASSUME Base, Base', fresh, fresh' = fresh,
         LoginStep(Client(pc, fresh), Role(srv.state), Client(pc', fresh), Role(srv'.state))
  PROVE  Logs
  <1>1. Peer(pc, sock, fresh, srv.state) = Role(srv.state)
    BY DEF Base, Situation, TypeOK, Peer, Role
  <1>2. Peer(pc', sock', fresh, srv'.state) = Role(srv'.state)
    BY DEF Base, Situation, TypeOK, Peer, Role
  <1>. QED
    BY <1>1, <1>2, ZenonT(20) DEF Logs

LEMMA ServerLogs ==
  ASSUME InStep, fresh, ServerStep \/ ServerMisbehaves \/ ServerForges
  PROVE  LoginStep(Client(pc, fresh), Role(srv.state), Client(pc', fresh), Role(srv'.state))
  <1>1. PICK N, msgs, t : Replies(N, msgs, t)
    BY ServerReplies DEF InStep
  <1>2. srv' = t /\ pc' = pc /\ Decides(srv.state, t.state)
    BY <1>1 DEF Replies, Send
  <1>3. Talks
    BY <1>2, SendTalks DEF Decides, Sends
  <1>. QED
    BY <1>2, <1>3 DEF Decides, Talks, Client, Role, LoginStep

LEMMA ReturnLogs ==
  ASSUME InStep', fresh, pc \notin {"idle", "up"}, NEW ec, NEW d, Returns(ec, d), IsServer(srv)
  PROVE  LoginStep(Client(pc, fresh), Role(srv.state), Client(pc', fresh), Role(srv'.state))
  <1>1. Client(pc, fresh) = "logging_in"
    BY DEF Client
  <1>2. CASE ec = "ok"
    BY <1>2, <1>1 DEF Returns, InStep, Places, Client, Role, LoginStep
  <1>3. CASE ec # "ok"
    <2>1. pc' = "idle" /\ srv' = [srv EXCEPT !.state = "none"]
      BY <1>3 DEF Returns
    <2>. QED
      BY <1>1, <2>1, StateSet DEF LoginStep, Client, Role, Updated
  <1>. QED
    BY <1>2, <1>3, ZenonT(30)

LEMMA WriteLogs ==
  ASSUME InStep, fresh, WriteDone
  PROVE  LoginStep(Client(pc, fresh), Role(srv.state), Client(pc', fresh), Role(srv'.state))
  <1>1. pc = "writing" /\ pc' = "parsing" /\ srv' = ServerReceives(st.wbuf)
    BY DEF WriteDone
  <1>2. impl.rp \in {1, 3, 5} /\ Meets(srv.state, impl.rp)
    BY <1>1, WritesAlone
  <1>3. srv.state \in {"open", "sasl"}
    BY <1>2 DEF Meets
  <1>4. srv'.state \in {"startup", "sasl_first", "verified", "sasl_final"}
    BY <1>1, <1>3, ReceivedFields DEF InStep
  <1>. QED
    BY <1>1, <1>3, <1>4 DEF LoginStep, Client, Role

LEMMA ClientLogs ==
  ASSUME InStep, InStep', fresh, ClientStep \/ PhysicalFails \/ IoFails \/ SessionLost
  PROVE  LoginStep(Client(pc, fresh), Role(srv.state), Client(pc', fresh), Role(srv'.state))
  <1>0. IsServer(srv)
    BY DEF InStep
  <1>2. CASE PhysicalConnected
    BY <1>2 DEF PhysicalConnected, InStep, Places, NoServer, LoginStep, Client, Role
  <1>3. CASE WriteDone
    BY <1>3, WriteLogs, ZenonT(30)
  <1>4. CASE ReadDone
    BY <1>4 DEF ReadDone, LoginStep, Client
  <1>5. CASE ParseOne
    <2>1. pc = "parsing"
      BY <1>5 DEF ParseOne
    <2>2. \/ pc' \in {"reading", "parsing", "writing"} /\ srv' = srv
          \/ \E ec, d : Returns(ec, d)
      BY <1>5, ZenonT(30) DEF ParseOne, HandleMessage
    <2>3. CASE pc' \in {"reading", "parsing", "writing"} /\ srv' = srv
      BY <2>1, <2>3 DEF LoginStep, Client
    <2>4. CASE \E ec, d : Returns(ec, d)
      BY <1>0, <2>1, <2>4, ReturnLogs, ZenonT(30)
    <2>. QED
      BY <2>2, <2>3, <2>4, ZenonT(30)
  <1>6. CASE PhysicalFails \/ IoFails
    BY <1>6, <1>0, ReturnLogs, ZenonT(30) DEF PhysicalFails, IoFails
  <1>7. CASE SessionLost
    BY <1>7, <1>0, StateSet DEF SessionLost, Updated, LoginStep, Client, Role
  <1>. QED
    BY <1>2, <1>3, <1>4, <1>5, <1>6, <1>7, ZenonT(30) DEF ClientStep

LEMMA StepLogs ==
  ASSUME IInv, IInv', [Next]_vars
  PROVE  Logs
  <1>1. Base /\ Base' /\ (fresh => InStep) /\ (fresh' => InStep')
    BY DEF IInv
  <1>2. CASE CallConnect
    BY <1>1, <1>2, CallLogs
  <1>3. CASE Goes /\ ~fresh
    BY <1>1, <1>3, StaleLogs
  <1>4. CASE Goes /\ fresh
    <2>1. fresh' = fresh /\ InStep /\ InStep'
      BY <1>1, <1>4, FreshKept DEF Base
    <2>2. CASE UNCHANGED vars
      BY <2>2 DEF vars, Logs, LoginStep
    <2>3. CASE ServerStep \/ ServerMisbehaves \/ ServerForges
      BY <1>1, <1>4, <2>1, <2>3, ServerLogs, InStepLogs, ZenonT(30)
    <2>4. CASE ClientStep \/ PhysicalFails \/ IoFails \/ SessionLost
      BY <1>1, <1>4, <2>1, <2>4, ClientLogs, InStepLogs, ZenonT(30)
    <2>. QED
      BY <1>4, <2>2, <2>3, <2>4 DEF Goes
  <1>. QED
    BY <1>2, <1>3, <1>4, NextCases

\* connect() implements Login.  A caller that is told it is connected by a call that
\* began with an empty read buffer, on a new object or on one that was connected before,
\* has reached a server that has approved it and is ready, in the session of this call;
\* every call that returns an error has closed its socket.  Of the result of a call that
\* began with the bytes of a lost session nothing is promised.
THEOREM ConnectImplementsLogin == Spec => Promise!Spec
  <1>1. Init => Promise!Init
    BY DEF Init, NoServer, Promise!Init
  <1>2. IInv /\ IInv' /\ [Next]_vars => [Promise!Next]_Promise!vars
    BY LoginStepMaps, StepLogs
  <1>. QED
    BY <1>1, <1>2, ConnectInvariant, PTL DEF Spec, Promise!Spec

=============================================================================
