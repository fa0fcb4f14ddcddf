------------------------------- MODULE Scram -------------------------------
(***************************************************************************)
(* SCRAM-SHA-256 as scram_sha256_fsm runs it: the messages of              *)
(* scram_sha256_messages.hpp as sequences of tokens, and the computations  *)
(* of scram_sha256_crypt.hpp with a symbolic SHA-256.                      *)
(*                                                                         *)
(* A digest is a formal sum: the set of the hashes that were combined with *)
(* exclusive or.  Two digests are equal only when they were computed from  *)
(* the same values, in the same way.  Base64 is the identity here; module  *)
(* Conversions is about the real one.                                      *)
(***************************************************************************)
EXTENDS Naturals, Sequences

CONSTANT
  MaxIterations   \* the iteration count above which a server is refused: 0xffff

ASSUME IterationBound == MaxIterations \in Nat \ {0, 1}

-----------------------------------------------------------------------------
(* Computations *)

Hmac(key, data)    == {<<"hmac", key, data>>}
HmacOf(key, digest) == {<<"hmac_digest", key, digest>>}
Sha256(digest)     == {<<"sha256", digest>>}
ComputeXor(a, b)   == (a \ b) \cup (b \ a)

\* compute_hi: U1 := HMAC(str, salt + INT(1)), Ui := HMAC(str, Ui-1), all added up.
ComputeHi(str, salt, n) ==
  LET U[i \in 1..n] == IF i = 1 THEN Hmac(str, Append(salt, "INT(1)"))
                       ELSE HmacOf(str, U[i - 1])
      Sum[i \in 1..n] == IF i = 1 THEN U[1] ELSE ComputeXor(Sum[i - 1], U[i])
  IN  Sum[n]

\* normalize_password: SASLprep is not implemented and leaves the password alone.
NormalizePassword(pw) == {<<"password", pw>>}

\* compute_proofs
ClientKey(salted) == Hmac(salted, <<"Client Key">>)
ServerKey(salted) == Hmac(salted, <<"Server Key">>)

ComputeProofs(pw, salt, n, authMessage) ==
  LET salted    == ComputeHi(NormalizePassword(pw), salt, n)
      clientSig == Hmac(Sha256(ClientKey(salted)), authMessage)
  IN  [proof |-> ComputeXor(ClientKey(salted), clientSig),
       signature |-> Hmac(ServerKey(salted), authMessage)]

-----------------------------------------------------------------------------
(* Messages *)

Comma == ","

Printable(token) == token \notin {Comma, "unprintable"}
IsBase64(token)  == token # "not_base64"
Numeral          == [t \in {"0", "1", "2", "too_many"} |->
                       CASE t = "0" -> 0 [] t = "1" -> 1 [] t = "2" -> 2
                         [] t = "too_many" -> MaxIterations + 1]

\* The first comma at or after position i, or 0.
CommaFrom(t, i) ==
  LET commas == {j \in i..Len(t) : t[j] = Comma}
  IN  IF commas = {} THEN 0 ELSE CHOOSE j \in commas : \A k \in commas : j <= k

Invalid == [ec |-> "invalid_scram_message"]

\* parse(server_first_message): "r=" nonce "," "s=" salt "," "i=" count [extensions]
ParseServerFirst(t) ==
  LET c1    == CommaFrom(t, 1)
      c2    == CommaFrom(t, c1 + 1)
      c3    == CommaFrom(t, c2 + 1)
      nonce == SubSeq(t, 2, c1 - 1)
      salt  == SubSeq(t, c1 + 2, c2 - 1)
      count == SubSeq(t, c2 + 2, IF c3 = 0 THEN Len(t) ELSE c3 - 1)
      Tag(i, s) == i <= Len(t) /\ t[i] = s
  IN  IF t # <<>> /\ t[1] \in {"m", "m="}
      THEN IF t[1] = "m" /\ Tag(2, Comma) THEN [ec |-> "mandatory_scram_extension_not_supported"]
           ELSE Invalid
      ELSE IF ~Tag(1, "r=") \/ c1 = 0 \/ (\E i \in DOMAIN nonce : ~Printable(nonce[i]))
                            \/ ~Tag(c1 + 1, "s=") \/ c2 = 0
      THEN Invalid
      ELSE IF \E i \in DOMAIN salt : ~IsBase64(salt[i])
      THEN [ec |-> "invalid_base64"]
      ELSE IF ~Tag(c2 + 1, "i=") \/ Len(count) # 1 \/ count[1] \notin DOMAIN Numeral
      THEN Invalid
      ELSE [ec |-> "ok", nonce |-> nonce, salt |-> salt, count |-> Numeral[count[1]]]

\* parse(server_final_message): "v=" signature [extensions]
ParseServerFinal(m) == IF m.tag # "v=" THEN Invalid
                       ELSE IF ~m.base64 THEN [ec |-> "invalid_base64"]
                       ELSE [ec |-> "ok", signature |-> m.signature]

\* serialize(client_first_message): the write buffer, of which the tokens from
\* BareFirst on are client-first-message-bare.
Gs2Header == "n,,"
BareStart == "n=,r="
ClientFirst(nonce) == <<"p", "SCRAM-SHA-256", Gs2Header, BareStart>> \o nonce
BareFirst == 4

\* client_final_message_serializer: the message before its proof is added.
FinalStart == "c=biws,r="
ClientFinal(nonce)  == <<"p", FinalStart>> \o nonce
WithoutProof(final) == Tail(final)

-----------------------------------------------------------------------------
(* scram_sha256_fsm: nonce_, server_signature_, and client_first_msg_, a span *)
(* of the write buffer, given here by its two ends.                           *)

NewScram == [nonce |-> <<>>, first |-> 0, last |-> 0, signature |-> {}]

StartsWith(s, prefix) == Len(prefix) <= Len(s) /\ SubSeq(s, 1, Len(prefix)) = prefix

\* on_init, with the nonce that generate_nonce returned
OnInit(nonce) ==
  LET msg == ClientFirst(nonce)
  IN  [wbuf |-> [bytes |-> msg, proof |-> {}],
       scram |-> [nonce |-> nonce, first |-> BareFirst, last |-> Len(msg), signature |-> {}]]

\* on_server_first
ClearsBufferFirst(scram, wbuf, data, pw) ==  \* mutant: client_first_msg_ is read after the buffer is reused
  LET msg == ParseServerFirst(data)
      final == ClientFinal(msg.nonce)
      auth  == SubSeq(final, 1, IF Len(final) < scram.last THEN Len(final) ELSE scram.last)
                 \o <<Comma>> \o data \o <<Comma>> \o WithoutProof(final)
      p     == ComputeProofs(pw, msg.salt, msg.count, auth)
  IN  IF msg.ec # "ok" THEN [ec |-> msg.ec]
      ELSE IF msg.nonce = <<>> \/ ~StartsWith(msg.nonce, scram.nonce) THEN [ec |-> "scram_invalid_nonce"]
      ELSE IF msg.count = 0 \/ msg.count > MaxIterations THEN [ec |-> "protocol_value_error"]
      ELSE [ec |-> "ok", wbuf |-> [bytes |-> final, proof |-> p.proof],
            scram |-> [scram EXCEPT !.signature = p.signature]]

OnServerFirst(scram, wbuf, data, pw) ==
  LET msg   == ParseServerFirst(data)
      final == ClientFinal(msg.nonce)
      auth  == SubSeq(wbuf.bytes, scram.first, scram.last)
                 \o <<Comma>> \o data \o <<Comma>> \o WithoutProof(final)
      p     == ComputeProofs(pw, msg.salt, msg.count, auth)
  IN  IF msg.ec # "ok" THEN [ec |-> msg.ec]
      ELSE IF msg.nonce = <<>> \/ ~StartsWith(msg.nonce, scram.nonce)
      THEN [ec |-> "scram_invalid_nonce"]
      ELSE IF msg.count = 0 \/ msg.count > MaxIterations
      THEN [ec |-> "protocol_value_error"]
      ELSE [ec |-> "ok", wbuf |-> [bytes |-> final, proof |-> p.proof],
            scram |-> [scram EXCEPT !.signature = p.signature]]

\* on_server_final
AnySignature(scram, m) ==  \* mutant: the signature is parsed and not compared
  ParseServerFinal(m).ec

OnServerFinal(scram, m) ==
  LET msg == ParseServerFinal(m)
  IN  IF msg.ec # "ok" THEN msg.ec
      ELSE IF msg.signature # scram.signature THEN "scram_invalid_server_signature"
      ELSE "ok"

=============================================================================
