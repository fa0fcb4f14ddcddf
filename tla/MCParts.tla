------------------------------ MODULE MCParts ------------------------------
(***************************************************************************)
(* Messages, values, calls and texts for Parts: every kind of message with *)
(* no, one and several items, and the values at which each conversion      *)
(* changes its behaviour.                                                  *)
(***************************************************************************)
EXTENDS Parts

M(k, f, is) == [kind |-> k, fields |-> f, items |-> is]

A == <<97>>
BC2 == <<66, 67>>

CopyKinds == {"copy_in_response", "copy_out_response", "copy_both_response"}

\* "BC", "INSERT 0 3", "SELECT 12" and "COPY 0"
Tags == {BC2, Insert \o <<32, 48, 32, 51>>, <<83, 69, 76, 69, 67, 84, 32, 49, 50>>, <<67, 79, 80, 89, 32, 48>>}

MessagesDef ==
  {M(k, <<>>, <<>>) : k \in EmptyBodies}
  \union {M(k, <<s>>, <<>>) : k \in OpenBodies, s \in {<<>>, <<0, 255>>}}
  \union {M("authentication_md5_password", <<<<1, 0, 255, 128>>>>, <<>>),
          M("backend_key_data", <<-2, 300>>, <<>>),
          M("notification_response", <<7, A, <<>>>>, <<>>),
          M("parameter_status", <<A, BC2>>, <<>>),
          M("ready_for_query", <<84>>, <<>>),
          M("parameter_description", <<>>, <<>>),
          M("copy_out_response", <<0>>, <<<<0>>, <<0>>>>)}
  \union {M("authentication_sasl", <<>>, is) : is \in {<<>>, <<<<A>>>>, <<<<BC2>>, <<A>>>>}}
  \union {M(k, <<1>>, is) : k \in CopyKinds, is \in {<<>>, <<<<0>>, <<1>>>>}}
  \union {M("data_row", <<>>, is) :
            is \in {<<>>, <<<<>>>>, <<<<A>>, <<>>, <<<<>>>>>>, <<<<BC2>>, <<A>>>>}}
  \union {M(k, <<>>, is) : k \in {"error_response", "notice_response"},
                           is \in {<<>>, <<<<83, A>>, <<76, <<49, 50>>>>, <<83, BC2>>>>}}
  \union {M("negotiate_protocol_version", <<2>>, is) : is \in {<<>>, <<<<A>>, <<BC2>>>>}}
  \union {M("row_description", <<>>, is) :
            is \in {<<>>, <<<<A, 1, 2, 23, -1, -1, 0>>, <<<<>>, 0, 0, 300, 4, 5, 1>>>>}}
  \union {M("command_complete", <<t>>, <<>>) : t \in Tags}

----------------------------------------------------------------------------
V(oid, vs) == {[oid |-> oid, v |-> <<v>>] : v \in vs}

\* A leap day, the ends of eras and of the years of std::chrono.
Dates == {<<2024, 2, 29>>, <<1999, 12, 31>>, <<0, 3, 15>>, <<-43, 3, 1>>, <<1, 1, 1>>,
          <<32767, 12, 31>>, <<1900, 3, 1>>}

\* Midnight, fractions with zeros on either side, and 24:00:00.
Times == {<<0, 0, 0>>, <<0, 3723, 120000>>, <<0, 86399, 999999>>, <<0, 1, 1>>, <<1, 0, 0>>}

Offsets == {0, 7200, -34200, 19800, -57540, 3601}

IntervalTimes ==
  Times \union {<<-1, 86399, 0>>, <<-1, 82677, 880000>>, <<1, 3600, 0>>, <<-1, 0, 0>>}

Wholes == {<<0>>, <<1, 0>>, <<9, 9, 9, 9>>, <<1, 2, 0, 0, 0>>, <<1, 2, 3, 4, 5>>}
Fractions == {<<>>, <<0, 5>>, <<0, 0, 0, 1, 2>>, <<2, 0>>, <<0, 0, 0, 0>>}

\* There is no negative zero.
Numerics ==
  [neg : BOOLEAN, int : Wholes, frac : Fractions]
    \ [neg : {TRUE}, int : {<<0>>}, frac : {<<>>, <<0, 0, 0, 0>>}]

ValuesDef ==
  V(BoolOid, BOOLEAN)
  \union V(Int2Oid, {0, 7, -32768, 32767}) \union V(Int4Oid, {0, -40000, 2147483647})
  \union V(Int8Oid, {-1, 65536}) \union V(OidOid, {0, 23})
  \union V(TextOid, {<<>>, <<97, 0>>}) \union V(VarcharOid, {A})
  \union V(ByteaOid, {<<>>, <<0, 255, 18>>}) \union V(CharOid, {0, 65})
  \union V(JsonOid, {<<49>>}) \union V(JsonbOid, {<<49>>})
  \union V(DateOid, Dates) \union V(TimeOid, Times)
  \union V(TimetzOid, [time : Times, offset : Offsets])
  \union V(TimestampOid, [date : Dates, time : Times])
  \union V(TimestamptzOid, [date : Dates, time : Times \ {<<1, 0, 0>>}, offset : Offsets])
  \union V(IntervalOid, [months : {0, 1, -1, 14, -14, 12, 120}, days : {0, 1, -1, 3}, time : IntervalTimes])
  \union V(NumericOid, Numerics)
  \union {[oid |-> Int4Oid, v |-> <<>>]}

----------------------------------------------------------------------------
Param(oid, v) == [oid |-> oid, value |-> v]

\* Up to one more than Int16Max, one longer than Int32Max, and one of a type whose
\* serialiser fails.
ParamListsDef ==
  {<<>>, <<Param(Int2Oid, -2), Param(TextOid, A)>>, <<Param(Int8Oid, 300)>>,
   <<Param(9999, <<1>>), Param(Int4Oid, 5)>>, [i \in 1..3 |-> Param(TextOid, <<>>)],
   <<Param(TextOid, [i \in 1..61 |-> 97])>>}

NamesDef == {<<>>, <<115>>}
TextsDef == {<<113, 49>>}
FormatListsDef == {<<"text", "binary">>, <<"binary", "text", "text">>}

StartupMsg(user, database, params) ==
  [type |-> "startup_message", user |-> user, database |-> database, params |-> params]

AloneDef ==
  {[type |-> "terminate"], [type |-> "copy_done"], [type |-> "copy_fail", error |-> <<101>>],
   [type |-> "password", password |-> <<112, 119>>],
   StartupMsg(<<117>>, <<>>, <<>>), StartupMsg(<<117>>, <<<<100>>>>, <<<<A, <<98>>>>>>),
   StartupMsg([i \in 1..60 |-> 117], <<<<100>>>>, <<<<A, <<98>>>>>>),
   [type |-> "cancel_request", pid |-> 1, key |-> -7]}

----------------------------------------------------------------------------
SecretsDef ==
  {<<>>, <<0>>, <<255>>, <<77, 97>>, <<251, 255>>, <<77, 97, 110>>, <<0, 16, 131, 16>>,
   <<255, 238, 1, 2, 190>>, <<1, 2, 3, 4, 5, 6>>}

\* 00000, 22001, 01004, 38003, HV00Z, 39004 and ZZZZZ
CodesDef ==
  {<<48, 48, 48, 48, 48>>, <<50, 50, 48, 48, 49>>, <<48, 49, 48, 48, 52>>, <<51, 56, 48, 48, 51>>,
   <<72, 86, 48, 48, 90>>, <<51, 57, 48, 48, 52>>, <<90, 90, 90, 90, 90>>}

BeforeDef == <<7, 8>>
=============================================================================
