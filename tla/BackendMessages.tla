-------------------------- MODULE BackendMessages --------------------------
(***************************************************************************)
(* How the body of a message of the backend becomes an any_backend_message *)
(* and how its views are read afterwards: parse_context, the parse()       *)
(* functions of messages.cpp and the traits of views.hpp.  A body is a     *)
(* sequence of bytes; a position is a number of bytes from its start.      *)
(***************************************************************************)
EXTENDS Bytes

----------------------------------------------------------------------------
(* parse_context: a cursor that keeps its first error; got collects what   *)
(* the getters returned.                                                   *)

Context(b) == [data |-> b, first |-> 0, ec |-> "ok", got |-> <<>>]

Size(c) == Len(c.data) - c.first

LastErrorWins(c, e) == [c EXCEPT !.ec = e]  \* mutant: an error replaces the one before

AddError(c, e) == [c EXCEPT !.ec = IF @ = "ok" THEN e ELSE @]

Advance(c, n) == [c EXCEPT !.first = @ + n]

Gives(c, v) == [c EXCEPT !.got = Append(@, v)]

\* get_byte, get_integral and get_byte_array: n bytes as conv reads them.
Get(c, n, conv(_), otherwise) ==
  IF Size(c) < n THEN Gives(AddError(c, "incomplete_message"), otherwise)
  ELSE IF c.ec # "ok" THEN Gives(c, otherwise)
  ELSE Gives(Advance(c, n), conv(SubSeq(c.data, c.first + 1, c.first + n)))

GetByte(c) == Get(c, 1, LAMBDA b : b[1], 0)

GetIntegral(c, width) == Get(c, width, LoadBig, 0)

GetByteArray(c, n) == Get(c, n, LAMBDA b : b, [i \in 1..n |-> 0])

\* What a getter gave must be in a set; otherwise it is an error, and the value is v.
Expect(c, S, v) ==
  IF Last(c.got) \in S THEN c
  ELSE AddError([c EXCEPT !.got = Append(Front(@), v)], "protocol_value_error")

NegativeIsZero(c, width) ==  \* mutant: a negative count is not reported
  Get(c, width, LAMBDA b : Max({0, LoadBig(b)}), 0)

GetNonnegative(c, width) == Expect(GetIntegral(c, width), Nat, 0)

\* The first NULL byte after position p, or past the end when there is none.
NullAt(b, p) ==
  LET nulls == {i \in p + 1..Len(b) : b[i] = 0}
  IN  IF nulls = {} THEN Len(b) + 1 ELSE Min(nulls)

StringAt(b, p) == SubSeq(b, p + 1, NullAt(b, p) - 1)

GetString(c) ==
  IF c.ec # "ok" THEN Gives(c, <<>>)
  ELSE IF NullAt(c.data, c.first) > Len(c.data)
       THEN Gives(AddError(c, "incomplete_message"), <<>>)
  ELSE Gives([c EXCEPT !.first = NullAt(c.data, @)], StringAt(c.data, c.first))

CheckSizeAndAdvance(c, n) ==
  IF n > Size(c) THEN AddError(c, "incomplete_message") ELSE Advance(c, n)

Check(c) == IF Size(c) # 0 THEN AddError(c, "extra_bytes") ELSE c

\* A loop over n items; nothing that it does after a failure can be seen.
Repeat(n, step(_), c) ==
  LET RECURSIVE Go(_, _)
      Go(i, d) == IF i = 0 \/ d.ec # "ok" THEN d ELSE Go(i - 1, step(d))
  IN  Go(n, c)

----------------------------------------------------------------------------
(* The overloads of parse().  A message holds plain fields, and at most one *)
(* view: items of a type between two positions of the body.                 *)

NoView == [item |-> "none", size |-> 0, first |-> 0, last |-> 0]

View(item, n, from, to) ==
  [item |-> item, size |-> n, first |-> from.first, last |-> to.first]

Parsed(c, fields, view) == [ec |-> Check(c).ec, fields |-> fields, view |-> view]

FieldsOf(c) == Parsed(c, c.got, NoView)

CheckEmpty(b) == FieldsOf(Context(b))

AllOf(b) == [ec |-> "ok", fields |-> <<b>>, view |-> NoView]

ValidStatuses == {73, 84, 69}  \* 'I', 'T', 'E'

FormatCodes == {0, 1}

\* A list of items of the size that n gave last, each read by step.
ListOf(item, n, step(_)) ==
  LET List(c) == Parsed(c, Front(n.got), View(item, Last(n.got), n, c))
  IN  List(Repeat(Last(n.got), step, n))

ParseReadyForQuery(b) == FieldsOf(Expect(GetByte(Context(b)), ValidStatuses, 0))

ParseSasl(b) ==
  LET RECURSIVE Strings(_)
      Strings(c) == LET More(d) == IF Last(d.got) = <<>> THEN d ELSE Strings(d) IN More(GetString(c))
      List(c) == Parsed(c, <<>>, [View("string", Len(c.got) - 1, Context(b), c) EXCEPT
                                    !.last = IF @ > 0 THEN @ - 1 ELSE 0])
  IN  List(Strings(Context(b)))

\* In a text COPY every column is text.
ParseCopyResponse(b) ==
  LET Formats(c) == IF c.got[1] = 0 THEN {0} ELSE FormatCodes
      Code(c) == Expect(GetIntegral(c, 2), Formats(c), 0)
      Rest(c) == IF c.ec # "ok" THEN FieldsOf(c)
                 ELSE ListOf("format_code", GetNonnegative(c, 2), Code)
  IN  Rest(Expect(GetByte(Context(b)), FormatCodes, 0))

NegativeSizes(b) ==  \* mutant: any negative size passes for a NULL
  LET Value(c) == IF Last(c.got) < 0 THEN c ELSE CheckSizeAndAdvance(c, Last(c.got))
      Column(c) == Value(GetIntegral(c, 4))
  IN  ListOf("field_view", GetNonnegative(Context(b), 2), Column)

ParseDataRow(b) ==
  LET Value(c) == IF Last(c.got) = -1 THEN c
                  ELSE IF Last(c.got) >= 0 THEN CheckSizeAndAdvance(c, Last(c.got))
                  ELSE AddError(c, "protocol_value_error")
      Column(c) == Value(GetIntegral(c, 4))
  IN  ListOf("field_view", GetNonnegative(Context(b), 2), Column)

ParseNegotiate(b) ==
  ListOf("string", GetNonnegative(GetNonnegative(Context(b), 4), 4), GetString)

\* The view of the types is never assigned: only the size of the body is checked.
ParseParameterDescription(b) ==
  LET Types(n) == Parsed(CheckSizeAndAdvance(n, n.got[1] * 4), <<>>, NoView)
  IN  Types(GetNonnegative(Context(b), 2))

FieldDescriptionFixedSize == 18

ParseRowDescription(b) ==
  LET Item(c) == Expect(GetIntegral(CheckSizeAndAdvance(GetString(c), FieldDescriptionFixedSize - 2), 2),
                        FormatCodes, 0)
  IN  ListOf("field_description", GetNonnegative(Context(b), 2), Item)

\* error_field_type: S V C M D H P p q W s t c d n F L R.
ErrorFieldTypes == {83, 86, 67, 77, 68, 72, 80, 112, 113, 87, 115, 116, 99, 100, 110, 70, 76, 82}

FirstValueStays(c, type, to) ==  \* mutant: the fields share one string
  LET Store(d) == [c |-> d, to |-> [t \in DOMAIN to |-> <<Last(d.got)>>]]
  IN  IF type \notin ErrorFieldTypes THEN [c |-> c, to |-> to] ELSE Store(GetString(c))

\* Only a type that is known has its string read.
PopulateField(c, type, to) ==
  LET Store(d) == [c |-> d, to |-> [to EXCEPT ![type] = <<Last(d.got)>>]]
  IN  IF type \notin ErrorFieldTypes THEN [c |-> c, to |-> to] ELSE Store(GetString(c))

ParseErrorNotice(b) ==
  LET RECURSIVE Loop(_)
      Loop(s) == LET Field(c) == IF Last(c.got) = 0 THEN [s EXCEPT !.c = c]
                                 ELSE Loop(PopulateField(c, Last(c.got), s.to))
                 IN  Field(GetByte(s.c))
      Fields(s) == Parsed(s.c, <<s.to>>, NoView)
  IN  Fields(Loop([c |-> Context(b), to |-> [t \in ErrorFieldTypes |-> <<>>]]))

LineNumber == 76  \* 'L'

\* parsed_line_number(): <<n>>, or <<>> unless the whole field is a number.
ParsedLineNumber(to) ==
  LET n == FromChars(to[LineNumber][1], 0, 0, 2147483647)
  IN  IF to[LineNumber] = <<>> THEN <<>>
      ELSE IF n.ec # "ok" \/ n.ptr # Len(to[LineNumber][1]) THEN <<>> ELSE <<n.value>>

EmptyBodies ==
  {"authentication_ok", "authentication_kerberos_v5", "authentication_cleartext_password",
   "authentication_gss", "authentication_sspi", "bind_complete", "close_complete", "copy_done",
   "empty_query_response", "no_data", "parse_complete", "portal_suspended"}

OpenBodies ==
  {"authentication_gss_continue", "authentication_sasl_continue", "authentication_sasl_final", "copy_data"}

Parse(kind, b) ==
  CASE kind \in EmptyBodies -> CheckEmpty(b)
    [] kind \in OpenBodies -> AllOf(b)
    [] kind = "authentication_md5_password" -> FieldsOf(GetByteArray(Context(b), 4))
    [] kind = "authentication_sasl" -> ParseSasl(b)
    [] kind = "backend_key_data" -> FieldsOf(GetIntegral(GetIntegral(Context(b), 4), 4))
    [] kind = "command_complete" -> FieldsOf(GetString(Context(b)))
    [] kind \in {"copy_in_response", "copy_out_response", "copy_both_response"} -> ParseCopyResponse(b)
    [] kind = "data_row" -> ParseDataRow(b)
    [] kind \in {"error_response", "notice_response"} -> ParseErrorNotice(b)
    [] kind = "negotiate_protocol_version" -> ParseNegotiate(b)
    [] kind = "notification_response" -> FieldsOf(GetString(GetString(GetIntegral(Context(b), 4))))
    [] kind = "parameter_description" -> ParseParameterDescription(b)
    [] kind = "parameter_status" -> FieldsOf(GetString(GetString(Context(b))))
    [] kind = "ready_for_query" -> ParseReadyForQuery(b)
    [] kind = "row_description" -> ParseRowDescription(b)

----------------------------------------------------------------------------
(* any_backend_message: a kind, and the message of that kind.              *)

NoMessage == [kind |-> "none", fields |-> <<>>, view |-> NoView]

AnyMessage(kind, msg) == [kind |-> kind, fields |-> msg.fields, view |-> msg.view]

\* The checked getters as_<kind>() throw on any other kind; get_<kind>() asserts.
As(any, kind) == IF any.kind = kind THEN any ELSE [NoMessage EXCEPT !.kind = "invalid_argument"]

\* parse_any_message_impl()
ParseInto(kind, b) ==
  LET Into(msg) == IF msg.ec # "ok" THEN [ec |-> msg.ec, message |-> NoMessage]
                   ELSE [ec |-> "ok", message |-> AnyMessage(kind, msg)]
  IN  Into(Parse(kind, b))

\* authentication_message_type
AuthenticationMessageType ==
  0 :> "authentication_ok" @@ 2 :> "authentication_kerberos_v5" @@
  3 :> "authentication_cleartext_password" @@ 5 :> "authentication_md5_password" @@
  7 :> "authentication_gss" @@ 8 :> "authentication_gss_continue" @@ 9 :> "authentication_sspi" @@
  10 :> "authentication_sasl" @@ 11 :> "authentication_sasl_continue" @@ 12 :> "authentication_sasl_final"

\* backend_message_type, but for 'R': the byte of each kind.
BackendMessageType ==
  75 :> "backend_key_data" @@ 50 :> "bind_complete" @@ 51 :> "close_complete" @@
  67 :> "command_complete" @@ 100 :> "copy_data" @@ 99 :> "copy_done" @@ 71 :> "copy_in_response" @@
  72 :> "copy_out_response" @@ 87 :> "copy_both_response" @@ 68 :> "data_row" @@
  73 :> "empty_query_response" @@ 69 :> "error_response" @@ 118 :> "negotiate_protocol_version" @@
  110 :> "no_data" @@ 78 :> "notice_response" @@ 65 :> "notification_response" @@
  116 :> "parameter_description" @@ 83 :> "parameter_status" @@ 49 :> "parse_complete" @@
  115 :> "portal_suspended" @@ 90 :> "ready_for_query" @@ 84 :> "row_description"

AuthenticationRequest == 82  \* 'R'

ParseAuthenticationRequest(b) ==
  IF Len(b) < 4 THEN [ec |-> "incomplete_message", message |-> NoMessage]
  ELSE LET type == LoadBig(SubSeq(b, 1, 4))
       IN  IF type \in DOMAIN AuthenticationMessageType
           THEN ParseInto(AuthenticationMessageType[type], SubSeq(b, 5, Len(b)))
           ELSE [ec |-> "protocol_value_error", message |-> NoMessage]

ParseAnyMessage(type, b) ==
  IF type = AuthenticationRequest THEN ParseAuthenticationRequest(b)
  ELSE IF type \in DOMAIN BackendMessageType THEN ParseInto(BackendMessageType[type], b)
  ELSE [ec |-> "protocol_value_error", message |-> NoMessage]

----------------------------------------------------------------------------
(* The header: a type byte and a length that counts itself but not the type. *)

ParseHeader(b) ==
  LET size == LoadBig(SubSeq(b, 2, 5))
  IN  IF size < 4 THEN [ec |-> "protocol_value_error", type |-> 0, size |-> 0]
      ELSE [ec |-> "ok", type |-> b[1], size |-> size]

Fails(ec, n) == [ec |-> ec, message |-> NoMessage, size |-> n]

\* The frame: a header, and required bytes in all.
ParseFrame(b, header, required) ==
  LET Result(any) == IF any.ec # "ok" THEN Fails(any.ec, 0)
                     ELSE [ec |-> "ok", message |-> any.message, size |-> required]
  IN  IF header.ec # "ok" THEN Fails(header.ec, 0)
      ELSE IF Len(b) < required THEN Fails("needs_more", required - Len(b))
      ELSE Result(ParseAnyMessage(header.type, SubSeq(b, 6, required)))

LengthCountsTheType(b) ==  \* mutant: the type byte is taken to be in the length
  LET Go(header) == ParseFrame(b, header, header.size)
  IN  IF Len(b) < 5 THEN Fails("needs_more", 5 - Len(b)) ELSE Go(ParseHeader(b))

ParseMessage(b) ==
  LET Go(header) == ParseFrame(b, header, header.size + 1)
  IN  IF Len(b) < 5 THEN Fails("needs_more", 5 - Len(b)) ELSE Go(ParseHeader(b))

----------------------------------------------------------------------------
(* views.hpp: the iterators of forward_parsing_view and                    *)
(* random_access_parsing_view read the body again, without checks.         *)

IntAt(b, p, width) == LoadBig(SubSeq(b, p + 1, p + width))

\* forward_traits::advance; for the fixed-size items, data_ += sizeof(T).
NextItem(item, b, p) ==
  CASE item = "string" -> NullAt(b, p)
    [] item = "field_view" -> p + 4 + Max({0, IntAt(b, p, 4)})
    [] item = "field_description" -> NullAt(b, p) + FieldDescriptionFixedSize
    [] item = "format_code" -> p + 2

\* How far dereference reads: a negative size is a huge std::size_t.
ReadsUpTo(item, b, p) ==
  IF item = "field_view" /\ (p + 4 > Len(b) \/ IntAt(b, p, 4) < -1) THEN Len(b) + 1
  ELSE NextItem(item, b, p)

Dereference(item, b, p) ==
  CASE item = "string" -> <<StringAt(b, p)>>
    [] item = "field_view" ->
         IF IntAt(b, p, 4) = -1 THEN <<>> ELSE <<SubSeq(b, p + 5, p + 4 + IntAt(b, p, 4))>>
    [] item = "field_description" ->
         LET q == NullAt(b, p)
         IN  <<StringAt(b, p), IntAt(b, q, 4), IntAt(b, q + 4, 2), IntAt(b, q + 6, 4),
               IntAt(b, q + 10, 2), IntAt(b, q + 12, 4), IntAt(b, q + 16, 2)>>
    [] item = "format_code" -> <<IntAt(b, p, 2)>>

\* at_range_check() of at(i), and operator[](i) otherwise: <<>> when it throws.
At(view, b, i) ==
  IF i >= view.size THEN <<>> ELSE Dereference(view.item, b, view.first + 2 * i)

----------------------------------------------------------------------------
(* parse_command_complete_tag().  The row counts of the model stay below   *)
(* 2^31, so that the 64 bits of the code are never exceeded.               *)

Insert == <<73, 78, 83, 69, 82, 84>>

\* DELETE, UPDATE, MERGE, SELECT, MOVE, FETCH and COPY.
RowCommands ==
  {<<68, 69, 76, 69, 84, 69>>, <<85, 80, 68, 65, 84, 69>>, <<77, 69, 82, 71, 69>>, <<83, 69, 76, 69, 67, 84>>,
   <<77, 79, 86, 69>>, <<70, 69, 84, 67, 72>>, <<67, 79, 80, 89>>}

SkipPrefix(tag, prefix) == IF IsPrefix(prefix, tag) THEN <<Len(prefix)>> ELSE <<>>

TagRows(ec, output) == [ec |-> ec, output |-> output]

ParseAffectedRows(tag, p) ==
  LET r == FromChars(tag, p, 0, 2147483647)
  IN  IF r.ec # "ok" THEN TagRows(r.ec, <<>>)
      ELSE IF r.ptr # Len(tag) THEN TagRows("extra_bytes", <<>>)
      ELSE TagRows("ok", <<r.value>>)

\* mutant: the first number is taken, which is the oid of an INSERT.
TakesTheOid(tag) ==
  LET prefixes == {w \in RowCommands \union {Insert} : IsPrefix(w, tag)}
      p == Len(CHOOSE w \in prefixes : TRUE)
  IN  IF prefixes = {} THEN TagRows("ok", <<>>)
      ELSE IF p = Len(tag) THEN TagRows("incomplete_message", <<>>)
      ELSE IF tag[p + 1] # 32 THEN TagRows("ok", <<>>)
      ELSE ParseAffectedRows(tag, p + 1)

\* The name of the command, a space, for INSERT an oid and a space, and the rows.
ParseCommandCompleteTag(tag) ==
  LET prefixes == {w \in RowCommands \union {Insert} : SkipPrefix(tag, w) # <<>>}
      word == CHOOSE w \in prefixes : TRUE
      p == SkipPrefix(tag, word)[1]
      afterOid == {i \in p + 2..Len(tag) : tag[i] = 32}
  IN  IF prefixes = {} THEN TagRows("ok", <<>>)
      ELSE IF p = Len(tag) THEN TagRows("incomplete_message", <<>>)
      ELSE IF tag[p + 1] # 32 THEN TagRows("ok", <<>>)
      ELSE IF word # Insert THEN ParseAffectedRows(tag, p + 1)
      ELSE IF afterOid = {} THEN TagRows("incomplete_message", <<>>)
      ELSE ParseAffectedRows(tag, Min(afterOid))
=============================================================================
