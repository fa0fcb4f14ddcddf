----------------------------- MODULE MessageIn -----------------------------
(***************************************************************************)
(* One message of the server on its way to the client: sent whole or       *)
(* damaged, received in pieces, parsed, and its view walked item by item.  *)
(***************************************************************************)
EXTENDS BackendMessages

CONSTANTS
  Messages,  \* what servers send: a kind, its plain fields and the items of its list
  BadBytes   \* what a byte of a damaged body may become

VARIABLES
  msg,      \* the message that the server means
  body,     \* the body that it sends
  damage,   \* "none", "cut", "extra" or "altered"
  arrived,  \* how many bytes of the frame the client has
  result,   \* parse_message_result of the last call
  it,       \* the position of the iterator over the view
  items     \* what the iterator has returned

messageVars == <<msg, body, damage, arrived, result, it, items>>

\* How PostgreSQL writes strings, items and messages.
CString(s) == Append(s, 0)

WriteItem(item, v) ==
  CASE item = "string" -> CString(v[1])
    [] item = "field_view" -> IF v = <<>> THEN StoreBig(-1, 4) ELSE StoreBig(Len(v[1]), 4) \o v[1]
    [] item = "format_code" -> StoreBig(v[1], 2)
    [] item = "oid" -> StoreBig(v[1], 4)
    [] item = "error_field" -> <<v[1]>> \o CString(v[2])
    [] item = "field_description" ->
         CString(v[1]) \o StoreBig(v[2], 4) \o StoreBig(v[3], 2) \o StoreBig(v[4], 4)
           \o StoreBig(v[5], 2) \o StoreBig(v[6], 4) \o StoreBig(v[7], 2)

WriteItems(item, vs) == FlattenSeq([i \in 1..Len(vs) |-> WriteItem(item, vs[i])])

Body(m) ==
  LET f == m.fields
      n(width) == StoreBig(Len(m.items), width)
  IN  CASE m.kind \in EmptyBodies -> <<>>
        [] m.kind \in OpenBodies \union {"authentication_md5_password"} -> f[1]
        [] m.kind = "authentication_sasl" -> CString(WriteItems("string", m.items))
        [] m.kind = "backend_key_data" -> StoreBig(f[1], 4) \o StoreBig(f[2], 4)
        [] m.kind = "command_complete" -> CString(f[1])
        [] m.kind \in {"copy_in_response", "copy_out_response", "copy_both_response"} ->
             f \o n(2) \o WriteItems("format_code", m.items)
        [] m.kind = "data_row" -> n(2) \o WriteItems("field_view", m.items)
        [] m.kind \in {"error_response", "notice_response"} -> CString(WriteItems("error_field", m.items))
        [] m.kind = "negotiate_protocol_version" -> StoreBig(f[1], 4) \o n(4) \o WriteItems("string", m.items)
        [] m.kind = "notification_response" -> StoreBig(f[1], 4) \o CString(f[2]) \o CString(f[3])
        [] m.kind = "parameter_description" -> n(2) \o WriteItems("oid", m.items)
        [] m.kind = "parameter_status" -> CString(f[1]) \o CString(f[2])
        [] m.kind = "ready_for_query" -> f
        [] m.kind = "row_description" -> n(2) \o WriteItems("field_description", m.items)

AuthCodes == DOMAIN AuthenticationMessageType

\* The type byte, and what precedes the body of an authentication request.
TypeByte(kind) ==
  IF \E t \in AuthCodes : AuthenticationMessageType[t] = kind THEN AuthenticationRequest
  ELSE CHOOSE t \in DOMAIN BackendMessageType : BackendMessageType[t] = kind

Prefix(kind) ==
  IF TypeByte(kind) # AuthenticationRequest THEN <<>>
  ELSE StoreBig(CHOOSE t \in AuthCodes : AuthenticationMessageType[t] = kind, 4)

Frame == <<TypeByte(msg.kind)>> \o StoreBig(Len(body) + 4, 4) \o body
----------------------------------------------------------------------------
MessageInit ==
  /\ msg \in Messages
  /\ body = Prefix(msg.kind) \o Body(msg)
  /\ damage = "none" /\ arrived = 0
  /\ result = Fails("needs_more", 5)
  /\ it = 0 /\ items = <<>>

Damage(how, b) ==
  /\ damage = "none" /\ arrived = 0
  /\ damage' = how /\ body' = b
  /\ UNCHANGED <<msg, arrived, result, it, items>>

ServerCutsShort == \E n \in Len(Prefix(msg.kind))..Len(body) - 1 : Damage("cut", SubSeq(body, 1, n))

ServerAddsBytes == \E x \in BadBytes : Damage("extra", Append(body, x))

ServerAlters ==
  \E i \in Len(Prefix(msg.kind)) + 1..Len(body), x \in BadBytes :
    x # body[i] /\ Damage("altered", [body EXCEPT ![i] = x])

\* A read that ends anywhere for a message as it should be, and parse_message()
\* of what there is.  The iterator starts at begin().
Receive ==
  /\ result.ec = "needs_more"
  /\ \E n \in arrived + 1..Len(Frame) :
       /\ damage # "none" => n = Len(Frame)
       /\ arrived' = n
       /\ result' = ParseMessage(SubSeq(Frame, 1, n))
       /\ it' = result'.message.view.first
  /\ UNCHANGED <<msg, body, damage, items>>

\* What follows the authentication code is the data that the views point to.
Data == SubSeq(body, Len(Prefix(msg.kind)) + 1, Len(body))

TheView == As(result.message, result.message.kind).view

\* *it, ++it, for an iterator that is not end().
Walk ==
  /\ result.ec = "ok" /\ it # TheView.last
  /\ ReadsUpTo(TheView.item, Data, it) <= Len(Data)
  /\ items' = Append(items, Dereference(TheView.item, Data, it))
  /\ it' = NextItem(TheView.item, Data, it)
  /\ UNCHANGED <<msg, body, damage, arrived, result>>

MessageNext ==
  \/ ServerCutsShort \/ ServerAddsBytes \/ ServerAlters \/ Receive \/ Walk

MessageSpec == MessageInit /\ [][MessageNext]_messageVars
----------------------------------------------------------------------------
Walked == result.ec = "ok" /\ it = TheView.last

\* What the client should have of a message: what was written, of error fields of
\* the same type the last.
ErrorFields(vs) ==
  [t \in ErrorFieldTypes |->
     LET at == {i \in 1..Len(vs) : vs[i][1] = t} IN IF at = {} THEN <<>> ELSE <<vs[Max(at)][2]>>]

Expected(m) ==
  CASE m.kind \in {"error_response", "notice_response"} -> <<m.kind, <<ErrorFields(m.items)>>, <<>>>>
    [] OTHER -> <<m.kind, m.fields, m.items>>

\* Type correctness: the client has part of the frame, and the iterator is in the body.
MessageTypeOK ==
  /\ msg \in Messages
  /\ body \in Seq(0..255)
  /\ damage \in {"none", "cut", "extra", "altered"}
  /\ arrived \in 0..Len(Frame)
  /\ it \in 0..Len(body)
  /\ Len(items) <= Len(body)

\* A message that PostgreSQL writes is parsed when its last byte is there, and
\* its fields and the items of its view, read one by one from the body, are the
\* ones that were written (parse() and the traits of the views).
RoundTrip ==
  damage = "none" /\ arrived = Len(Frame) =>
    /\ result.ec = "ok" /\ result.size = Len(Frame)
    /\ Walked => <<result.message.kind, result.message.fields, items>> = Expected(msg)
    /\ msg.kind \in {"error_response", "notice_response"} =>
         LET lines == {v \in ToSet(msg.items) : v[1] = LineNumber}
         IN  {<<LineNumber, ToChars(n)>> : n \in ToSet(ParsedLineNumber(result.message.fields[1]))}
               = {v \in lines : v[2] # <<>>}

\* parse_message() asks for more until the last byte of the frame arrives, and
\* never for more bytes than are missing: it would wait for the next message.
PiecesAddUp ==
  /\ result.ec = "needs_more" <=> arrived < Len(Frame)
  /\ result.ec = "needs_more" => result.size \in 1..Len(Frame) - arrived

\* A body that ends too soon is always reported as incomplete and one that goes
\* on as having extra bytes, wherever the cut is: the first error of a
\* parse_context stays, although the functions go on parsing.
DamageReported ==
  result.ec # "needs_more" /\ msg.kind \notin OpenBodies =>
    /\ damage = "cut" => result.ec = "incomplete_message"
    /\ damage = "extra" => result.ec = "extra_bytes"

\* parse() checks a body well enough for the iterators that read it without any
\* check: however it was damaged, they stay in it, meet end() and return as many
\* items as size() says, the same ones as at().
WalkStaysInside ==
  result.ec = "ok" =>
    /\ it # TheView.last => /\ it < TheView.last
                            /\ ReadsUpTo(TheView.item, Data, it) <= TheView.last
    /\ it = TheView.last => Len(items) = TheView.size
    /\ TheView.item = "format_code" =>
         \A i \in 1..Len(items) : At(TheView, Data, i - 1) = items[i]

\* A body that is accepted, damaged or not, says exactly what the client makes of
\* it: writing that again gives the same bytes.  (Errors and notices may have
\* fields that the client does not know.)
AcceptsOnlyEncodings ==
  Walked /\ msg.kind \notin {"error_response", "notice_response"} =>
    Body([kind |-> result.message.kind, fields |-> result.message.fields, items |-> items]) = Data

\* The rows that parse_command_complete_tag() finds are the last word of the tag,
\* of a command that counts rows: a tag as the server writes it always has them,
\* the name of another command never, and a damaged one only if it still ends in
\* a number.
RowsOfTheTag ==
  result.ec = "ok" /\ result.message.kind = "command_complete" =>
    LET tag == result.message.fields[1]
        rows == ParseCommandCompleteTag(tag)
        words == {w \in RowCommands \union {Insert} : IsPrefix(Append(w, 32), tag)}
        spaces == {i \in 1..Len(tag) : tag[i] = 32}
        end == SubSeq(tag, Max(spaces) + 1, Len(tag))
        isNumber == end # <<>> /\ \A i \in 1..Len(end) : IsDigit(end[i])
    IN  /\ words = {} => rows.output = <<>>
        /\ words # {} =>
             /\ rows.output # <<>> => isNumber
             /\ isNumber /\ rows.output # <<>> => rows = TagRows("ok", <<FromChars(end, 0, 0, 2147483647).value>>)
             /\ damage = "none" => rows.output # <<>>

\* Every variable has its type, and a message of the server is read as it was
\* written, with all its fields and items, however it is cut into pieces.
MessagesAreRead == MessageTypeOK /\ RoundTrip /\ PiecesAddUp

\* describe.hpp:58 says of parameter_description: "The type OIDs of the statement
\* parameters, one for each parameter".  So the client that has read one has the
\* types that the server wrote.
ParametersAreDescribed ==
  damage = "none" /\ msg.kind = "parameter_description" /\ Walked => items = msg.items

\* A damaged message is either refused, for what is wrong with it, or says
\* exactly what the client makes of it.
DamageIsRefused == DamageReported /\ AcceptsOnlyEncodings /\ RowsOfTheTag

=============================================================================
