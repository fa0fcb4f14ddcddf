-------------------------- MODULE FrontendMessages --------------------------
(***************************************************************************)
(* How the messages of the client are written: serialization_context,      *)
(* bind_context and the overloads of serialize() in messages.cpp.  They    *)
(* append to a buffer that may already hold other messages.                *)
(***************************************************************************)
EXTENDS FieldTypes

CONSTANTS
  Int16Max,  \* the most parameters, types and format codes of a message
  Int32Max   \* the longest parameter and message, in bytes

\* What a serialize() returns: an error, and the buffer as it is then.
Wrote(buffer, ec) == [buffer |-> buffer, ec |-> ec]

----------------------------------------------------------------------------
(* serialization_context: header is header_offset_, -1 when there is none. *)

SerializationContext(to) == [buffer |-> to, header |-> -1, err |-> "ok"]

KeepFirst(err, ec) == IF err = "ok" THEN ec ELSE err

AddSerializationError(c, ec) == [c EXCEPT !.err = KeepFirst(@, ec)]

AddBytes(c, b) == [c EXCEPT !.buffer = @ \o b]

AddByte(c, x) == AddBytes(c, <<x>>)

AddIntegral(c, n, width) == AddBytes(c, StoreBig(n, width))

AddString(c, s) == AddByte(AddBytes(c, s), 0)

AddHeader(c, type) ==
  AddBytes([c EXCEPT !.header = Len(c.buffer)], <<type, 0, 0, 0, 0>>)

\* A message that is too long is left without its length, and is no error.
FinalizeMessage(c) ==
  LET Sized(size) == IF size > Int32Max THEN c.buffer ELSE StoreAt(c.buffer, c.header + 1, StoreBig(size, 4))
  IN  IF c.err # "ok" THEN Wrote(c.buffer, c.err) ELSE Wrote(Sized(Len(c.buffer) - c.header - 1), "ok")

\* A loop over the items of a sequence.
ForEach(c, items, step(_, _)) == FoldLeft(step, c, items)

----------------------------------------------------------------------------
(* Bind: format codes, and parameters that a callback writes.              *)

FormatCode == [text |-> 0, binary |-> 1]

AllOfFormat(format) == [kind |-> IF format = "text" THEN "all_text" ELSE "all_binary", list |-> <<>>]

ListOfFormats(formats) == [kind |-> "list", list |-> formats]

SerializeFmtCodes(c, codes) ==
  CASE codes.kind = "all_text" -> AddIntegral(c, 0, 2)
    [] codes.kind = "all_binary" -> AddIntegral(AddIntegral(c, 1, 2), 1, 2)
    [] codes.kind = "list" ->
         IF Len(codes.list) > Int16Max THEN AddSerializationError(c, "value_too_big")
         ELSE ForEach(AddIntegral(c, Len(codes.list), 2), codes.list,
                      LAMBDA d, f : AddIntegral(d, FormatCode[f], 2))

NoOffset == -1

BindContext(buffer) == [buffer |-> buffer, count |-> 0, offset |-> NoOffset, err |-> "ok"]

NeverSized(b) == [b EXCEPT !.offset = NoOffset]  \* mutant: the size of a parameter stays 0

MaybeFinishParameter(b) ==
  LET size == Len(b.buffer) - b.offset - 4
  IN  IF b.offset = NoOffset THEN b
      ELSE IF size > Int32Max THEN [b EXCEPT !.err = KeepFirst(@, "value_too_big")]
      ELSE [b EXCEPT !.buffer = StoreAt(@, b.offset, StoreBig(size, 4)), !.offset = NoOffset]

StartParameter(b) ==
  LET Start(c) == [c EXCEPT !.count = @ + 1, !.offset = Len(c.buffer), !.buffer = @ \o <<0, 0, 0, 0>>]
  IN  Start(MaybeFinishParameter(b))

\* parameter_ref::serialize_text() and serialize_binary().  A type of the
\* program may have a serialiser that fails after it wrote something.
SerializeParameter(p, format) ==
  IF p.oid \in {Int2Oid, Int4Oid, Int8Oid}
  THEN Wrote(IF format = "binary" THEN SerializeBinaryInt(p.value, p.oid) ELSE SerializeTextInt(p.value), "ok")
  ELSE IF p.oid = TextOid THEN Wrote(p.value, "ok")
  ELSE Wrote(p.value, "custom_error")

\* The lambda of request::add_bind().
WriteParameters(b, params, format) ==
  LET Write(c, w) == [c EXCEPT !.buffer = @ \o w.buffer, !.err = IF w.ec = "ok" THEN @ ELSE KeepFirst(@, w.ec)]
  IN  ForEach(b, params, LAMBDA c, p : Write(StartParameter(c), SerializeParameter(p, format)))

SerializeParams(c, params, format) ==
  LET Finish(d, count) == IF count > Int16Max THEN AddSerializationError(d, "value_too_big")
                          ELSE [d EXCEPT !.buffer = StoreAt(@, Len(c.buffer), StoreBig(count, 2))]
      Written(b) == Finish([c EXCEPT !.buffer = b.buffer, !.err = KeepFirst(@, b.err)], b.count)
  IN  Written(MaybeFinishParameter(WriteParameters(BindContext(c.buffer \o <<0, 0>>), params, format)))

SerializeBind(msg, to) ==
  LET names == AddString(AddString(AddHeader(SerializationContext(to), 66), msg.portal), msg.statement)
      params == SerializeParams(SerializeFmtCodes(names, msg.paramCodes), msg.params, msg.paramFormat)
  IN  FinalizeMessage(SerializeFmtCodes(params, msg.resultCodes))

----------------------------------------------------------------------------
(* The other messages.                                                     *)

SerializeHeaderOnly(type, to) == Wrote(to \o <<type>> \o StoreBig(4, 4), "ok")

\* Describe and Close of a 'S'tatement or a 'P'ortal.
SerializeNamed(type, msg, to) ==
  FinalizeMessage(AddString(AddByte(AddHeader(SerializationContext(to), type), msg.what), msg.name))

LimitOffByOne(msg, to) ==  \* mutant: one type too many is let through
  LET c == AddString(AddString(AddHeader(SerializationContext(to), 80), msg.statement), msg.query)
  IN  IF Len(msg.oids) > Int16Max + 1 THEN Wrote(c.buffer, "value_too_big")
      ELSE FinalizeMessage(ForEach(AddIntegral(c, Len(msg.oids), 2), msg.oids,
                                   LAMBDA d, o : AddIntegral(d, o, 4)))

SerializeParse(msg, to) ==
  LET c == AddString(AddString(AddHeader(SerializationContext(to), 80), msg.statement), msg.query)
  IN  IF Len(msg.oids) > Int16Max THEN Wrote(c.buffer, "value_too_big")
      ELSE FinalizeMessage(ForEach(AddIntegral(c, Len(msg.oids), 2), msg.oids,
                                   LAMBDA d, o : AddIntegral(d, o, 4)))

SerializeExecute(msg, to) ==
  FinalizeMessage(AddIntegral(AddString(AddHeader(SerializationContext(to), 69), msg.portal), msg.rows, 4))

\* Query, Password and CopyFail: one string.
SerializeString(type, s, to) == FinalizeMessage(AddString(AddHeader(SerializationContext(to), type), s))

\* Messages without a type byte.  The length of a startup message is written last.
LengthWithoutItself(msg, to) ==  \* mutant: the length does not count its own bytes
  LET c == AddIntegral(AddBytes(SerializationContext(to), <<0, 0, 0, 0>>), 196608, 4)
      buffer == AddByte(ForEach(c, <<<<117, 115, 101, 114>>, msg.user>>, AddString), 0).buffer
  IN  Wrote(StoreAt(buffer, Len(to), StoreBig(Len(buffer) - Len(to) - 4, 4)), "ok")

SerializeStartup(msg, to) ==
  LET strings == <<<<117, 115, 101, 114>>, msg.user>>
                   \o (IF msg.database = <<>> THEN <<>>
                       ELSE <<<<100, 97, 116, 97, 98, 97, 115, 101>>, msg.database[1]>>)
                   \o FlattenSeq(msg.params)
      c == AddIntegral(AddBytes(SerializationContext(to), <<0, 0, 0, 0>>), 196608, 4)
      Sized(buffer) == IF Len(buffer) - Len(to) > Int32Max THEN Wrote(buffer, "value_too_big")
                       ELSE Wrote(StoreAt(buffer, Len(to), StoreBig(Len(buffer) - Len(to), 4)), "ok")
  IN  Sized(AddByte(ForEach(c, strings, AddString), 0).buffer)

\* finalize_message() stores a length at the front of the whole buffer.
SerializeCancelRequest(msg, to) ==
  FinalizeMessage(ForEach(SerializationContext(to), <<16, 80877102, msg.pid, msg.key>>,
                          LAMBDA c, n : AddIntegral(c, n, 4)))

Serialize(msg, to) ==
  CASE msg.type = "bind" -> SerializeBind(msg, to)
    [] msg.type = "describe" -> SerializeNamed(68, msg, to)
    [] msg.type = "close" -> SerializeNamed(67, msg, to)
    [] msg.type = "parse" -> SerializeParse(msg, to)
    [] msg.type = "execute" -> SerializeExecute(msg, to)
    [] msg.type = "query" -> SerializeString(81, msg.query, to)
    [] msg.type = "flush" -> SerializeHeaderOnly(72, to)
    [] msg.type = "sync" -> SerializeHeaderOnly(83, to)
    [] msg.type = "terminate" -> SerializeHeaderOnly(88, to)
    [] msg.type = "password" -> SerializeString(112, msg.password, to)
    [] msg.type = "copy_fail" -> SerializeString(102, msg.error, to)
    [] msg.type = "copy_done" -> FinalizeMessage(AddHeader(SerializationContext(to), 99))
    [] msg.type = "startup_message" -> SerializeStartup(msg, to)
    [] msg.type = "cancel_request" -> SerializeCancelRequest(msg, to)
=============================================================================
