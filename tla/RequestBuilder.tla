--------------------------- MODULE RequestBuilder ---------------------------
(***************************************************************************)
(* The class request: a program composes a pipeline with add_query(),      *)
(* add_execute() and the others, each of which serialises its messages to  *)
(* the payload and records their types; and PostgreSQL, which reads the    *)
(* payload.  Also the messages that the library or a program writes alone. *)
(***************************************************************************)
EXTENDS FrontendMessages, BackendMessages, Request

CONSTANTS
  Names,       \* names of statements and portals, <<>> among them
  Texts,       \* queries
  ParamLists,  \* lists of parameters: [oid, value], custom types among them
  FormatLists, \* lists of format codes
  Alone,       \* messages that are no part of a request
  MaxCalls     \* bound on the calls to a request

VARIABLES
  buffer,    \* request::buffer_
  types,     \* request::types_
  autosync,  \* request::autosync_
  status,    \* "building", "threw" once a call has, "alone"
  meant,     \* the messages added before a call threw
  calls,     \* how many calls were made
  plain      \* whether all of them were high-level calls with autosync

builderVars == <<buffer, types, autosync, status, meant, calls, plain>>

----------------------------------------------------------------------------
(* The messages of each call.                                              *)

Statement == 83
Portal == 80

ParseMsg(name, q, oids) == [type |-> "parse", statement |-> name, query |-> q, oids |-> oids]

BindMsg(portal, name, params, format, result) ==
  [type |-> "bind", portal |-> portal, statement |-> name, params |-> params, paramFormat |-> format,
   paramCodes |-> AllOfFormat(format), resultCodes |-> result]

NamedMsg(type, what, name) == [type |-> type, what |-> what, name |-> name]

ExecuteMsg(portal, rows) == [type |-> "execute", portal |-> portal, rows |-> rows]

QueryMsg(q) == [type |-> "query", query |-> q]

Only(type) == [type |-> type]

Formats == DOMAIN FormatCode

MaybeAddSync == IF autosync THEN <<Only("sync")>> ELSE <<>>

ExecuteMsgs(name, params, format, result, rows) ==
  <<BindMsg(<<>>, name, params, format, AllOfFormat(result)), NamedMsg("describe", Portal, <<>>),
    ExecuteMsg(<<>>, rows)>> \o MaybeAddSync

OidsOf(params) == [i \in 1..Len(params) |-> params[i].oid]

----------------------------------------------------------------------------
(* add_advanced_impl(), for the messages of a call up to one that throws.  *)

AddAdvancedImpl(s, msg) ==
  LET Wrote1(w) == IF w.ec # "ok" THEN [s EXCEPT !.buffer = w.buffer, !.threw = TRUE]
                   ELSE [s EXCEPT !.buffer = w.buffer, !.types = Append(@, msg.type)]
  IN  IF s.threw THEN s ELSE Wrote1(Serialize(msg, s.buffer))

Calls(msgs, highLevel) ==
  LET Becomes(s) == /\ buffer' = s.buffer /\ types' = s.types
                    /\ status' = IF s.threw THEN "threw" ELSE status
                    /\ meant' = IF status = "threw" THEN meant
                                ELSE meant \o SubSeq(msgs, 1, Len(s.types) - Len(types))
  IN  /\ status # "alone" /\ calls < MaxCalls
      /\ calls' = calls + 1
      /\ Becomes(ForEach([buffer |-> buffer, types |-> types, threw |-> FALSE], msgs, AddAdvancedImpl))
      /\ plain' = (plain /\ highLevel)
      /\ UNCHANGED autosync

AddSimpleQuery == \E q \in Texts : Calls(<<QueryMsg(q)>>, TRUE)

ForgetsOids ==  \* mutant: the types of the parameters are left to the server
  \E q \in Texts, ps \in ParamLists, format \in Formats :
    Calls(<<ParseMsg(<<>>, q, <<>>)>> \o ExecuteMsgs(<<>>, ps, format, "text", 0), autosync)

AddQuery ==
  \E q \in Texts, ps \in ParamLists, format \in Formats :
    Calls(<<ParseMsg(<<>>, q, OidsOf(ps))>> \o ExecuteMsgs(<<>>, ps, format, "text", 0), autosync)

AddPrepare ==
  \E q \in Texts, name \in Names, ps \in ParamLists :
    Calls(<<ParseMsg(name, q, OidsOf(ps))>> \o MaybeAddSync, autosync)

NoSyncAfterExecute ==  \* mutant: an execution does not end its batch
  \E name \in Names, ps \in ParamLists, format \in Formats, result \in Formats :
    Calls(SubSeq(ExecuteMsgs(name, ps, format, result, 0), 1, 3), autosync)

\* Of a name or of a bound_statement.
AddExecute ==
  \E name \in Names, ps \in ParamLists, format \in Formats, result \in Formats :
    Calls(ExecuteMsgs(name, ps, format, result, 0), autosync)

AddDescribe ==
  \E what \in {Statement, Portal}, name \in Names :
    Calls(<<NamedMsg("describe", what, name)>> \o MaybeAddSync, autosync)

AddClose ==
  \E what \in {Statement, Portal}, name \in Names :
    Calls(<<NamedMsg("close", what, name)>> \o MaybeAddSync, autosync)

AddBind ==
  \E name \in Names, portal \in Names, ps \in ParamLists, format \in Formats, result \in Formats :
    Calls(<<BindMsg(portal, name, ps, format, AllOfFormat(result))>>, FALSE)

\* add(), and add_sync()
Add ==
  \E msg \in {Only("sync"), Only("flush"), ExecuteMsg(<<>>, 300)}
              \union {BindMsg(<<>>, <<>>, <<>>, "text", ListOfFormats(codes)) : codes \in FormatLists} :
    Calls(<<msg>>, FALSE)

SetAutosync ==
  /\ status # "alone"
  /\ autosync' = ~ autosync
  /\ UNCHANGED <<buffer, types, status, meant, calls, plain>>

\* serialize() of a message that is no part of a request, to a buffer of its own.
WriteAlone ==
  /\ calls = 0 /\ status = "building"
  /\ \E msg \in Alone :
       LET Becomes(w) == buffer' = w.buffer /\ meant' = IF w.ec = "ok" THEN <<msg>> ELSE <<>>
       IN  Becomes(Serialize(msg, <<>>))
  /\ status' = "alone"
  /\ UNCHANGED <<types, autosync, calls, plain>>

BuilderInit ==
  /\ buffer = <<>> /\ types = <<>> /\ autosync = TRUE
  /\ status = "building" /\ meant = <<>> /\ calls = 0 /\ plain = TRUE

BuilderNext ==
  \/ AddSimpleQuery \/ AddQuery \/ AddPrepare \/ AddExecute \/ AddDescribe \/ AddClose
  \/ AddBind \/ Add \/ SetAutosync \/ WriteAlone

----------------------------------------------------------------------------
(* How PostgreSQL reads the payload: a 16-bit count beyond its maximum is  *)
(* negative, which it refuses.                                             *)

ReadList(c, item(_)) ==
  LET Items(n) == IF Last(n.got) > Int16Max THEN AddError(n, "negative")
                  ELSE Repeat(Last(n.got), item, [n EXCEPT !.got = <<>>])
      List(d) == [d EXCEPT !.got = Append(c.got, d.got)]
  IN  List(Items(GetNonnegative(c, 2)))

ReadParam(c) ==
  LET Value(n) == GetByteArray([n EXCEPT !.got = c.got], Last(n.got)) IN Value(GetIntegral(c, 4))

Int16(c) == GetIntegral(c, 2)

Int32Of(c) == GetIntegral(c, 4)

\* The fields of a message, or nothing if they are not what its type has.
ReadBody(type, b) ==
  LET c == Context(b)
      Read(r) == IF Check(r).ec = "ok" THEN <<[type |-> type, got |-> r.got]>> ELSE <<>>
  IN  Read(CASE type = 66 -> ReadList(ReadList(ReadList(GetString(GetString(c)), Int16), ReadParam), Int16)
             [] type \in {67, 68} -> GetString(GetByte(c))
             [] type = 69 -> Int32Of(GetString(c))
             [] type = 80 -> ReadList(GetString(GetString(c)), Int32Of)
             [] type \in {81, 102, 112} -> GetString(c)
             [] type \in {72, 83, 88, 99} -> c
             [] OTHER -> AddError(c, "unknown type"))

\* The messages at the front of the payload, and what is left of it.
RECURSIVE ReadPayload(_)
ReadPayload(b) ==
  LET Join(first, others) == [msgs |-> first \o others.msgs, rest |-> others.rest]
      Stop == [msgs |-> <<>>, rest |-> b]
      Go(first, n) == IF first = <<>> THEN Stop ELSE Join(first, ReadPayload(SubSeq(b, n + 2, Len(b))))
      Sized(n) == IF n < 4 \/ n + 1 > Len(b) THEN Stop ELSE Go(ReadBody(b[1], SubSeq(b, 6, n + 1)), n)
  IN  IF Len(b) < 5 THEN Stop ELSE Sized(LoadBig(SubSeq(b, 2, 5)))

\* What it should read: the same fields as the program gave.
CodesMeant(codes) ==
  CASE codes.kind = "all_text" -> <<>>
    [] codes.kind = "all_binary" -> <<1>>
    [] codes.kind = "list" -> [i \in 1..Len(codes.list) |-> FormatCode[codes.list[i]]]

TypeOf ==
  [bind |-> 66, close |-> 67, describe |-> 68, execute |-> 69, flush |-> 72, parse |-> 80, query |-> 81,
   sync |-> 83, terminate |-> 88, copy_done |-> 99, copy_fail |-> 102, password |-> 112]

FieldsMeant(m) ==
  CASE m.type = "bind" ->
         <<m.portal, m.statement, CodesMeant(m.paramCodes),
           [i \in 1..Len(m.params) |-> SerializeParameter(m.params[i], m.paramFormat).buffer],
           CodesMeant(m.resultCodes)>>
    [] m.type \in {"describe", "close"} -> <<m.what, m.name>>
    [] m.type = "execute" -> <<m.portal, m.rows>>
    [] m.type = "parse" -> <<m.statement, m.query, m.oids>>
    [] m.type = "query" -> <<m.query>>
    [] m.type = "password" -> <<m.password>>
    [] m.type = "copy_fail" -> <<m.error>>
    [] OTHER -> <<>>

AsRead(msgs) == [i \in 1..Len(msgs) |-> [type |-> TypeOf[msgs[i].type], got |-> FieldsMeant(msgs[i])]]

\* A parameter as PostgreSQL reads it, with the type that Parse gave.
ReadValue(oid, binary, b) ==
  IF oid \in {Int2Oid, Int4Oid, Int8Oid}
  THEN IF binary THEN ParseBinaryInt(b, oid) ELSE ParseTextInt(b, oid)
  ELSE Ok(b)

----------------------------------------------------------------------------
\* Type correctness: the calls stay within their bound and the types are those
\* of a request.
BuilderTypeOK ==
  /\ buffer \in Seq(0..255) /\ types \in Seq(MessageTypes)
  /\ status \in {"building", "threw", "alone"} /\ calls \in 0..MaxCalls
  /\ autosync \in BOOLEAN /\ plain \in BOOLEAN

\* Whatever the calls and their order, if none of them threw the payload is what
\* they meant: the server reads the messages that were added, field by field, and
\* messages() lists their types, from which the answers are expected.
PayloadIsRead(p) ==
  status = "building" =>
    p = [msgs |-> AsRead(meant), rest |-> <<>>] /\ types = [i \in 1..Len(meant) |-> meant[i].type]

\* The binary parameters of add_query() reach the server as the values they are
\* in the program: the Parse before the Bind gives a type for each, and each has
\* the size of its type.  (With autosync, no other call puts a Parse there.)
ParametersArrive(p) ==
  status = "building" /\ plain =>
    \A i \in 2..Len(meant) :
      meant[i].type = "bind" /\ meant[i].paramFormat = "binary" /\ meant[i - 1].type = "parse" =>
        LET Arrive(oids, bind) ==
              \A k \in 1..Len(meant[i].params) :
                /\ k <= Len(oids) /\ bind[3] = <<1>>
                /\ ReadValue(oids[k], TRUE, bind[4][k]) = Ok(meant[i].params[k].value)
        IN  Arrive(p.msgs[i - 1].got[3], p.msgs[i].got)

\* With autosync, and high-level calls only, a request that did not throw passes
\* check_request(), and the server owes exactly one ReadyForQuery per call: the
\* calls cannot fail one another and read_response() knows when it is done.
OneRfqPerCall ==
  plain /\ status = "building" /\ calls > 0 =>
    CheckRequest(types) = "ok" /\ GetExpectedRfqs(types, 1) = calls

\* The messages that are written alone: one length for the whole, after the type
\* byte if there is one, so that the server knows where they end.
AloneHasItsLength(p) ==
  status = "alone" /\ meant # <<>> =>
    LET m == meant[1]
        typed == m.type \notin {"startup_message", "cancel_request"}
    IN  /\ typed => p = [msgs |-> AsRead(meant), rest |-> <<>>]
        /\ ~ typed => LoadBig(SubSeq(buffer, 1, 4)) = Len(buffer)
        /\ m.type = "startup_message" =>
             LET Strings(c) == /\ Check(c).ec = "ok" /\ buffer[Len(buffer)] = 0
                               /\ c.got[3] = m.user
                               /\ m.database # <<>> => c.got[5] = m.database[1]
             IN  Strings(Repeat(2 * Len(m.params) + (IF m.database = <<>> THEN 2 ELSE 4), GetString,
                                GetIntegral(Context(SubSeq(buffer, 5, Len(buffer) - 1)), 4)))

\* Every variable has its type, and as long as no call throws the server reads
\* the messages and the parameters that the program meant.
RequestsAreRead ==
  LET Reads(p) == PayloadIsRead(p) /\ ParametersArrive(p) /\ AloneHasItsLength(p)
  IN  BuilderTypeOK /\ Reads(ReadPayload(buffer))

=============================================================================
