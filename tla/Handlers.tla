------------------------------ MODULE Handlers ------------------------------
(***************************************************************************)
(* The response handlers: check, check_execute, check_parse, check_close,  *)
(* describe_into, resultset_callback (and into), resultsets_handler, and   *)
(* response<...>, which shares the messages of a request among several.    *)
(*                                                                         *)
(* Bytes are numbers, and strings and values are sequences of them; the    *)
(* digits are the bytes 0..9.  An assertion that fails is recorded, and    *)
(* what follows is what a build without assertions does.                   *)
(***************************************************************************)
EXTENDS Request, FiniteSetsExt

Kinds == {"check", "check_execute", "check_parse", "check_close", "describe_into",
          "resultset_callback", "resultsets_handler"}

NoError == <<"none", "", 0>>
ServerError(pos) == <<"server", "", pos>>
ClientError(code) == <<"client", code, 0>>

NoInfo == [tag |-> 0, suspended |-> FALSE]

\* SQL NULL, as a value; no string of bytes is equal to it.
Null == <<-1>>

-----------------------------------------------------------------------------
(* resultsets and field_descriptions: everything is kept in flat vectors,  *)
(* and found again by offset and length.                                   *)

NoResults == [descr |-> <<>>, values |-> <<>>, results |-> <<>>, data |-> <<>>]

NullLength == -1  \* static_cast<std::size_t>(-1)

\* insert_data(): where value will be once it is appended to data.
InsertData(data, value) == [offset |-> Len(data), length |-> Len(value)]

AddField(obj, col) ==
  [obj EXCEPT !.descr = Append(@, [name |-> InsertData(obj.data, col.name), type |-> col.type]),
              !.data = @ \o col.name]

\* One column after the other.
AddRowDescription(obj, cols) ==
  LET upto[i \in 0..Len(cols)] == IF i = 0 THEN obj ELSE AddField(upto[i - 1], cols[i])
  IN  upto[Len(cols)]

\* field_descriptions::assign()
Assign(obj, cols) == AddRowDescription(NoResults, cols)

AddValue(obj, value) ==
  IF value = Null THEN [obj EXCEPT !.values = Append(@, [offset |-> 0, length |-> NullLength])]
  ELSE [obj EXCEPT !.values = Append(@, InsertData(obj.data, value)), !.data = @ \o value]

AddRow(obj, row) ==
  LET upto[i \in 0..Len(row)] == IF i = 0 THEN obj ELSE AddValue(upto[i - 1], row[i])
  IN  upto[Len(row)]

FinishResultset(obj, numRows, numCols, info, err) ==
  [obj EXCEPT !.results = Append(@,
    [err |-> err, info |-> info,
     descr  |-> [offset |-> Len(obj.descr) - numCols, length |-> numCols],
     values |-> [offset |-> Len(obj.values) - numCols * numRows, length |-> numCols * numRows]])]

\* offset_and_length::to_string_view(), to_field_view()
ToStringView(ol, data) == SubSeq(data, ol.offset + 1, ol.offset + ol.length)
ToFieldView(ol, data) == IF ol.length = NullLength THEN Null ELSE ToStringView(ol, data)

\* field_descriptions_view and its iterator, over the slice [offset, length).
FieldDescriptions(obj, slice) ==
  [i \in 1..slice.length |->
     LET d == obj.descr[slice.offset + i]
     IN  [name |-> ToStringView(d.name, obj.data), type |-> d.type]]

\* rows_view and row_view: slices of num_columns values; without columns there
\* are no rows to see.
RowsSize(slice, numColumns) == IF numColumns = 0 THEN 0 ELSE slice.length \div numColumns

Rows(obj, slice, numColumns) ==
  [i \in 1..RowsSize(slice, numColumns) |->
     [j \in 1..numColumns |->
        ToFieldView(obj.values[slice.offset + (i - 1) * numColumns + j], obj.data)]]

\* resultset_view: what the user sees of a resultset.
ResultsetView(obj, rs) ==
  [cols |-> FieldDescriptions(obj, rs.descr),
   rows |-> Rows(obj, rs.values, rs.descr.length),
   info |-> rs.info, err |-> rs.err]

-----------------------------------------------------------------------------
(* setup(): which messages of the request, from an offset on, a handler    *)
(* takes the answers of.  An outcome is an error or the offset at which    *)
(* the next handler starts; offsets count messages from zero.              *)

Incompatible == [ec |-> "incompatible_response_type", offset |-> 0]
UpTo(offset) == [ec |-> "ok", offset |-> offset]

SkipSyncs(r, i) ==
  CHOOSE j \in i..Max({i, Len(r) + 1}) :
    /\ j <= Len(r) => r[j] \notin {"sync", "flush"}
    /\ \A k \in i..(j - 1) : r[k] \in {"sync", "flush"}

\* resultset_setup().  When only syncs are left *it is read past the end: it
\* may or may not look like a query.
DescribeNotNeeded(r, offset) ==  \* mutant: an execute needs no describe
  LET it == SkipSyncs(r, offset + 1)
      executes == {i \in it..Len(r) : r[i] = "execute"}
  IN  IF it > Len(r) THEN {Incompatible, UpTo(it)}
      ELSE IF r[it] = "query" THEN {UpTo(it)}
      ELSE IF executes = {} THEN {Incompatible}
      ELSE LET e == Min(executes)
           IN  IF \A i \in it..(e - 1) : r[i] \in {"sync", "flush", "parse", "bind", "describe"}
               THEN {UpTo(SkipSyncs(r, e + 1) - 1)}
               ELSE {Incompatible}

ResultsetSetup(r, offset) ==
  LET it == SkipSyncs(r, offset + 1)
      executes == {i \in it..Len(r) : r[i] = "execute"}
  IN  IF it > Len(r) THEN {Incompatible, UpTo(it)}
      ELSE IF r[it] = "query" THEN {UpTo(it)}
      ELSE IF executes = {} THEN {Incompatible}
      ELSE LET e == Min(executes)
           IN  IF /\ \A i \in it..(e - 1) :
                       r[i] \in {"sync", "flush", "parse", "bind", "describe"}
                  /\ Cardinality({i \in it..(e - 1) : r[i] = "describe"}) = 1
               THEN {UpTo(SkipSyncs(r, e + 1) - 1)}
               ELSE {Incompatible}

\* check_setup_impl()
CheckSetup(r, offset, type) ==
  LET it == SkipSyncs(r, offset + 1)
  IN  IF it > Len(r) \/ r[it] # type THEN {Incompatible} ELSE {UpTo(SkipSyncs(r, it + 1) - 1)}

\* The loop of resultsets_handler::setup()
ResultsetsSetup(r, offset) ==
  LET from[o \in 0..Max({offset, Len(r)})] ==
        UNION {IF res.ec # "ok" \/ res.offset >= Len(r) THEN {res} ELSE from[res.offset] :
               res \in ResultsetSetup(r, o)}
  IN  from[offset]

HandlerSetup(kind, r, offset) ==
  CASE kind = "check"         -> {UpTo(Len(r))}
    [] kind = "check_parse"   -> CheckSetup(r, offset, "parse")
    [] kind = "check_close"   -> CheckSetup(r, offset, "close")
    [] kind = "describe_into" -> CheckSetup(r, offset, "describe")
    [] kind = "resultsets_handler" -> ResultsetsSetup(r, offset)
    [] kind \in {"check_execute", "resultset_callback"} -> ResultsetSetup(r, offset)

-----------------------------------------------------------------------------
(* The state of a handler; each kind uses its own part of the record.      *)

NewHandler(kind) ==
  [kind |-> kind, err |-> NoError, state |-> "parsing_meta", map |-> <<>>, out |-> <<>>,
   info |-> NoInfo, obj |-> NoResults, numCols |-> 0, numRows |-> 0, failed |-> {}]

\* A handler that an earlier request has left behind.
UsedHandler(kind) ==
  [NewHandler(kind) EXCEPT !.err = ServerError(1), !.state = "parsing_data",
     !.info = [tag |-> 1, suspended |-> TRUE], !.numCols = 1, !.numRows = 1,
     !.obj = AddRow(AddRowDescription(NoResults, <<[name |-> <<5>>, type |-> "text"]>>), <<<<5>>>>)]

\* What each setup() does to its object: the position map and the rows already
\* handed to the callback stay.
Reset(h) == [NewHandler(h.kind) EXCEPT !.map = h.map, !.out = h.out]

Asserts(h, what) == [h EXCEPT !.failed = @ \cup {what}]
AssertThat(h, cond, what) == IF cond THEN h ELSE Asserts(h, what)

\* maybe_store_error(), resultset_callback_t::store_error(): the first one stays.
StoreError(h, err) == IF h.err = NoError THEN [h EXCEPT !.err = err] ELSE h

FromCommandComplete(h, m) == [h EXCEPT !.info.tag = m.data]

-----------------------------------------------------------------------------
(* on_message(), with a message [pos, kind, data].                         *)

\* check, check_parse, check_close
CheckOn(h, m) ==
  IF m.kind = "error_response" THEN StoreError(h, ServerError(m.pos)) ELSE h

CheckExecuteOn(h, m) ==
  CASE m.kind \in {"bind_complete", "parse_complete", "row_description", "data_row"} -> h
    [] m.kind = "command_complete" -> FromCommandComplete(h, m)
    [] m.kind = "portal_suspended" -> [h EXCEPT !.info.suspended = TRUE]
    [] m.kind = "error_response"   -> StoreError(h, ServerError(m.pos))
    [] OTHER -> Asserts(h, m.kind)

DescribeIntoOn(h, m) ==
  CASE m.kind = "row_description" -> [h EXCEPT !.obj = Assign(@, m.data)]
    [] m.kind = "parameter_description" -> h
    [] m.kind = "error_response"  -> StoreError(h, ServerError(m.pos))
    [] OTHER -> Asserts(h, m.kind)

KeepsRowCount(h) == [h EXCEPT !.state = "parsing_meta"]  \* mutant: the counters stay

ResetState(h) == [h EXCEPT !.state = "parsing_meta", !.numCols = 0, !.numRows = 0]

FinishWithoutReset(h, info, err) ==  \* mutant: the next resultset starts in the old state
  [h EXCEPT !.obj = FinishResultset(@, h.numRows, h.numCols, info, err)]

ResultsetsFinish(h, info, err) ==
  ResetState([h EXCEPT !.obj = FinishResultset(@, h.numRows, h.numCols, info, err)])

ResultsetsOn(h, m) ==
  LET inData == AssertThat(h, h.state = "parsing_data", "state")
  IN
  CASE m.kind \in {"bind_complete", "parse_complete"} -> h
    [] m.kind = "row_description" ->
         [AssertThat(h, h.state = "parsing_meta", "state") EXCEPT
            !.numCols = Len(m.data), !.obj = AddRowDescription(@, m.data), !.state = "parsing_data"]
    [] m.kind = "data_row" ->
         [inData EXCEPT !.obj = AddRow(@, m.data), !.numRows = @ + 1]
    [] m.kind = "command_complete" ->
         ResultsetsFinish(inData, FromCommandComplete([info |-> NoInfo], m).info, NoError)
    [] m.kind = "portal_suspended" ->
         ResultsetsFinish(inData, [NoInfo EXCEPT !.suspended = TRUE], NoError)
    [] m.kind = "error_response" ->
         ResultsetsFinish(StoreError(h, ServerError(m.pos)), NoInfo, ServerError(m.pos))
    [] OTHER -> Asserts(h, m.kind)

-----------------------------------------------------------------------------
(* resultset_callback_t<T>, where T has two fields: a, an integer, and b,  *)
(* an integer that may be NULL.                                            *)

NameTable == <<<<11>>, <<12>>>>  \* "a" and "b"
Nullable == <<FALSE, TRUE>>

\* compute_pos_map(): for each field of T its column (the last one with its
\* name), or zero.
ComputePosMap(meta) ==
  [f \in DOMAIN NameTable |->
     LET at == {i \in DOMAIN meta : meta[i].name = NameTable[f]}
     IN  IF at = {} THEN 0 ELSE Max(at)]

\* field_is_compatible() and field_parse for an integer.
IsCompatible(type) == type = "int4"
IsNumeral(value) == value # <<>> /\ \A i \in DOMAIN value : value[i] \in 0..9
Parses(f, value) == IF value = Null THEN Nullable[f] ELSE IsNumeral(value)
ParseError(f, value) == IF value = Null THEN "unexpected_null" ELSE "protocol_value_error"

CallbackMeta(h, meta) ==
  LET map == ComputePosMap(meta)
      g == [AssertThat(h, h.state = "parsing_meta", "second_resultset") EXCEPT
              !.state = "parsing_data", !.map = map]
  IN  IF \E f \in DOMAIN map : map[f] = 0 THEN StoreError(g, ClientError("field_not_found"))
      ELSE IF \E f \in DOMAIN map : ~IsCompatible(meta[map[f]].type)
           THEN StoreError(g, ClientError("incompatible_field_type"))
      ELSE g

CallbackRow(h, row) ==
  LET value(f) == row[h.map[f]]
      bad == {f \in DOMAIN h.map : ~Parses(f, value(f))}
  IN  IF h.err # NoError THEN h
      ELSE IF bad # {} THEN StoreError(h, ClientError(ParseError(Min(bad), value(Min(bad)))))
      ELSE [h EXCEPT !.out = Append(@, [f \in DOMAIN h.map |-> value(f)])]

OnDone(h) == [AssertThat(h, h.state = "parsing_data", "state") EXCEPT !.state = "done"]

IgnoresSkipped(h) == h  \* mutant: a resultset that was skipped is an empty one

OnSkipped(h) == StoreError(h, ClientError("step_skipped"))

CallbackOn(h, m) ==
  CASE m.kind = "error_response" -> StoreError(h, ServerError(m.pos))
    [] m.kind \in {"parse_complete", "bind_complete"} -> h
    [] m.kind = "row_description" -> CallbackMeta(h, m.data)
    [] m.kind = "data_row" -> CallbackRow(AssertThat(h, h.state = "parsing_data", "state"), m.data)
    [] m.kind = "command_complete" -> OnDone(FromCommandComplete(h, m))
    [] m.kind = "portal_suspended" -> OnDone([h EXCEPT !.info.suspended = TRUE])
    [] m.kind = "message_skipped" -> OnSkipped(h)
    [] OTHER -> Asserts(StoreError(h, ClientError("incompatible_response_type")), m.kind)

HandlerOn(h, m) ==
  CASE h.kind \in {"check", "check_parse", "check_close"} -> CheckOn(h, m)
    [] h.kind = "check_execute"      -> CheckExecuteOn(h, m)
    [] h.kind = "describe_into"      -> DescribeIntoOn(h, m)
    [] h.kind = "resultset_callback" -> CallbackOn(h, m)
    [] h.kind = "resultsets_handler" -> ResultsetsOn(h, m)

-----------------------------------------------------------------------------
(* response<Handlers...>                                                   *)

NewResponse(handlers) ==
  [handlers |-> handlers, offsets |-> [i \in DOMAIN handlers |-> 0], current |-> 1, failed |-> FALSE]

\* response_setup(): each handler starts where the one before it ends.
ResponseSetup(r, handlers) ==
  LET upto[i \in 0..Len(handlers)] ==
        IF i = 0 THEN {[ec |-> "ok", offsets |-> <<>>]}
        ELSE UNION {
          IF p.ec # "ok" THEN {p}
          ELSE {[ec |-> res.ec, offsets |-> Append(p.offsets, res.offset)] :
                res \in HandlerSetup(handlers[i].kind, r, IF i = 1 THEN 0 ELSE p.offsets[i - 1])} :
          p \in upto[i - 1]}
  IN  upto[Len(handlers)]

\* setup_request(): the error it returns, and the offsets.
SetupRequest(r, handlers) ==
  IF CheckRequest(r) # "ok" THEN {[ec |-> CheckRequest(r), offsets |-> <<>>]}
  ELSE {[res EXCEPT !.ec = IF @ = "ok" /\ res.offsets[Len(res.offsets)] # Len(r)
                           THEN "incompatible_response_length" ELSE @] :
        res \in ResponseSetup(r, handlers)}

\* response::on_message(); positions count from one, so pos is offset + 1.
ResponseOn(resp, m) ==
  LET cur == IF m.pos > resp.offsets[resp.current] THEN resp.current + 1 ELSE resp.current
      h   == IF cur \in DOMAIN resp.handlers THEN cur ELSE resp.current
  IN  [resp EXCEPT
         !.current = h,
         !.failed = @ \/ cur \notin DOMAIN resp.handlers \/ m.pos > resp.offsets[h],
         !.handlers[h] = HandlerOn(@, m)]

\* response::result()
FirstHandlerOnly(resp) == resp.handlers[1].err  \* mutant: the others are not asked

ResponseResult(resp) ==
  LET failing == {i \in DOMAIN resp.handlers : resp.handlers[i].err # NoError}
  IN  IF failing = {} THEN NoError ELSE resp.handlers[Min(failing)].err
=============================================================================
