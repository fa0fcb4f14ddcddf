--------------------------- MODULE MCReadResponse ---------------------------
EXTENDS ReadResponse

CONSTANT MaxLength  \* of the requests that are tried with check

\* Every sequence of messages up to the bound, well formed or not, with check;
\* the usual requests with every choice of one or two handlers; a statement that
\* is prepared in a batch of its own, where the first handler is for that; and a
\* query with a sync, behind which a resultsets_handler would read past the end.
AllRequests == UNION {[1..n -> MessageTypes] : n \in 0..MaxLength}

Unit == <<"bind", "describe", "execute">>

UsualRequests == {
  <<"query">>, <<"query">> \o Unit \o <<"sync">>,
  <<"parse">> \o Unit \o <<"sync">>,
  <<"parse">> \o Unit \o <<"flush">> \o Unit \o <<"sync">>,
  <<"parse", "describe", "sync">>, <<"close", "sync">>, <<"close", "parse", "sync">>,
  <<"bind", "execute", "sync">>}

PrepareThenExecute == <<"parse", "sync">> \o Unit \o <<"sync">>

HandlerLists == [1..1 -> Kinds] \cup [1..2 -> Kinds]

MCJobs == [req : AllRequests, kinds : {<<"check">>}] \cup
          [req : UsualRequests, kinds : HandlerLists \ {<<"check">>}] \cup
          [req : {PrepareThenExecute}, kinds : {l \in HandlerLists : l[1] = "check_parse"}] \cup
          [req : {<<"query", "sync">>}, kinds : {l \in HandlerLists : l[1] # "resultsets_handler"}]

\* A prepared command whose parse may fail.
OneCommand == {[req |-> <<"parse">> \o Unit \o <<"sync">>, kinds |-> <<"check_execute">>]}

\* Columns: a and b are the fields of the row type.
Col(name, type) == [name |-> <<name>>, type |-> type]

MCRowDescriptions == {
  <<Col(12, "int4"), Col(11, "int4")>>,
  <<Col(11, "text"), Col(12, "int4")>>}

MCValues == {Null, <<4, 2>>}
=============================================================================
