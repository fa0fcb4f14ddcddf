------------------------------ MODULE FieldIn ------------------------------
(***************************************************************************)
(* One field of a row: a value of the server, written in the format that   *)
(* was asked for, perhaps with a wrong number of bytes, and parsed into    *)
(* the C++ type that the program has for it.                               *)
(***************************************************************************)
EXTENDS FieldTypes

CONSTANT Values  \* values of the server: [oid, v], with v <<>> for NULL

VARIABLES
  value,   \* the value of the server
  format,  \* "text" or "binary"
  target,  \* the C++ type: [type, optional]
  field,   \* the bytes that arrive
  exact,   \* whether they are the ones of the value
  parsed   \* what the parser returned

fieldVars == <<value, format, target, field, exact, parsed>>

----------------------------------------------------------------------------
(* How PostgreSQL writes values.                                           *)

Pad(n, width) == [i \in 1..Max({0, width - Len(Digits(n))}) |-> 48] \o Digits(n)

\* StoreBig() of a duration in microseconds.
StoreMicros(v) ==
  LET RECURSIVE Go(_, _)
      Go(x, n) ==
        LET s == (x[1] % 256) * 86400 + x[2]
            us == (s % 256) * 1000000 + x[3]
        IN  IF n = 0 THEN <<>>
            ELSE Append(Go(<<x[1] \div 256, s \div 256, us \div 256>>, n - 1), us % 256)
  IN  Go(v, 8)

\* Years before 1 are written as positive years BC.
DateText(d) == Pad(IF d[1] > 0 THEN d[1] ELSE 1 - d[1], 4) \o <<45>> \o Pad(d[2], 2) \o <<45>> \o Pad(d[3], 2)

Era(d) == IF d[1] > 0 THEN <<>> ELSE <<32>> \o BC

\* Zeros at the end of the microseconds are not written.
FractionText(us) ==
  LET RECURSIVE Cut(_)
      Cut(ds) == IF ds # <<>> /\ Last(ds) = 48 THEN Cut(Front(ds)) ELSE ds
  IN  IF us = 0 THEN <<>> ELSE <<46>> \o Cut(Pad(us, 6))

TimeText(t) ==
  LET s == t[1] * 86400 + t[2]
  IN  Pad(s \div 3600, 2) \o <<58>> \o Pad((s \div 60) % 60, 2) \o <<58>> \o Pad(s % 60, 2) \o FractionText(t[3])

OffsetText(o) ==
  LET a == IF o < 0 THEN - o ELSE o
  IN  <<IF o < 0 THEN 45 ELSE 43>> \o Pad(a \div 3600, 2)
        \o (IF a % 3600 = 0 THEN <<>> ELSE <<58>> \o Pad((a \div 60) % 60, 2))
        \o (IF a % 60 = 0 THEN <<>> ELSE <<58>> \o Pad(a % 60, 2))

Negative(t) == t[1] < 0

\* IntervalStyle postgres: a part that is not zero, with a + after a negative one.
IntervalText(v) ==
  LET years == IF v.months < 0 THEN - (- v.months \div 12) ELSE v.months \div 12
      parts == SelectSeq(<<<<years, Year>>, <<v.months - 12 * years, Mon>>, <<v.days, Day>>>>,
                         LAMBDA p : p[1] # 0)
      sign(i) == IF i > 1 /\ parts[i - 1][1] < 0 /\ parts[i][1] > 0 THEN <<43>> ELSE <<>>
      text(i) == sign(i) \o ToChars(parts[i][1]) \o <<32>> \o parts[i][2]
                   \o (IF parts[i][1] = 1 THEN <<>> ELSE <<115>>)
      timeSign == IF Negative(v.time) THEN <<45>>
                  ELSE IF parts # <<>> /\ Last(parts)[1] < 0 THEN <<43>> ELSE <<>>
      time == timeSign \o TimeText(IF Negative(v.time) THEN Minus(v.time) ELSE v.time)
      words == [i \in 1..Len(parts) |-> text(i)] \o (IF parts # <<>> /\ v.time = <<0, 0, 0>> THEN <<>> ELSE <<time>>)
  IN  FoldLeft(LAMBDA all, w : IF all = <<>> THEN w ELSE all \o <<32>> \o w, <<>>, words)

\* A number has digits before and after the point, as many as its scale.
NumericText(v) ==
  (IF v.neg THEN <<45>> ELSE <<>>) \o [i \in 1..Len(v.int) |-> 48 + v.int[i]]
    \o (IF v.frac = <<>> THEN <<>> ELSE <<46>> \o [i \in 1..Len(v.frac) |-> 48 + v.frac[i]])

Zeros(n) == [i \in 1..n |-> 0]

NumericBinary(v) ==
  LET left == Zeros((4 - (Len(v.int) % 4)) % 4) \o v.int
      all == left \o v.frac \o Zeros((4 - (Len(v.frac) % 4)) % 4)
      group(i) == all[4 * i - 3] * 1000 + all[4 * i - 2] * 100 + all[4 * i - 1] * 10 + all[4 * i]
      used == {i \in 1..Len(all) \div 4 : group(i) # 0}
      first == IF used = {} THEN 1 ELSE Min(used)
      count == IF used = {} THEN 0 ELSE Max(used) - first + 1
      weight == IF used = {} THEN 0 ELSE Len(left) \div 4 - first
  IN  StoreBig(count, 2) \o StoreBig(weight, 2) \o StoreBig(IF v.neg THEN 16384 ELSE 0, 2)
        \o StoreBig(Len(v.frac), 2) \o FlattenSeq([i \in 1..count |-> StoreBig(group(first + i - 1), 2)])

Hex(n) == IF n < 10 THEN 48 + n ELSE 87 + n

StringOids == {TextOid, VarcharOid, NameOid, BpcharOid}

IntOids == {Int2Oid, Int4Oid, Int8Oid, OidOid}

WriteText(oid, v) ==
  CASE oid = BoolOid -> IF v THEN <<116>> ELSE <<102>>
    [] oid \in IntOids -> ToChars(v)
    [] oid \in StringOids \union {JsonOid, JsonbOid} -> v
    [] oid = ByteaOid -> <<92, 120>> \o FlattenSeq([i \in 1..Len(v) |-> <<Hex(v[i] \div 16), Hex(v[i] % 16)>>])
    [] oid = CharOid -> IF v = 0 THEN <<>> ELSE <<v>>
    [] oid = DateOid -> DateText(v) \o Era(v)
    [] oid = TimeOid -> TimeText(v)
    [] oid = TimetzOid -> TimeText(v.time) \o OffsetText(v.offset)
    [] oid = TimestampOid -> DateText(v.date) \o <<32>> \o TimeText(v.time) \o Era(v.date)
    [] oid = TimestamptzOid ->
         DateText(v.date) \o <<32>> \o TimeText(v.time) \o OffsetText(v.offset) \o Era(v.date)
    [] oid = IntervalOid -> IntervalText(v)
    [] oid = NumericOid -> NumericText(v)

DayOf(d) == SysDays(d[1], d[2], d[3]) - SysDays(2000, 1, 1)

WriteBinary(oid, v) ==
  CASE oid = BoolOid -> IF v THEN <<1>> ELSE <<0>>
    [] oid \in IntOids -> StoreBig(v, SizeOfInt(oid))
    [] oid \in StringOids \union {ByteaOid, JsonOid} -> v
    [] oid = JsonbOid -> <<1>> \o v
    [] oid = CharOid -> <<v>>
    [] oid = DateOid -> StoreBig(DayOf(v), 4)
    [] oid = TimeOid -> StoreMicros(v)
    [] oid = TimetzOid -> StoreMicros(v.time) \o StoreBig(- v.offset, 4)
    [] oid = TimestampOid -> StoreMicros(Plus(<<DayOf(v.date), 0, 0>>, v.time))
    [] oid = TimestamptzOid ->
         StoreMicros(Plus(Plus(<<DayOf(v.date), 0, 0>>, v.time), Duration(0, - v.offset, 0)))
    [] oid = IntervalOid -> StoreMicros(v.time) \o StoreBig(v.days, 4) \o StoreBig(v.months, 4)
    [] oid = NumericOid -> NumericBinary(v)

Write(f, x) ==
  IF x.v = <<>> THEN <<>>
  ELSE <<IF f = "text" THEN WriteText(x.oid, x.v[1]) ELSE WriteBinary(x.oid, x.v[1])>>

----------------------------------------------------------------------------
NotParsed == Error("not_parsed", <<>>)

FieldInit ==
  /\ value \in Values
  /\ format \in {"text", "binary"}
  /\ target \in [type : {t \in DOMAIN AcceptedOids : FieldIsCompatible(t, value.oid) = "ok"},
                 optional : BOOLEAN]
  /\ field = Write(format, value) /\ exact = TRUE
  /\ parsed = NotParsed

\* The server sends a field with a byte more, or less.
ServerMiscounts ==
  /\ exact /\ parsed = NotParsed /\ field # <<>>
  /\ exact' = FALSE
  /\ \/ field' = <<Append(field[1], 0)>>
     \/ field[1] # <<>> /\ field' = <<Front(field[1])>>
  /\ UNCHANGED <<value, format, target, parsed>>

ParseTheField ==
  /\ parsed = NotParsed
  /\ parsed' = ParseField(target.type, target.optional, value.oid, format, field)
  /\ UNCHANGED <<value, format, target, field, exact>>

FieldNext == ServerMiscounts \/ ParseTheField

FieldSpec == FieldInit /\ [][FieldNext]_fieldVars

----------------------------------------------------------------------------
(* What the parser should make of a value.                                 *)

AsNumber(v) == Number(v.neg, v.int \o v.frac, - Len(v.frac))

Meaning(oid, v) ==
  CASE oid = DateOid -> SysDays(v[1], v[2], v[3])
    [] oid = TimestampOid -> Plus(<<SysDays(v.date[1], v.date[2], v.date[3]), 0, 0>>, v.time)
    [] oid = TimestamptzOid ->
         Plus(Plus(<<SysDays(v.date[1], v.date[2], v.date[3]), 0, 0>>, v.time), Duration(0, - v.offset, 0))
    [] oid = NumericOid -> AsNumber(v)
    [] OTHER -> v

\* Values whose text the library has no parser for: offsets with seconds,
\* intervals of more than 24 hours in their time, and the zero "char", whose text
\* is empty.
NotInText(oid, v) ==
  CASE oid \in {TimetzOid, TimestamptzOid} -> v.offset % 60 # 0
    [] oid = IntervalOid -> LET t == IF Negative(v.time) THEN Minus(v.time) ELSE v.time
                            IN  t[1] >= 1 /\ t # <<1, 0, 0>>
    [] oid = CharOid -> v = 0
    [] OTHER -> FALSE

TooPrecise(oid, v) ==
  target.type = "dec_float" /\ oid = NumericOid /\ Len(AsNumber(v).digits) > Digits10

\* A value of the server is read back whole, whatever type of the program
\* accepts it.  What the library cannot read is refused and never read as
\* something else: a number that does not fit the precision of its type, in both
\* formats, a text that the library has no parser for, and a NULL by all but
\* optional<>.
ReadsBack ==
  exact /\ parsed # NotParsed =>
    IF value.v = <<>> THEN parsed.ec = IF target.optional THEN "ok" ELSE "unexpected_null"
    ELSE IF format = "text" /\ NotInText(value.oid, value.v[1]) THEN parsed.ec # "ok"
    ELSE IF TooPrecise(value.oid, value.v[1]) THEN parsed.ec = "incompatible_response_length"
    ELSE parsed = Ok(<<Meaning(value.oid, value.v[1])>>)

\* datetime.hpp:23 documents the type date up to 5874897-12-31: a date that the
\* library reads without an error is the one that the server wrote.
DatesAreRead ==
  value.oid = DateOid /\ exact /\ parsed.ec = "ok" =>
    parsed = Ok(<<Meaning(DateOid, value.v[1])>>)

FixedSize == {BoolOid, CharOid, DateOid, TimeOid, TimetzOid, TimestampOid, TimestamptzOid, IntervalOid} \union IntOids

\* A binary field with a byte more or less than its type has is refused, never
\* read past its end or with its bytes shifted.
WrongSizeRefused ==
  ~ exact /\ parsed # NotParsed /\ format = "binary" /\ value.oid \in FixedSize => parsed.ec # "ok"


=============================================================================
