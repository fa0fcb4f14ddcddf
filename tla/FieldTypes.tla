----------------------------- MODULE FieldTypes -----------------------------
(***************************************************************************)
(* The types that a row can have: which PostgreSQL types each C++ type     *)
(* accepts (field_traits.hpp and the specialisations in detail/) and how   *)
(* its text and binary formats are parsed and serialised (types/).  A      *)
(* field is <<>> for NULL and <<bytes>> otherwise.                         *)
(***************************************************************************)
EXTENDS Datetime

CONSTANT Digits10  \* numeric_limits<T>::digits10 of the number type in use

BoolOid == 16
ByteaOid == 17
CharOid == 18
NameOid == 19
Int8Oid == 20
Int2Oid == 21
Int4Oid == 23
TextOid == 25
OidOid == 26
JsonOid == 114
BpcharOid == 1042
VarcharOid == 1043
DateOid == 1082
TimeOid == 1083
TimestampOid == 1114
TimestamptzOid == 1184
IntervalOid == 1186
TimetzOid == 1266
NumericOid == 1700
JsonbOid == 3802

\* is_compatible() of each specialisation of parse_field_traits: the types that
\* a field of this C++ type may have in the server.
AcceptedOids ==
  [bool |-> {BoolOid}, bytea |-> {ByteaOid}, char |-> {CharOid},
   int16 |-> {Int2Oid}, int32 |-> {Int4Oid, Int2Oid}, int64 |-> {Int8Oid, Int4Oid, Int2Oid},
   uint32 |-> {OidOid}, string |-> {TextOid, VarcharOid, NameOid, BpcharOid},
   sys_days |-> {DateOid}, microseconds |-> {TimeOid}, timetz |-> {TimetzOid},
   timestamp |-> {TimestampOid}, timestamptz |-> {TimestamptzOid}, interval |-> {IntervalOid},
   dec_float |-> {NumericOid}, decimal |-> {NumericOid}, json |-> {JsonOid, JsonbOid}]

FieldIsCompatible(type, oid) ==
  IF oid \in AcceptedOids[type] THEN "ok" ELSE "incompatible_field_type"

----------------------------------------------------------------------------
(* types/base.hpp                                                          *)

\* parse_text_to_number(): an empty text leaves the (zero) target alone.
ParseTextToNumber(b, lo, hi) ==
  LET Whole(r) == IF r.ec = "ok" /\ r.ptr = Len(b) THEN Ok(r.value)
                  ELSE IF b # <<>> THEN Bad ELSE Ok(0)
  IN  Whole(FromChars(b, 0, lo, hi))

ParseTextInt(b, oid) ==
  IF oid = Int2Oid THEN ParseTextToNumber(b, -32768, 32767)
  ELSE ParseTextToNumber(b, Int32Min, Int32)

SizeOfInt(oid) == IF oid = Int2Oid THEN 2 ELSE IF oid = Int8Oid THEN 8 ELSE 4


ParseBinaryInt(b, oid) == IF Len(b) # SizeOfInt(oid) THEN Bad ELSE Ok(LoadBig(b))

ParseTextBool(b) == CASE b = <<116>> -> Ok(TRUE) [] b = <<102>> -> Ok(FALSE) [] OTHER -> Bad

ParseBinaryBool(b) == IF Len(b) # 1 THEN Bad ELSE Ok(b[1] # 0)

HexDigit(x) ==
  CASE x \in 48..57 -> x - 48 [] x \in 97..102 -> x - 87 [] x \in 65..70 -> x - 55 [] OTHER -> -1

\* \x followed by pairs of digits.
ParseTextBytea(b) ==
  IF Len(b) < 2 \/ Len(b) % 2 # 0 \/ SubSeq(b, 1, 2) # <<92, 120>> THEN Bad
  ELSE IF \E i \in 3..Len(b) : HexDigit(b[i]) = -1 THEN Bad
  ELSE Ok([i \in 1..Len(b) \div 2 - 1 |-> 16 * HexDigit(b[2 * i + 1]) + HexDigit(b[2 * i + 2])])

\* parse_text_char() and parse_binary_char()
ParseChar(b) == IF Len(b) # 1 THEN Bad ELSE Ok(b[1])

SerializeTextInt(n) == ToChars(n)

SerializeBinaryInt(n, oid) == StoreBig(n, SizeOfInt(oid))

----------------------------------------------------------------------------
(* types/json.hpp                                                          *)

\* parse_json(): what Boost.JSON makes of a text is the text itself.
ParseJson(b) == Ok(b)

ParseBinaryJsonb(b) == IF b = <<>> \/ Head(b) # 1 THEN Bad ELSE ParseJson(Tail(b))

----------------------------------------------------------------------------
(* types/numeric.hpp and types/decimal.hpp.  A number is its digits, without *)
(* zeros at the ends, and the exponent of ten of the last one.               *)

Number(neg, digits, exp) ==
  LET RECURSIVE Norm(_, _)
      Norm(ds, e) == IF ds # <<>> /\ Last(ds) = 0 THEN Norm(Front(ds), e + 1)
                     ELSE IF ds # <<>> /\ Head(ds) = 0 THEN Norm(Tail(ds), e)
                     ELSE [neg |-> neg /\ ds # <<>>, digits |-> ds, exp |-> IF ds = <<>> THEN 0 ELSE e]
  IN  Norm(digits, exp)

NaN == [neg |-> FALSE, digits |-> <<-1>>, exp |-> 0]
InfinityOf(neg) == [neg |-> neg, digits |-> <<-2>>, exp |-> 0]

CountSignificantDigitsText(b) ==
  LET ws == IF b # <<>> /\ Head(b) \in {43, 45} THEN Tail(b) ELSE b
      end == SkipWhile(ws, 0, LAMBDA x : IsDigit(x) \/ x = 46)
      ds == SelectSeq(SubSeq(ws, 1, end), IsDigit)
      used == {i \in 1..Len(ds) : ds[i] # 48}
  IN  IF used = {} THEN 0 ELSE Max(used) - Min(used) + 1

CountsWholeGroups(groups) ==  \* mutant: the first group counts as four digits
  LET used == {i \in 1..Len(groups) : groups[i] # 0}
      last == groups[Max(used)]
      trailing == Cardinality({k \in 1..4 : last % 10 ^ k = 0})
  IN  IF used = {} THEN 0 ELSE 4 * Max(used) - trailing

CountSignificantDigitsBinary(groups) ==
  LET used == {i \in 1..Len(groups) : groups[i] # 0}
      first == groups[1]
      lead == IF first >= 1000 THEN 4 ELSE IF first >= 100 THEN 3 ELSE IF first >= 10 THEN 2 ELSE 1
      last == groups[Max(used)]
      trailing == (Len(groups) - Max(used)) * 4 + Cardinality({k \in 1..4 : last % 10 ^ k = 0})
  IN  IF used = {} THEN 0 ELSE lead + (Len(groups) - 1) * 4 - trailing

\* What the constructors and from_chars() of the number types make of the texts
\* of the server: digits with a point, or a name.
NumberOfText(b) ==
  LET neg == b # <<>> /\ Head(b) = 45
      ds == IF neg THEN Tail(b) ELSE b
      points == {i \in 1..Len(ds) : ds[i] = 46}
  IN  CASE IEquals(ds, <<110, 97, 110>>) -> Ok(NaN)
        [] IEquals(ds, Infinity) -> Ok(InfinityOf(neg))
        [] OTHER ->
             IF ~ \A i \in 1..Len(ds) : IsDigit(ds[i]) \/ ds[i] = 46 THEN Bad
             ELSE Ok(Number(neg, [i \in 1..Len(ds) - Cardinality(points) |-> SelectSeq(ds, IsDigit)[i] - 48],
                            IF points = {} THEN 0 ELSE Min(points) - Len(ds)))

ParseTextNumeric(b, type) ==
  IF type = "dec_float" /\ CountSignificantDigitsText(b) > Digits10
  THEN Error("incompatible_response_length", 0) ELSE NumberOfText(b)

FourDigits(g) == <<g \div 1000, (g \div 100) % 10, (g \div 10) % 10, g % 10>>

\* The digits up to the scale dscale; the last one is rounded.
RoundTo(digits, exp, dscale) ==
  LET drop == - exp - dscale
      kept == SubSeq(digits, 1, Len(digits) - drop)
      up == digits[Len(digits) - drop + 1] >= 5
  IN  IF drop <= 0 THEN Number(FALSE, digits, exp)
      ELSE IF drop > Len(digits) THEN Number(FALSE, <<>>, 0)
      ELSE IF ~ up THEN Number(FALSE, kept, - dscale)
      ELSE Number(FALSE, [i \in 1..Len(kept) + 1 |->
                            LET tail == {j \in i..Len(kept) : kept[j] # 9}
                                d == IF i = 1 THEN 0 ELSE kept[i - 1]
                            IN  IF tail = {} THEN (d + 1) % 10 ELSE d], - dscale)

\* The header (ndigits, weight, sign, dscale) and the groups of four digits.
ParseBinaryNumeric(b, type) ==
  LET u16(p) == 256 * b[p + 1] + b[p + 2]
      ndigits == u16(0)
      weight == LoadBig(SubSeq(b, 3, 4))
      sign == u16(4)
      groups == [i \in 1..ndigits |-> u16(6 + 2 * i)]
      digits == FlattenSeq([i \in 1..ndigits |-> FourDigits(groups[i])])
      result == RoundTo(digits, 4 * (weight + 1 - ndigits), u16(6))
  IN  IF Len(b) < 8 THEN Bad
      ELSE IF sign = 49152 THEN Ok(NaN)
      ELSE IF sign \in {53248, 61440} THEN Ok(InfinityOf(sign = 61440))
      ELSE IF Len(b) < 8 + 2 * ndigits THEN Bad
      ELSE IF type = "dec_float" /\ CountSignificantDigitsBinary(groups) > Digits10
           THEN Error("incompatible_response_length", 0)
      ELSE Ok([result EXCEPT !.neg = sign = 16384 /\ result.digits # <<>>])

----------------------------------------------------------------------------
(* field_parse_text(), field_parse_binary() and their optional<> wrappers. *)

ParseText(type, oid, b) ==
  CASE type = "bool" -> ParseTextBool(b)
    [] type = "bytea" -> ParseTextBytea(b)
    [] type = "char" -> ParseChar(b)
    [] type \in {"int16", "int32", "int64"} -> ParseTextInt(b, oid)
    [] type = "uint32" -> ParseTextToNumber(b, 0, Int32)
    [] type = "string" -> Ok(b)
    [] type = "sys_days" -> ParseTextDate(b)
    [] type = "microseconds" -> ParseTextTime(b)
    [] type = "timetz" -> ParseTextTimetz(b)
    [] type = "timestamp" -> ParseTextTimestamp(b)
    [] type = "timestamptz" -> ParseTextTimestamptz(b)
    [] type = "interval" -> ParseTextInterval(b)
    [] type \in {"dec_float", "decimal"} -> ParseTextNumeric(b, type)
    [] type = "json" -> ParseJson(b)

ParseBinary(type, oid, b) ==
  CASE type = "bool" -> ParseBinaryBool(b)
    [] type = "bytea" -> Ok(b)
    [] type = "char" -> ParseChar(b)
    [] type \in {"int16", "int32", "int64"} -> ParseBinaryInt(b, oid)
    [] type = "uint32" -> ParseBinaryInt(b, Int4Oid)
    [] type = "string" -> Ok(b)
    [] type = "sys_days" -> ParseBinaryDate(b)
    [] type = "microseconds" -> ParseBinaryTime(b)
    [] type = "timetz" -> ParseBinaryTimetz(b)
    [] type \in {"timestamp", "timestamptz"} -> ParseBinaryTimestamp(b)
    [] type = "interval" -> ParseBinaryInterval(b)
    [] type \in {"dec_float", "decimal"} -> ParseBinaryNumeric(b, type)
    [] type = "json" -> IF oid = JsonbOid THEN ParseBinaryJsonb(b) ELSE ParseJson(b)

\* Every specialisation refuses a NULL, but for optional<T>, which is reset; a
\* value of an optional is <<v>>.
ParseField(type, optional, oid, format, field) ==
  LET Value(r) == IF r.ec = "ok" THEN Ok(<<r.to>>) ELSE Error(r.ec, <<>>)
  IN  IF field = <<>> THEN (IF optional THEN Ok(<<>>) ELSE Error("unexpected_null", <<>>))
      ELSE Value(IF format = "text" THEN ParseText(type, oid, field[1]) ELSE ParseBinary(type, oid, field[1]))
=============================================================================
