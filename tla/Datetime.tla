------------------------------ MODULE Datetime ------------------------------
(***************************************************************************)
(* nativepg/types/datetime.hpp: how dates and times of the server, in text *)
(* or binary format, become std::chrono values.  A text is a sequence of   *)
(* characters.  A duration is <<days, seconds, microseconds>>, the last    *)
(* two within a day and a second: the 64-bit count of microseconds.        *)
(***************************************************************************)
EXTENDS Bytes

Int32Min == -2147483647 - 1

Int32 == 2147483647

----------------------------------------------------------------------------
(* std::chrono                                                             *)

Duration(d, s, us) ==
  LET Carry(seconds) == <<d + seconds \div 86400, seconds % 86400, us % 1000000>>
  IN  Carry(s + us \div 1000000)

Plus(x, y) == Duration(x[1] + y[1], x[2] + y[2], x[3] + y[3])

Minus(x) == Duration(- x[1], - x[2], - x[3])

\* year and month keep 16 and 8 bits; sys_days{year_month_day}.
ChronoYear(n) == ((n + 32768) % 65536) - 32768

LeapYear(y) == (y % 4 = 0 /\ y % 100 # 0) \/ y % 400 = 0

DaysInMonth(y, m) ==
  IF m = 2 THEN (IF LeapYear(y) THEN 29 ELSE 28) ELSE IF m \in {4, 6, 9, 11} THEN 30 ELSE 31

YmdOk(y, m, d) == y # -32768 /\ m \in 1..12 /\ d >= 1 /\ d <= DaysInMonth(y, m)

SysDays(year, m, d) ==
  LET March1(y) == 365 * y + y \div 4 - y \div 100 + y \div 400 - 719468
  IN  March1(IF m <= 2 THEN year - 1 ELSE year) + (153 * ((m + 9) % 12) + 2) \div 5 + d - 1

\* endian_load<std::int64_t>() as a duration of microseconds.
LoadMicros(b) ==
  FoldLeft(LAMBDA v, x :
             LET us == v[3] * 256 + x
                 s == v[2] * 256 + us \div 1000000
             IN  <<v[1] * 256 + s \div 86400, s % 86400, us % 1000000>>,
           IF b[1] > 127 THEN <<-1, 86399, 999999>> ELSE <<0, 0, 0>>, b)

----------------------------------------------------------------------------
(* namespace detail                                                        *)

Ok(v) == [ec |-> "ok", to |-> v]

Error(ec, v) == [ec |-> ec, to |-> v]

IsSpace(x) == x \in 9..13 \union {32}

RECURSIVE Trim(_)
Trim(sv) ==
  IF sv # <<>> /\ IsSpace(Head(sv)) THEN Trim(Tail(sv))
  ELSE IF sv # <<>> /\ IsSpace(Last(sv)) THEN Trim(Front(sv)) ELSE sv

ToLower(x) == IF x \in 65..90 THEN x + 32 ELSE x

IEquals(a, b) == Len(a) = Len(b) /\ \A i \in 1..Len(a) : ToLower(a[i]) = ToLower(b[i])

BC == <<66, 67>>
Infinity == <<105, 110, 102, 105, 110, 105, 116, 121>>
UtcNames == {<<90>>, <<85, 84, 67>>, <<85, 84>>, <<71, 77, 84>>}

ConsumeBc(text) ==
  LET Consume(sv) == IF Len(sv) >= 2 /\ IEquals(SubSeq(sv, Len(sv) - 1, Len(sv)), BC)
                     THEN [bc |-> TRUE, sv |-> Trim(SubSeq(sv, 1, Len(sv) - 2))]
                     ELSE [bc |-> FALSE, sv |-> sv]
  IN  Consume(Trim(text))

\* T::max(), T::min(), or what the parser makes of a finite value.
ParseInfinity(text, max, min, finite) ==
  IF IEquals(Trim(text), Infinity) THEN Ok(max)
  ELSE IF IEquals(Trim(text), <<45>> \o Infinity) THEN Ok(min) ELSE finite

\* Whether the character at position p (from 0) is x.
CharAt(sv, p, x) == p < Len(sv) /\ sv[p + 1] = x

GetInt(sv, p) == FromChars(sv, p, Int32Min, Int32)

\* Three numbers with a separator between them: both parse_date_parts() and the
\* beginning of parse_time_prefix().
ThreeInts(sv, p, sep) ==
  LET Number1(r) == [ec |-> r.ec, value |-> <<r.value>>, ptr |-> r.ptr]
      Next1(s, r) == [ec |-> r.ec, value |-> Append(s.value, r.value), ptr |-> r.ptr]
      Then(s) == IF s.ec # "ok" THEN s
                 ELSE IF ~ CharAt(sv, s.ptr, sep) THEN [s EXCEPT !.ec = "protocol_value_error"]
                 ELSE Next1(s, GetInt(sv, s.ptr + 1))
  IN  Then(Then(Number1(GetInt(sv, p))))

ParseDateParts(text) ==
  LET Whole(sv, r) == IF sv # <<>> /\ (r.ec = "ok" => r.ptr = Len(sv)) THEN r
                      ELSE [r EXCEPT !.ec = "protocol_value_error"]
  IN  Whole(Trim(text), ThreeInts(Trim(text), 0, 45))

\* What the three functions for dates do with the parts: a day, or an error.
DateOf(text, bc) ==
  LET Ymd(y, m, d) == IF YmdOk(y, m, d) THEN Ok(SysDays(y, m, d)) ELSE Error("protocol_value_error", 0)
      Parts(r) == IF r.ec # "ok" THEN Error(r.ec, 0)
                  ELSE Ymd(ChronoYear(IF bc THEN 1 - r.value[1] ELSE r.value[1]),
                           r.value[2] % 256, r.value[3] % 256)
  IN  Parts(ParseDateParts(text))

RightAligned(value, n) == value  \* mutant: missing digits are not made up for

\* The digits after the point as microseconds.
Fraction(value, n) == IF n > 6 THEN value \div 10 ^ (n - 6) ELSE value * 10 ^ (6 - n)

ParseTimePrefix(sv, pos) ==
  LET Fails(ec) == [ec |-> ec, to |-> <<0, 0, 0>>, pos |-> pos]
      InADay(h, m, s, us) == /\ h \in 0..24 /\ m \in 0..59 /\ s \in 0..59
                             /\ h = 24 => <<m, s, us>> = <<0, 0, 0>>
      Time(hms, us, p) ==
        IF ~ InADay(hms[1], hms[2], hms[3], us) THEN Fails("protocol_value_error")
        ELSE [ec |-> "ok", to |-> Duration(0, hms[1] * 3600 + hms[2] * 60 + hms[3], us), pos |-> p]
      AfterPoint(r, f, p) == IF p = r.ptr + 1 THEN Fails("protocol_value_error")
                             ELSE IF f.ec # "ok" THEN Fails(f.ec)
                             ELSE Time(r.value, Fraction(f.value, p - r.ptr - 1), p)
      Hms(r) == IF r.ec # "ok" THEN Fails(r.ec)
                ELSE IF CharAt(sv, r.ptr, 46)
                THEN AfterPoint(r, GetInt(sv, r.ptr + 1), DigitsEnd(sv, r.ptr + 1))
                ELSE Time(r.value, 0, r.ptr)
  IN  Hms(ThreeInts(sv, pos, 58))

\* An offset in seconds: nothing, a name of UTC, or a sign with HH, HH:MM or HHMM.
ParseTzSuffix(text) ==
  LET Digit(sv, i) == sv[i + 1] - 48
      TwoDigits(sv, q) == q + 2 = Len(sv) /\ IsDigit(sv[q + 1]) /\ IsDigit(sv[q + 2])
      Signed(sign, h, m) == IF h > 15 \/ m > 59 THEN Error("protocol_value_error", 0)
                            ELSE Ok((h * 3600 + m * 60) * (IF sign = 43 THEN 1 ELSE -1))
      Minutes(sv, h, q) == IF TwoDigits(sv, q) THEN Signed(sv[1], h, Digit(sv, q) * 10 + Digit(sv, q + 1))
                           ELSE Error("protocol_value_error", 0)
      Hours(sv, p, h) == IF p = 1 THEN Error("protocol_value_error", 0)
                         ELSE IF p = Len(sv) THEN Signed(sv[1], h, 0)
                         ELSE Minutes(sv, h, IF CharAt(sv, p, 58) THEN p + 1 ELSE p)
      Suffix(sv) == IF sv = <<>> \/ \E name \in UtcNames : IEquals(sv, name) THEN Ok(0)
                    ELSE IF sv[1] \notin {43, 45} THEN Error("protocol_value_error", 0)
                    ELSE Hours(sv, Min({DigitsEnd(sv, 1), 3}), GetInt(SubSeq(sv, 1, Min({3, Len(sv)})), 1).value)
  IN  Suffix(Trim(text))

----------------------------------------------------------------------------
(* The parsers.  T::max() and T::min() are the ends of what TLC computes.  *)

PgEpoch == SysDays(2000, 1, 1)

Bad == Error("protocol_value_error", 0)

ParseTextDate(b) ==
  LET Date(c) == DateOf(c.sv, c.bc)
  IN  ParseInfinity(b, Int32, Int32Min, Date(ConsumeBc(b)))

ParseBinaryDate(b) == IF Len(b) # 4 THEN Bad ELSE Ok(PgEpoch + LoadBig(b))

ParseTextTime(b) ==
  LET Whole(sv, r) == IF r.ec # "ok" THEN Error(r.ec, 0)
                      ELSE IF Trim(SubSeq(sv, r.pos + 1, Len(sv))) # <<>> THEN Bad ELSE Ok(r.to)
  IN  IF b = <<>> THEN Bad ELSE Whole(Trim(b), ParseTimePrefix(Trim(b), 0))

ParseBinaryTime(b) == IF Len(b) # 8 THEN Bad ELSE Ok(LoadMicros(b))

\* A time of day with an offset: what timetz and timestamptz have in common.
TimeAndOffset(sv) ==
  LET Offset(time, tz) == IF tz.ec # "ok" THEN tz ELSE Ok([time |-> time, offset |-> tz.to])
      Time(r) == IF r.ec # "ok" THEN Error(r.ec, 0)
                 ELSE Offset(r.to, ParseTzSuffix(SubSeq(sv, r.pos + 1, Len(sv))))
  IN  Time(ParseTimePrefix(sv, 0))

ParseTextTimetz(b) == TimeAndOffset(Trim(b))

SecondsEast(b) ==  \* mutant: the offset is taken to be east of UTC
  IF Len(b) # 12 THEN Bad
  ELSE Ok([time |-> LoadMicros(SubSeq(b, 1, 8)), offset |-> LoadBig(SubSeq(b, 9, 12))])

ParseBinaryTimetz(b) ==
  IF Len(b) # 12 THEN Bad
  ELSE Ok([time |-> LoadMicros(SubSeq(b, 1, 8)), offset |-> - LoadBig(SubSeq(b, 9, 12))])

\* parse_text_timestamp() and, with an offset, parse_text_timestamptz().
TextTimestamp(b, withOffset) ==
  LET Sum(date, time) == IF ~ withOffset THEN Plus(date, time)
                         ELSE Plus(Plus(date, time.time), Minus(Duration(0, time.offset, 0)))
      Stamp(date, time) == IF date.ec # "ok" THEN date
                           ELSE IF time.ec # "ok" THEN time
                           ELSE Ok(Sum(<<date.to, 0, 0>>, time.to))
      Time(sv) == IF withOffset THEN TimeAndOffset(sv) ELSE ParseTextTime(sv)
      Split(sv, bc, sep) == Stamp(DateOf(SubSeq(sv, 1, sep - 1), bc), Time(Trim(SubSeq(sv, sep + 1, Len(sv)))))
      Parts(c, seps) == IF seps = {} THEN Bad ELSE Split(c.sv, c.bc, Min(seps))
      Text(c) == Parts(c, {i \in 1..Len(c.sv) : c.sv[i] \in {32, 84}})
  IN  ParseInfinity(b, <<Int32, 0, 0>>, <<Int32Min, 0, 0>>, Text(ConsumeBc(b)))

ParseTextTimestamp(b) == TextTimestamp(b, FALSE)

ParseTextTimestamptz(b) == TextTimestamp(b, TRUE)

\* parse_binary_timestamp() and parse_binary_timestamptz()
ParseBinaryTimestamp(b) ==
  IF Len(b) # 8 THEN Bad ELSE Ok(Plus(<<PgEpoch, 0, 0>>, LoadMicros(b)))

Interval(months, days, time) == [months |-> months, days |-> days, time |-> time]

Year == <<121, 101, 97, 114>>
Mon == <<109, 111, 110>>
Day == <<100, 97, 121>>
Hour == <<104, 111, 117, 114>>
Minute == <<109, 105, 110, 117, 116, 101>>
Second == <<115, 101, 99, 111, 110, 100>>

\* What "value unit" adds to an interval; a unit may have an s.
Units(val) ==
  Year :> Interval(val * 12, 0, <<0, 0, 0>>) @@ Mon :> Interval(val, 0, <<0, 0, 0>>) @@
  Day :> Interval(0, val, <<0, 0, 0>>) @@ Hour :> Interval(0, 0, Duration(0, val * 3600, 0)) @@
  Minute :> Interval(0, 0, Duration(0, val * 60, 0)) @@ Second :> Interval(0, 0, Duration(0, val, 0))

AddInterval(x, y) == Interval(x.months + y.months, x.days + y.days, Plus(x.time, y.time))

\* The position after the characters from p on that satisfy P.
SkipWhile(sv, p, P(_)) ==
  Min({i \in p..Max({p, Len(sv)}) : i + 1 \in DOMAIN sv => ~ P(sv[i + 1])})

IsAlpha(x) == x \in 65..90 \union 97..122

\* One round of the loop of parse_text_interval() at a word: the parts read so
\* far plus a time of day, which has a colon, or a value and its unit.
IntervalPart(s, sv) ==
  LET AddTime(time, end) == IF time.ec # "ok" THEN [s EXCEPT !.ec = time.ec]
                            ELSE [s EXCEPT !.pos = end, !.to.time = Plus(@, time.to)]
      Negate(time) == IF time.ec = "ok" THEN Ok(Minus(time.to)) ELSE time
      AddUnit(units, unit, end) == IF unit = {} THEN [s EXCEPT !.ec = "protocol_value_error"]
                                   ELSE [s EXCEPT !.pos = end, !.to = AddInterval(@, units[CHOOSE k \in unit : TRUE])]
      Named(units, name, end) == AddUnit(units, {k \in DOMAIN units : name \in {k, Append(k, 115)}}, end)
      Word(val, u, end) == Named(Units(val), SubSeq(sv, u + 1, end), end)
      Unit(val, u) == Word(val, u, SkipWhile(sv, u, IsAlpha))
      Value(r, sign) == IF r.ec # "ok" THEN [s EXCEPT !.ec = "protocol_value_error"]
                        ELSE Unit(sign * r.value, SkipWhile(sv, r.ptr, IsSpace))
      Signed(time, sign) == IF sign = 1 THEN time ELSE Negate(time)
      Part(sign, p, end) ==
        IF \E i \in s.pos + 1..end : sv[i] = 58
        THEN AddTime(Signed(ParseTextTime(SubSeq(sv, p + 1, end)), sign), end)
        ELSE Value(GetInt(sv, p), sign)
  IN  Part(IF sv[s.pos + 1] = 45 THEN -1 ELSE 1,
           IF sv[s.pos + 1] \in {43, 45} THEN s.pos + 1 ELSE s.pos,
           SkipWhile(sv, s.pos, LAMBDA x : x \notin {9, 10, 13, 32}))

ParseTextInterval(b) ==
  LET RECURSIVE Loop(_)
      Loop(s) == LET Round(p) == IF p >= Len(b) THEN Ok(s.to)
                                 ELSE Loop(IntervalPart([s EXCEPT !.pos = p], b))
                 IN  IF s.ec # "ok" THEN Error(s.ec, 0) ELSE Round(SkipWhile(b, s.pos, IsSpace))
  IN  IF b = <<>> THEN Bad
      ELSE Loop([ec |-> "ok", pos |-> 0, to |-> Interval(0, 0, <<0, 0, 0>>)])

ParseBinaryInterval(b) ==
  IF Len(b) # 16 THEN Bad
  ELSE Ok(Interval(LoadBig(SubSeq(b, 13, 16)), LoadBig(SubSeq(b, 9, 12)), LoadMicros(SubSeq(b, 1, 8))))
=============================================================================
