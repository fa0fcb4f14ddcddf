---------------------------- MODULE Conversions ----------------------------
(***************************************************************************)
(* Two conversions between the texts of the protocol and the values of the *)
(* program: base64 (base64.cpp), which the SCRAM messages are written in,  *)
(* and SQLSTATE codes (sqlstate.hpp, sqlstate.cpp), which become the       *)
(* std::error_code of a server error.  Characters are ASCII codes.         *)
(***************************************************************************)
EXTENDS Integers, Sequences, SequencesExt, FiniteSetsExt

CONSTANTS
  Secrets,     \* byte strings to be written in base64
  Codes,       \* SQLSTATE codes that servers send
  OtherChars,  \* what a character of a text may become
  Before       \* what the output buffers already hold

VARIABLES
  conversion,  \* "base64" or "sqlstate"
  given,       \* the bytes or the code
  text,        \* what arrives
  damaged,     \* whether that is something else than was sent
  converted    \* <<>>, or <<what the conversion returned>>

conversionVars == <<conversion, given, text, damaged, converted>>

Equals == 61  \* '='

\* decode() indexes its table with a char that may be negative: what it reads for
\* the other characters is outside the table.
ASSUME AsciiOnly == OtherChars \subseteq 0..127

\* alphabet[i], and inverse_tab[c], which is -1 for any other ASCII character.
Alphabet(i) == IF i < 26 THEN 65 + i ELSE IF i < 52 THEN 71 + i
               ELSE IF i < 62 THEN i - 4 ELSE IF i = 62 THEN 43 ELSE 47

InverseTab(c) == LET at == {i \in 0..63 : Alphabet(i) = c} IN IF at = {} THEN -1 ELSE CHOOSE i \in at : TRUE

\* encode(): groups of three bytes, and the one or two that are left.
EncodeGroup(b) ==
  LET at(i) == IF i <= Len(b) THEN b[i] ELSE 0
      all == <<Alphabet(at(1) \div 4), Alphabet((at(1) % 4) * 16 + at(2) \div 16),
               Alphabet((at(2) % 16) * 4 + at(3) \div 64), Alphabet(at(3) % 64)>>
  IN  [i \in 1..4 |-> IF i <= Len(b) + 1 THEN all[i] ELSE Equals]

\* mutant: the bytes that do not fill a group are left out.
WholeGroupsOnly(src, to) ==
  to \o FlattenSeq([g \in 1..Len(src) \div 3 |-> EncodeGroup(SubSeq(src, 3 * g - 2, 3 * g))])

Base64Encode(src, to) ==
  to \o FlattenSeq([g \in 1..(Len(src) + 2) \div 3 |-> EncodeGroup(SubSeq(src, 3 * g - 2, Min({3 * g, Len(src)})))])

GetPadding(from) ==
  (IF Last(from) = Equals THEN 1 ELSE 0) + (IF from[Len(from) - 1] = Equals THEN 1 ELSE 0)

DecodedSize(from) == IF from = <<>> THEN 0 ELSE (Len(from) * 3) \div 4 - GetPadding(from)

\* The values of a group of four characters, pad of which are padding, and the
\* bytes that they stand for.
GroupValues(from, g, pad) ==
  [i \in 1..4 |-> IF i > 4 - pad THEN 0 ELSE InverseTab(from[4 * g - 4 + i])]

GroupBytes(v, pad) ==
  SubSeq(<<v[1] * 4 + v[2] \div 16, (v[2] % 16) * 16 + v[3] \div 4, (v[3] % 4) * 64 + v[4]>>, 1, 3 - pad)

StopsQuietly(from) ==  \* mutant: an unknown character ends the text
  LET n == Len(from) \div 4
      pad(g) == IF g = n THEN GetPadding(from) ELSE 0
      vs(g) == GroupValues(from, g, pad(g))
      bad == {g \in 1..n : -1 \in ToSet(vs(g))}
  IN  [ok |-> TRUE, out |-> FlattenSeq([g \in 1..(IF bad = {} THEN n ELSE Min(bad) - 1) |-> GroupBytes(vs(g), pad(g))])]

\* decode(): the groups up to the first one that has a character it does not
\* know; what follows of the output, resized before, stays zero.
Decode(from) ==
  LET n == Len(from) \div 4
      pad(g) == IF g = n THEN GetPadding(from) ELSE 0
      vs(g) == GroupValues(from, g, pad(g))
      bad == {g \in 1..n : -1 \in ToSet(vs(g))}
      out == FlattenSeq([g \in 1..(IF bad = {} THEN n ELSE Min(bad) - 1) |-> GroupBytes(vs(g), pad(g))])
  IN  [ok |-> bad = {}, out |-> out \o [i \in 1..DecodedSize(from) - Len(out) |-> 0]]

Base64Decode(from, output) ==
  IF Len(from) % 4 # 0 THEN [ec |-> "invalid_base64", output |-> output]
  ELSE [ec |-> IF Decode(from).ok THEN "ok" ELSE "invalid_base64", output |-> output \o Decode(from).out]

----------------------------------------------------------------------------
ParseSqlstateChar(c) == IF c \in 48..57 THEN c - 48 ELSE IF c \in 65..90 THEN c - 55 ELSE -1

\* mutant: five bits for a character.
FiveBits(chars) ==
  LET c == [i \in 1..Len(chars) |-> ParseSqlstateChar(chars[i])]
  IN  IF Len(chars) # 5 \/ -1 \in ToSet(c) THEN -1 ELSE FoldLeft(LAMBDA n, d : n * 32 + d, 0, c)

\* Six bits for each of the five characters, or -1.
SqlstateAsInt(chars) ==
  LET c == [i \in 1..Len(chars) |-> ParseSqlstateChar(chars[i])]
  IN  IF Len(chars) # 5 \/ -1 \in ToSet(c) THEN -1 ELSE FoldLeft(LAMBDA n, d : n * 64 + d, 0, c)

\* 0 stands for '\0', the result for values that are not a character's.
UnparseSqlstateChar(v) == IF v \in 0..9 THEN 48 + v ELSE IF v \in 10..35 THEN 55 + v ELSE 0

SqlstateAsString(val) == [i \in 1..5 |-> UnparseSqlstateChar((val \div 64 ^ (5 - i)) % 64)]

IsValidSqlstate(val) == val \in 0..1073741823 /\ 0 \notin ToSet(SqlstateAsString(val))

\* The codes that mean what another one does, with that one: 01004 and 22001,
\* 39004 and 22004, 38002 to 38004 and 2F002 to 2F004.
Duplicates == {<<<<48, 49, 48, 48, 52>>, <<50, 50, 48, 48, 49>>>>, <<<<51, 57, 48, 48, 52>>, <<50, 50, 48, 48, 52>>>>}
                \union {<<<<51, 56, 48, 48, d>>, <<50, 70, 48, 48, d>>>> : d \in 50..52}

\* mutant: no code has a canonical one.
Unchanged(val) == val

DeduplicateSqlstateValue(val) ==
  LET same == {SqlstateAsInt(d[2]) : d \in {x \in Duplicates : SqlstateAsInt(x[1]) = val}}
  IN  IF same = {} THEN val ELSE CHOOSE v \in same : TRUE

\* sqlstate_category: the code in message(), and default_error_condition().
SqlstateMessage(val) == IF IsValidSqlstate(val) THEN SqlstateAsString(val) ELSE <<>>

DefaultErrorCondition(val) == IF IsValidSqlstate(val) THEN DeduplicateSqlstateValue(val) ELSE -1

----------------------------------------------------------------------------
ConversionInit ==
  /\ \/ conversion = "base64" /\ given \in Secrets /\ text = Base64Encode(given, <<>>)
     \/ conversion = "sqlstate" /\ given \in Codes /\ text = given
  /\ damaged = FALSE /\ converted = <<>>

\* A text that ends too soon, or has another character somewhere.
TextDamaged ==
  /\ ~ damaged /\ converted = <<>>
  /\ \/ \E n \in 0..Len(text) - 1 : text' = SubSeq(text, 1, n)
     \/ \E i \in 1..Len(text), c \in OtherChars : c # text[i] /\ text' = [text EXCEPT ![i] = c]
  /\ damaged' = TRUE
  /\ UNCHANGED <<conversion, given, converted>>

Convert ==
  /\ converted = <<>>
  /\ converted' = IF conversion = "base64" THEN <<Base64Decode(text, Before)>>
                  ELSE <<[value |-> SqlstateAsInt(text)]>>
  /\ UNCHANGED <<conversion, given, text, damaged>>

ConversionNext == TextDamaged \/ Convert

----------------------------------------------------------------------------
(* Base64 as RFC 4648 has it: the bits of the bytes, six by six.           *)

BitsOf(n, width) == [i \in 1..width |-> (n \div 2 ^ (width - i)) % 2]

NumberOfBits(bits) == FoldLeft(LAMBDA n, d : 2 * n + d, 0, bits)

Rfc4648(b) ==
  LET bits == FlattenSeq([i \in 1..Len(b) |-> BitsOf(b[i], 8)])
      chars == (Len(bits) + 5) \div 6
      bit(i) == IF i <= Len(bits) THEN bits[i] ELSE 0
      char(k) == Alphabet(NumberOfBits([i \in 1..6 |-> bit(6 * k - 6 + i)]))
  IN  [k \in 1..chars |-> char(k)] \o [k \in 1..(4 - (chars % 4)) % 4 |-> Equals]

\* How many of the last characters of a base64 text may be '='.
RightlyPadded(t) ==
  /\ Len(t) % 4 = 0
  /\ \E p \in {0, 1, 2} :
       p <= Len(t) /\ \A i \in 1..Len(t) : IF i > Len(t) - p THEN t[i] = Equals ELSE InverseTab(t[i]) # -1

\* base64_encode() writes what RFC 4648 says, and base64_decode() appends the
\* same bytes to its output after what that already held, whatever is left over
\* from the groups of three.
Base64RoundTrip ==
  conversion = "base64" /\ ~ damaged =>
    /\ text = Rfc4648(given)
    /\ converted # <<>> => converted[1] = [ec |-> "ok", output |-> Before \o given]

\* base64_decode() accepts exactly the texts of whole groups of characters of the
\* alphabet with at most two '=' at their end, and nothing is lost of these but
\* the bits that do not fill a byte; it never touches what the output held.
Base64Strict ==
  conversion = "base64" /\ converted # <<>> =>
    LET r == converted[1]
        out == SubSeq(r.output, Len(Before) + 1, Len(r.output))
        again == Base64Encode(out, <<>>)
    IN  /\ IsPrefix(Before, r.output)
        /\ r.ec = "ok" <=> RightlyPadded(text)
        /\ r.ec = "ok" =>
             /\ Len(again) = Len(text)
             /\ \A i \in 1..Len(text) :
                  again[i] = text[i] \/ (i < Len(text) /\ text[i + 1] = Equals)

\* A code of five digits and capital letters becomes an error whose message has
\* that code and anything else one that says so, never another code; only 00000
\* is no error; and the condition it compares equal to is that of its code or of
\* the one it duplicates, which is its own.
SqlstateKept ==
  conversion = "sqlstate" /\ converted # <<>> =>
    LET val == converted[1].value
        ok == Len(text) = 5 /\ \A i \in 1..Len(text) : text[i] \in 48..57 \union 65..90
        cond == DefaultErrorCondition(val)
    IN  /\ SqlstateMessage(val) = IF ok THEN text ELSE <<>>
        /\ val = 0 <=> text = <<48, 48, 48, 48, 48>>
        /\ cond = -1 <=> ~ ok
        /\ ok => /\ SqlstateMessage(cond) = text \/ <<text, SqlstateMessage(cond)>> \in Duplicates
                 /\ \A d \in Duplicates : text = d[1] => SqlstateMessage(cond) = d[2]
                 /\ DefaultErrorCondition(cond) = cond

\* Bytes survive base64 and codes survive SQLSTATE, and nothing else is accepted.
ConversionsKeep == Base64RoundTrip /\ Base64Strict /\ SqlstateKept

=============================================================================
