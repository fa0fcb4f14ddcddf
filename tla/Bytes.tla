------------------------------- MODULE Bytes -------------------------------
(***************************************************************************)
(* Numbers as bytes: boost::endian and std::from_chars/to_chars, which the *)
(* library uses for everything that it reads and writes.  TLC computes     *)
(* with 32 bits, so wider numbers are only met within that range.          *)
(***************************************************************************)
EXTENDS Integers, Sequences, SequencesExt, FiniteSetsExt, TLC

\* boost::endian::load_big_s16, load_big_s32 and endian_load<.., order::big>.
LoadBig(b) ==
  FoldLeft(LAMBDA n, d : n * 256 + d, IF b[1] > 127 THEN -1 ELSE 0, b)

\* boost::endian::store_big_s16, store_big_s32 and endian_store<.., order::big>.
StoreBig(n, width) ==
  [i \in 1..width |-> IF width - i > 3 THEN (IF n < 0 THEN 255 ELSE 0)
                      ELSE (n \div 256 ^ (width - i)) % 256]

\* b with the bytes at position p (from 0) replaced by w.
StoreAt(b, p, w) == [i \in 1..Len(b) |-> IF i \in p + 1..p + Len(w) THEN w[i - p] ELSE b[i]]

IsDigit(x) == x \in 48..57

\* The position after the digits that start at p.
RECURSIVE DigitsEnd(_, _)
DigitsEnd(b, p) == IF p < Len(b) /\ IsDigit(b[p + 1]) THEN DigitsEnd(b, p + 1) ELSE p

\* std::from_chars(first, last, n) for an integer between lo and hi.
FromChars(b, p, lo, hi) ==
  LET neg == lo < 0 /\ p < Len(b) /\ b[p + 1] = 45
      q == IF neg THEN p + 1 ELSE p
      RECURSIVE Go(_, _)
      Go(i, n) == IF i = DigitsEnd(b, q) THEN [ec |-> "ok", value |-> n, ptr |-> i]
                  ELSE LET d == b[i + 1] - 48
                       IN  IF neg /\ n >= (lo + d + 9) \div 10 THEN Go(i + 1, n * 10 - d)
                           ELSE IF ~ neg /\ n <= (hi - d) \div 10 THEN Go(i + 1, n * 10 + d)
                           ELSE [ec |-> "result_out_of_range", value |-> 0, ptr |-> DigitsEnd(b, q)]
  IN  IF DigitsEnd(b, q) = q THEN [ec |-> "invalid_argument", value |-> 0, ptr |-> p]
      ELSE Go(q, 0)

\* The digits of a number, and std::to_chars().
RECURSIVE Digits(_)
Digits(n) == (IF n > 9 THEN Digits(n \div 10) ELSE <<>>) \o <<48 + (n % 10)>>

ToChars(n) == IF n < 0 THEN <<45>> \o Digits(-n) ELSE Digits(n)
=============================================================================
