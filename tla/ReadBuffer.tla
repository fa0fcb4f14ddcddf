----------------------------- MODULE ReadBuffer -----------------------------
(***************************************************************************)
(* protocol::detail::read_buffer, as operators on a record: size is size_, *)
(* co is committed_offset_, po is prepared_offset_ and mem is the memory   *)
(* that buffer_ owns, indexed from 0.  What a byte is does not matter.     *)
(***************************************************************************)
EXTENDS Integers, Sequences

CONSTANTS SizeBits,  \* the width of size_t
          Junk       \* what memory that was never written holds

SizeMax == 2 ^ SizeBits - 1

ASSUME SizeParams == SizeMax \in Nat \ {0}

\* std::bit_ceil(n), and the largest value when it would not fit.
Powers == {p \in 1..SizeMax : \E k \in 0..(SizeBits - 1) : p = 2 ^ k}

NextPowerOf2(n) ==
  LET S == {p \in Powers : p >= n}
  IN  IF S = {} THEN SizeMax ELSE CHOOSE p \in S : \A q \in S : p <= q

NewBuffer(initialSize) ==
  LET n == NextPowerOf2(initialSize)
  IN  [size |-> n, co |-> 0, po |-> 0, mem |-> [i \in 0..(n - 1) |-> Junk]]

Reset(b) == [b EXCEPT !.co = 0, !.po = 0]

CommittedSize(b) == b.po - b.co
PreparedSize(b)  == b.size - b.po

CommittedArea(b) == [i \in 1..CommittedSize(b) |-> b.mem[b.co + i - 1]]

\* memmove() and memcpy() of the committed area to the start of n bytes.
MoveToFront(b, n) ==
  [i \in 0..(n - 1) |->
     IF i < CommittedSize(b) THEN b.mem[b.co + i]
     ELSE IF i < b.size /\ n = b.size THEN b.mem[i] ELSE Junk]

GrowsWithoutCopying(b, required) ==  \* mutant: the bytes already read are forgotten
  IF PreparedSize(b) >= required THEN b
  ELSE IF b.co + PreparedSize(b) >= required
  THEN [b EXCEPT !.mem = MoveToFront(b, b.size), !.co = 0, !.po = @ - b.co]
  ELSE LET n == NextPowerOf2(CommittedSize(b) + required)
       IN  [size |-> n, co |-> 0, po |-> CommittedSize(b),
            mem |-> [i \in 0..(n - 1) |-> Junk]]

\* prepare(required): keep, move or reallocate.
Prepare(b, required) ==
  IF PreparedSize(b) >= required THEN b
  ELSE IF b.co + PreparedSize(b) >= required
  THEN [b EXCEPT !.mem = MoveToFront(b, b.size), !.co = 0, !.po = @ - b.co]
  ELSE LET n == NextPowerOf2(CommittedSize(b) + required)
       IN  [size |-> n, co |-> 0, po |-> CommittedSize(b), mem |-> MoveToFront(b, n)]

\* The bytes of data land in the prepared area that was handed to a read.
Fill(b, data) ==
  [b EXCEPT !.mem = [i \in 0..(b.size - 1) |->
     IF i >= b.po /\ i < b.po + Len(data) THEN data[i - b.po + 1] ELSE b.mem[i]]]

Commit(b, n) == [b EXCEPT !.po = @ + (IF n <= PreparedSize(b) THEN n ELSE PreparedSize(b))]

Consume(b, n) == [b EXCEPT !.co = @ + (IF n <= CommittedSize(b) THEN n ELSE CommittedSize(b))]
=============================================================================
