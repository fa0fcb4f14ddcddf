--------------------------- MODULE Buffers_proofs ---------------------------
(***************************************************************************)
(* Proofs about the two buffers between the socket and those who read from *)
(* it: the read buffer, for every initial size, every width of size_t and  *)
(* every sequence of reads, and the queue of notifications, for any limit  *)
(* and any set of consumers.                                               *)
(***************************************************************************)
EXTENDS ReadBufferUse, NotificationQueue, SequenceTheorems, WellFoundedInduction, TLAPS

-----------------------------------------------------------------------------
(* The read buffer *)

\* A set of naturals that is not empty has a least element.
LEMMA LeastNatural ==
  ASSUME NEW S \in SUBSET Nat, S # {}
  PROVE  \E p \in S : \A q \in S : p <= q
<1> DEFINE R == OpToRel(<, Nat)
<1>1. IsWellFoundedOn(R, Nat)
  BY NatLessThanWellFounded
<1>2. PICK p \in S : \A q \in S : ~(<<q, p>> \in R)
  BY <1>1, WFMin
<1>3. \A q \in S : ~(q < p)
  BY <1>2 DEF OpToRel
<1> QED BY <1>3

\* next_power_of_2() returns a size that is positive and large enough.
LEMMA PowerIsEnough ==
  ASSUME NEW n \in 0..SizeMax
  PROVE  NextPowerOf2(n) \in 1..SizeMax /\ NextPowerOf2(n) >= n
<1> DEFINE S == {p \in Powers : p >= n}
<1> USE SizeParams
<1>1. S \subseteq 1..SizeMax /\ \A p \in S : p >= n
  BY DEF Powers
<1>2. CASE S = {}
  BY <1>2 DEF NextPowerOf2
<1>3. CASE S # {}
  <2>1. \E p \in S : \A q \in S : p <= q
    <3>1. S \in SUBSET Nat
      BY <1>1
    <3> HIDE DEF S
    <3> QED BY <3>1, <1>3, LeastNatural
  <2>2. NextPowerOf2(n) = CHOOSE p \in S : \A q \in S : p <= q
    BY <1>3 DEF NextPowerOf2
  <2>3. NextPowerOf2(n) \in S
    BY <2>1, <2>2
  <2> QED BY <2>3, <1>1
<1> QED BY <1>2, <1>3

-----------------------------------------------------------------------------
(* The operations of the buffer *)

IsBuffer(b) ==
  /\ b = [size |-> b.size, co |-> b.co, po |-> b.po, mem |-> b.mem]
  /\ b.size \in 1..SizeMax
  /\ b.co \in Nat /\ b.po \in Nat
  /\ b.mem \in [0..(b.size - 1) -> Byte \cup {Junk}]
  /\ b.co <= b.po /\ b.po <= b.size

\* The first n bytes after a move are the committed ones.
LEMMA MoveKeepsCommitted ==
  ASSUME NEW b, IsBuffer(b), NEW n \in 1..SizeMax, n >= CommittedSize(b)
  PROVE  /\ MoveToFront(b, n) \in [0..(n - 1) -> Byte \cup {Junk}]
         /\ \A i \in 0..(CommittedSize(b) - 1) : MoveToFront(b, n)[i] = b.mem[b.co + i]
<1> USE SizeParams
<1>1. b.co \in Nat /\ b.po \in Nat /\ b.size \in Nat /\ b.co <= b.po /\ b.po <= b.size
  BY DEF IsBuffer
<1>2. CommittedSize(b) \in Nat
  BY <1>1 DEF CommittedSize
<1>3. \A i \in 0..(CommittedSize(b) - 1) : b.mem[b.co + i] \in Byte \cup {Junk}
  BY <1>1 DEF IsBuffer, CommittedSize
<1>4. \A i \in 0..(b.size - 1) : b.mem[i] \in Byte \cup {Junk}
  BY DEF IsBuffer
<1> QED BY <1>1, <1>2, <1>3, <1>4 DEF MoveToFront

\* prepare() makes the room that is asked for and keeps the committed bytes; the
\* buffer grows only if both do not fit.
LEMMA PrepareKeepsCommitted ==
  ASSUME NEW b, IsBuffer(b), NEW n \in Nat, CommittedSize(b) + n <= SizeMax
  PROVE  LET c == Prepare(b, n)
         IN  /\ IsBuffer(c)
             /\ PreparedSize(c) >= n
             /\ CommittedSize(c) = CommittedSize(b)
             /\ \A i \in 0..(CommittedSize(b) - 1) : c.mem[c.co + i] = b.mem[b.co + i]
             /\ c.size # b.size => c.size > b.size /\ CommittedSize(b) + n > b.size
<1> DEFINE c == Prepare(b, n)
           k == CommittedSize(b)
<1> USE SizeParams
<1>1. b.co \in Nat /\ b.po \in Nat /\ b.size \in 1..SizeMax /\ b.co <= b.po /\ b.po <= b.size
  BY DEF IsBuffer
<1>2. k \in Nat /\ k = b.po - b.co /\ k <= b.size
  BY <1>1 DEF CommittedSize
<1>3. CASE PreparedSize(b) >= n
  BY <1>3, <1>1 DEF Prepare
<1>4. CASE ~(PreparedSize(b) >= n) /\ b.co + PreparedSize(b) >= n
  <2>1. c = [b EXCEPT !.mem = MoveToFront(b, b.size), !.co = 0, !.po = @ - b.co]
    BY <1>4 DEF Prepare
  <2>2. c = [size |-> b.size, co |-> 0, po |-> k, mem |-> MoveToFront(b, b.size)]
    BY <2>1, <1>2 DEF IsBuffer
  <2>3. /\ MoveToFront(b, b.size) \in [0..(b.size - 1) -> Byte \cup {Junk}]
        /\ \A i \in 0..(k - 1) : MoveToFront(b, b.size)[i] = b.mem[b.co + i]
    BY <1>1, <1>2, MoveKeepsCommitted
  <2> QED BY SMTT(30), <2>2, <2>3, <1>1, <1>2, <1>4 DEF IsBuffer, CommittedSize, PreparedSize
<1>5. CASE ~(PreparedSize(b) >= n) /\ ~(b.co + PreparedSize(b) >= n)
  <2> DEFINE m == NextPowerOf2(k + n)
  <2>1. c = [size |-> m, co |-> 0, po |-> k, mem |-> MoveToFront(b, m)]
    BY <1>5 DEF Prepare
  <2>2. m \in 1..SizeMax /\ m >= k + n
    BY <1>2, PowerIsEnough
  <2> HIDE DEF m
  <2>3. /\ MoveToFront(b, m) \in [0..(m - 1) -> Byte \cup {Junk}]
        /\ \A i \in 0..(k - 1) : MoveToFront(b, m)[i] = b.mem[b.co + i]
    BY <1>2, <2>2, MoveKeepsCommitted
  <2> HIDE DEF c
  <2>4. c.size = m /\ c.co = 0 /\ c.po = k /\ c.mem = MoveToFront(b, m)
    BY <2>1
  <2>5. IsBuffer(c)
    BY <2>1, <2>2, <2>3, <2>4, <1>2 DEF IsBuffer
  <2>6. PreparedSize(c) >= n /\ CommittedSize(c) = k
    BY <2>2, <2>4, <1>2 DEF CommittedSize, PreparedSize
  <2>7. \A i \in 0..(k - 1) : c.mem[c.co + i] = b.mem[b.co + i]
    BY <2>3, <2>4, <1>2
  <2>8. c.size > b.size /\ k + n > b.size
    BY <2>2, <2>4, <1>1, <1>2, <1>5 DEF PreparedSize
  <2> QED BY <2>5, <2>6, <2>7, <2>8 DEF c
<1> QED BY <1>3, <1>4, <1>5

\* Bytes read into the prepared area and committed come after the others.
LEMMA FillAppends ==
  ASSUME NEW b, IsBuffer(b), NEW data \in Seq(Byte), Len(data) <= PreparedSize(b)
  PROVE  LET c == Commit(Fill(b, data), Len(data))
         IN  /\ IsBuffer(c)
             /\ c.size = b.size
             /\ CommittedSize(c) = CommittedSize(b) + Len(data)
             /\ \A i \in 0..(CommittedSize(b) - 1) : c.mem[c.co + i] = b.mem[b.co + i]
             /\ \A i \in 1..Len(data) : c.mem[c.co + CommittedSize(b) + i - 1] = data[i]
<1> DEFINE c == Commit(Fill(b, data), Len(data))
           filled == [i \in 0..(b.size - 1) |->
             IF i >= b.po /\ i < b.po + Len(data) THEN data[i - b.po + 1] ELSE b.mem[i]]
<1> USE SizeParams
<1>1. b.co \in Nat /\ b.po \in Nat /\ b.size \in 1..SizeMax /\ b.co <= b.po /\ b.po <= b.size
  BY DEF IsBuffer
<1>2. Len(data) \in Nat /\ b.po + Len(data) <= b.size
  BY <1>1 DEF PreparedSize
<1>3. Fill(b, data) = [size |-> b.size, co |-> b.co, po |-> b.po, mem |-> filled]
  <2>1. Fill(b, data) = [b EXCEPT !.mem = filled]
    BY DEF Fill
  <2> HIDE DEF filled
  <2> QED BY <2>1 DEF IsBuffer
<1>4. filled \in [0..(b.size - 1) -> Byte \cup {Junk}]
  <2>1. \A i \in 0..(b.size - 1) : b.mem[i] \in Byte \cup {Junk}
    BY DEF IsBuffer
  <2>2. \A i \in 1..Len(data) : data[i] \in Byte
    OBVIOUS
  <2> QED BY <2>1, <2>2, <1>1, <1>2
<1>5. /\ \A i \in 0..(b.po - 1) : filled[i] = b.mem[i]
      /\ \A i \in 1..Len(data) : filled[b.po + i - 1] = data[i]
  <2>1. \A i \in 0..(b.po - 1) : filled[i] = b.mem[i]
    BY <1>1, <1>2
  <2>2. ASSUME NEW i \in 1..Len(data) PROVE filled[b.po + i - 1] = data[i]
    <3> DEFINE j == b.po + i - 1
    <3>1. j \in 0..(b.size - 1) /\ j >= b.po /\ j < b.po + Len(data) /\ j - b.po + 1 = i
      BY <1>1, <1>2
    <3> HIDE DEF j
    <3>2. filled[j] = data[j - b.po + 1]
      BY <3>1
    <3> QED BY <3>1, <3>2 DEF j
  <2> QED BY <2>1, <2>2
<1> HIDE DEF filled
<1>6. c = [size |-> b.size, co |-> b.co, po |-> b.po + Len(data), mem |-> filled]
  BY <1>2, <1>3 DEF Commit, PreparedSize
<1> HIDE DEF c
<1>7. c.size = b.size /\ c.co = b.co /\ c.po = b.po + Len(data) /\ c.mem = filled
  BY <1>6
<1>8. IsBuffer(c)
  BY <1>1, <1>2, <1>4, <1>6, <1>7 DEF IsBuffer
<1>9. CommittedSize(c) = CommittedSize(b) + Len(data)
  BY <1>1, <1>2, <1>7 DEF CommittedSize
<1>10. \A i \in 0..(CommittedSize(b) - 1) : c.mem[c.co + i] = b.mem[b.co + i]
  BY <1>1, <1>5, <1>7 DEF CommittedSize
<1>11. \A i \in 1..Len(data) : c.mem[c.co + CommittedSize(b) + i - 1] = data[i]
  <2>1. \A i \in 1..Len(data) : c.co + CommittedSize(b) + i - 1 = b.po + i - 1
    BY <1>1, <1>7 DEF CommittedSize
  <2> QED BY <2>1, <1>5, <1>7
<1> QED BY <1>7, <1>8, <1>9, <1>10, <1>11 DEF c

-----------------------------------------------------------------------------
(* The use of the buffer *)

\* The inductive invariant: the buffer is well formed, its committed bytes are
\* the unread ones, and a read in progress has the room that it asked for.
BufferInv ==
  /\ IsBuffer(buf)
  /\ room \in 0..MaxRequired
  /\ received \in Seq(Byte)
  /\ consumed \in 0..Len(received)
  /\ CommittedSize(buf) = Len(received) - consumed
  /\ \A i \in 0..(CommittedSize(buf) - 1) : buf.mem[buf.co + i] = received[consumed + i + 1]
  /\ ReadHasRoom

\* A new buffer is empty.
LEMMA InitBuffer == UseInit => BufferInv
<1> SUFFICES ASSUME UseInit PROVE BufferInv
  OBVIOUS
<1> DEFINE n == NextPowerOf2(InitialSize)
<1>1. n \in 1..SizeMax
  BY UseParams, PowerIsEnough
<1>2. buf = [size |-> n, co |-> 0, po |-> 0, mem |-> [i \in 0..(n - 1) |-> Junk]]
  BY DEF UseInit, NewBuffer
<1> HIDE DEF n
<1>3. IsBuffer(buf) /\ CommittedSize(buf) = 0 /\ PreparedSize(buf) >= 0
  BY <1>1, <1>2, SizeParams DEF IsBuffer, CommittedSize, PreparedSize
<1> QED BY <1>3, UseParams DEF UseInit, BufferInv, ReadHasRoom

\* Making room for a read disturbs nothing.
LEMMA BeginReadInv ==
  ASSUME BufferInv, NEW required \in 1..MaxRequired, BeginRead(required)
  PROVE  BufferInv' /\ (buf'.size # buf.size =>
                           buf'.size > buf.size /\ CommittedSize(buf) + room' > buf.size)
<1> DEFINE c == Prepare(buf, required)
<1> USE SizeParams, UseParams
<1>1. IsBuffer(buf) /\ CommittedSize(buf) + required <= SizeMax /\ required \in Nat
  BY DEF BufferInv, BeginRead
<1>2. /\ IsBuffer(c)
      /\ PreparedSize(c) >= required
      /\ CommittedSize(c) = CommittedSize(buf)
      /\ \A i \in 0..(CommittedSize(buf) - 1) : c.mem[c.co + i] = buf.mem[buf.co + i]
      /\ c.size # buf.size => c.size > buf.size /\ CommittedSize(buf) + required > buf.size
  BY <1>1, PrepareKeepsCommitted
<1>3. buf' = c /\ room' = required /\ received' = received /\ consumed' = consumed
  BY DEF BeginRead
<1> HIDE DEF c
<1>4. \A i \in 0..(CommittedSize(c) - 1) : c.mem[c.co + i] = received[consumed + i + 1]
  BY <1>2 DEF BufferInv
<1>5. CommittedSize(buf)' = CommittedSize(c) /\ PreparedSize(buf)' = PreparedSize(c)
      /\ IsBuffer(buf)' = IsBuffer(c)
  BY <1>3 DEF CommittedSize, PreparedSize, IsBuffer
<1> QED BY <1>2, <1>3, <1>4, <1>5 DEF BufferInv, ReadHasRoom

\* A read that ends appends its bytes to the unread ones.
LEMMA EndReadInv ==
  ASSUME BufferInv, NEW data \in Seq(Byte), EndRead(data)
  PROVE  BufferInv' /\ buf'.size = buf.size
<1> DEFINE c == Commit(Fill(buf, data), Len(data))
           k == CommittedSize(buf)
<1> USE UseParams
<1>1. IsBuffer(buf) /\ Len(data) <= PreparedSize(buf) /\ Len(data) \in Nat
  BY DEF BufferInv, EndRead
<1>2. /\ IsBuffer(c)
      /\ c.size = buf.size
      /\ CommittedSize(c) = k + Len(data)
      /\ \A i \in 0..(k - 1) : c.mem[c.co + i] = buf.mem[buf.co + i]
      /\ \A i \in 1..Len(data) : c.mem[c.co + k + i - 1] = data[i]
  BY <1>1, FillAppends
<1>3. buf' = c /\ room' = 0 /\ received' = received \o data /\ consumed' = consumed
  BY DEF EndRead
<1>4. /\ k \in Nat /\ Len(received) \in Nat /\ consumed \in Nat
      /\ k = Len(received) - consumed /\ received \in Seq(Byte)
  BY <1>1 DEF BufferInv
<1> HIDE DEF c, k
<1>5. /\ received' \in Seq(Byte) /\ Len(received') = Len(received) + Len(data)
      /\ \A i \in 1..Len(received) : received'[i] = received[i]
      /\ \A i \in 1..Len(data) : received'[Len(received) + i] = data[i]
  BY <1>3, <1>4, <1>1
<1>6. c.co \in Nat
  BY <1>2 DEF IsBuffer
<1>7. ASSUME NEW i \in 0..(k + Len(data) - 1)
      PROVE  c.mem[c.co + i] = received'[consumed + i + 1]
  <2>1. CASE i < k
    <3>1. c.mem[c.co + i] = received[consumed + i + 1]
      BY SMTT(30), <2>1, <1>2, <1>4 DEF BufferInv, k
    <3>2. consumed + i + 1 \in 1..Len(received)
      BY <2>1, <1>4
    <3> QED BY <3>1, <3>2, <1>5
  <2>2. CASE i >= k
    <3> DEFINE j == i - k + 1
    <3>1. j \in 1..Len(data) /\ c.co + k + j - 1 = c.co + i
          /\ Len(received) + j = consumed + i + 1
      BY <2>2, <1>1, <1>4, <1>6
    <3> HIDE DEF j
    <3>2. c.mem[c.co + k + j - 1] = data[j] /\ received'[Len(received) + j] = data[j]
      BY <3>1, <1>2, <1>5
    <3> QED BY <3>1, <3>2
  <2> QED BY <2>1, <2>2, <1>1, <1>4
<1>8. CommittedSize(buf)' = CommittedSize(c) /\ IsBuffer(buf)' = IsBuffer(c)
      /\ PreparedSize(buf)' = PreparedSize(c)
  BY <1>3 DEF CommittedSize, IsBuffer, PreparedSize
<1>9. PreparedSize(c) >= 0
  BY <1>2, SizeParams DEF IsBuffer, PreparedSize
<1> QED BY SMTT(30), <1>1, <1>2, <1>3, <1>4, <1>5, <1>7, <1>8, <1>9 DEF BufferInv, ReadHasRoom

\* Consuming removes bytes from the front of the unread ones only.
LEMMA ConsumeInv ==
  ASSUME BufferInv, NEW n \in Nat, ConsumeSome(n)
  PROVE  BufferInv' /\ buf'.size = buf.size
<1> DEFINE m == IF n <= CommittedSize(buf) THEN n ELSE CommittedSize(buf)
<1> USE SizeParams, UseParams
<1>1. /\ buf.co \in Nat /\ buf.po \in Nat /\ buf.size \in Nat
      /\ buf.co <= buf.po /\ buf.po <= buf.size /\ CommittedSize(buf) = buf.po - buf.co
  BY DEF BufferInv, IsBuffer, CommittedSize
<1>2. m \in 0..CommittedSize(buf)
  BY <1>1
<1>3. /\ room = 0 /\ room' = 0 /\ received' = received /\ consumed' = consumed + m
      /\ buf' = [buf EXCEPT !.co = @ + m]
  BY DEF ConsumeSome, Consume
<1> HIDE DEF m
<1>4. buf' = [size |-> buf.size, co |-> buf.co + m, po |-> buf.po, mem |-> buf.mem]
  BY SMTT(30), <1>3 DEF BufferInv, IsBuffer
<1>5. buf'.size = buf.size /\ buf'.co = buf.co + m /\ buf'.po = buf.po /\ buf'.mem = buf.mem
  BY <1>4
<1>6. IsBuffer(buf)'
  BY SMTT(30), <1>1, <1>2, <1>4, <1>5 DEF BufferInv, IsBuffer
<1>7. CommittedSize(buf)' = CommittedSize(buf) - m
  BY <1>1, <1>2, <1>5 DEF CommittedSize
<1>8. ASSUME NEW i \in 0..(CommittedSize(buf)' - 1)
      PROVE  buf'.mem[buf'.co + i] = received'[consumed' + i + 1]
  <2>1. i + m \in 0..(CommittedSize(buf) - 1)
    BY <1>1, <1>2, <1>7
  <2>2. buf.mem[buf.co + (i + m)] = received[consumed + (i + m) + 1]
    BY <2>1 DEF BufferInv
  <2>3. consumed \in Nat /\ i \in Nat /\ m \in Nat
    BY <1>1, <1>2, <2>1 DEF BufferInv
  <2>4. buf.co + (i + m) = buf'.co + i
    BY <1>1, <1>5, <2>3
  <2>5. consumed + (i + m) + 1 = consumed' + i + 1
    BY <1>3, <2>3
  <2> QED BY <2>2, <2>4, <2>5, <1>3, <1>5
<1>9. ReadHasRoom'
  BY <1>1, <1>3, <1>5 DEF ReadHasRoom, PreparedSize
<1>10. consumed' \in 0..Len(received') /\ CommittedSize(buf)' = Len(received') - consumed'
  <2>1. /\ Len(received) \in Nat /\ consumed \in 0..Len(received)
        /\ CommittedSize(buf) = Len(received) - consumed
    BY DEF BufferInv
  <2> QED BY SMTT(30), <2>1, <1>2, <1>3, <1>7
<1>11. room' \in 0..MaxRequired /\ received' \in Seq(Byte)
  BY <1>3 DEF BufferInv
<1> QED BY <1>5, <1>6, <1>8, <1>9, <1>10, <1>11 DEF BufferInv

\* reset() leaves an empty buffer.
LEMMA DiscardInv ==
  ASSUME BufferInv, DiscardAll
  PROVE  BufferInv' /\ buf'.size = buf.size
<1> USE SizeParams, UseParams
<1>1. buf' = [size |-> buf.size, co |-> 0, po |-> 0, mem |-> buf.mem]
  BY DEF DiscardAll, Reset, BufferInv, IsBuffer
<1>2. buf'.size = buf.size /\ buf'.co = 0 /\ buf'.po = 0 /\ buf'.mem = buf.mem
  BY <1>1
<1>3. IsBuffer(buf)' /\ CommittedSize(buf)' = 0 /\ PreparedSize(buf)' >= 0
  BY <1>1, <1>2 DEF BufferInv, IsBuffer, CommittedSize, PreparedSize
<1> QED BY <1>2, <1>3 DEF DiscardAll, BufferInv, ReadHasRoom

\* Every step keeps the invariant, and the buffer grows only when it is full.
LEMMA NextBuffer ==
  ASSUME BufferInv, UseNext
  PROVE  BufferInv' /\ (buf'.size # buf.size =>
                           buf'.size > buf.size /\ CommittedSize(buf) + room' > buf.size)
<1>1. CASE \E required \in 1..MaxRequired : BeginRead(required)
  BY <1>1, BeginReadInv
<1>2. CASE \E n \in 1..(MaxReceived - Len(received)) : \E data \in [1..n -> Byte] : EndRead(data)
  <2>1. PICK n \in 1..(MaxReceived - Len(received)) : \E data \in [1..n -> Byte] : EndRead(data)
    BY <1>2
  <2>2. PICK data \in [1..n -> Byte] : EndRead(data)
    BY <2>1
  <2>3. n \in Nat
    BY UseParams DEF BufferInv
  <2>4. data \in Seq(Byte)
    BY <2>3
  <2> QED BY <2>2, <2>4, EndReadInv
<1>3. CASE FailRead
  BY SMTT(30), <1>3, UseParams, SizeParams DEF FailRead, BufferInv, IsBuffer, CommittedSize, PreparedSize,
     ReadHasRoom
<1>4. CASE \E n \in 1..MaxRequired : ConsumeSome(n)
  BY <1>4, UseParams, ConsumeInv
<1>5. CASE DiscardAll
  BY <1>5, DiscardInv
<1> QED BY <1>1, <1>2, <1>3, <1>4, <1>5 DEF UseNext

\* The invariant holds in every reachable state.
LEMMA BufferInvariant == UseSpec => []BufferInv
<1>1. BufferInv /\ [UseNext]_useVars => BufferInv'
  <2> SUFFICES ASSUME BufferInv, [UseNext]_useVars PROVE BufferInv'
    OBVIOUS
  <2>1. CASE UseNext
    BY <2>1, NextBuffer
  <2>2. CASE UNCHANGED useVars
    BY <2>2 DEF useVars, BufferInv, IsBuffer, CommittedSize, PreparedSize, ReadHasRoom
  <2> QED BY <2>1, <2>2
<1> QED BY <1>1, InitBuffer, PTL DEF UseSpec

\* The committed area always holds exactly the bytes that were received and not
\* consumed, in order: what parse_message() is given is what the server sent.
THEOREM UnreadBytesKept == UseSpec => []CommittedIsUnread
<1>1. BufferInv => CommittedIsUnread
  <2> SUFFICES ASSUME BufferInv PROVE CommittedIsUnread
    OBVIOUS
  <2>1. CommittedSize(buf) \in Nat /\ buf.co \in Nat /\ consumed \in Nat
    BY DEF BufferInv, IsBuffer, CommittedSize
  <2>2. ASSUME NEW i \in 1..CommittedSize(buf)
        PROVE  CommittedArea(buf)[i] = received[consumed + i]
    <3>1. i - 1 \in 0..(CommittedSize(buf) - 1)
      BY <2>1
    <3>2. buf.mem[buf.co + (i - 1)] = received[consumed + (i - 1) + 1]
      BY <3>1 DEF BufferInv
    <3>3. buf.co + (i - 1) = buf.co + i - 1 /\ consumed + (i - 1) + 1 = consumed + i
      BY <2>1
    <3>4. CommittedArea(buf)[i] = buf.mem[buf.co + i - 1]
      BY DEF CommittedArea
    <3> QED BY <3>2, <3>3, <3>4
  <2> QED BY <2>2 DEF BufferInv, CommittedIsUnread
<1> QED BY <1>1, BufferInvariant, PTL

\* A read in progress has at least the room that prepare() was asked for.
THEOREM ReadsHaveRoom == UseSpec => []ReadHasRoom
<1>1. BufferInv => ReadHasRoom
  BY DEF BufferInv
<1> QED BY <1>1, BufferInvariant, PTL

\* prepare() reallocates only when moving the committed bytes would not do.
THEOREM GrowthIsNeeded == UseSpec => GrowsOnlyIfFull
<1>1. BufferInv /\ [UseNext]_useVars =>
        [buf'.size # buf.size =>
           /\ buf'.size > buf.size
           /\ CommittedSize(buf) + room' > buf.size]_useVars
  BY NextBuffer
<1> QED BY <1>1, BufferInvariant, PTL DEF UseSpec, GrowsOnlyIfFull

-----------------------------------------------------------------------------
(* The queue of notifications *)

\* The events are exact, so that clear() never takes away a signal that someone
\* still needs.
ExactEvents ==
  /\ eventsAvail <=> pending # <<>>
  /\ spaceAvail <=> HasSpace(pending)

\* The queue goes over the limit by a connect and a disconnect only, because no
\* notification is added past the limit: if the connection is up, a connect is
\* then the last event, and it is what a disconnect takes back.
Overshoot ==
  /\ Len(pending) <= MaxPending + 2
  /\ prod = "down" => Len(pending) <= MaxPending + 1
  /\ Connected /\ Len(pending) > MaxPending => Back(pending).type = "connect"

QueueInv == TypeOK /\ ExactEvents /\ Overshoot /\ NobodyOversleeps

-----------------------------------------------------------------------------
\* What Append() and taking back the last element do to a sequence of events.
LEMMA AppendProps ==
  ASSUME NEW q \in Seq(Event), NEW e \in Event
  PROVE  /\ Append(q, e) \in Seq(Event)
         /\ Len(Append(q, e)) = Len(q) + 1
         /\ Back(Append(q, e)) = e
         /\ Append(q, e) # <<>>
  BY SMT DEF Back

LEMMA PrefixProps ==
  ASSUME NEW q \in Seq(Event), NEW n \in Nat, n <= Len(q)
  PROVE  SubSeq(q, 1, n) \in Seq(Event) /\ Len(SubSeq(q, 1, n)) = n
  BY SMT

LEMMA TakeBackProps ==
  ASSUME NEW q \in Seq(Event), q # <<>>
  PROVE  /\ SubSeq(q, 1, Len(q) - 1) \in Seq(Event)
         /\ Len(SubSeq(q, 1, Len(q) - 1)) = Len(q) - 1
  <1>1. Len(q) \in Nat \ {0}
    BY EmptySeq
  <1>2. Len(q) - 1 \in Nat /\ Len(q) - 1 <= Len(q)
    BY <1>1, SMT
  <1>. QED
    BY <1>2, PrefixProps, Zenon

LEMMA EventTypes ==
  /\ Connect \in Event /\ Disconnect \in Event
  /\ \A n \in Nat : Notify(n) \in Event
  BY SMT DEF Connect, Disconnect, Notify, Event

\* add_event() preserves what it touches of the invariant; it is never called
\* with more than max_pending + 1 events in the queue.
LEMMA AddEventProps ==
  ASSUME QueueInv, NEW e \in Event, AddEvent(e)
  PROVE  /\ pending' \in Seq(Event) /\ Len(pending') = Len(pending) + 1
         /\ Len(pending) \in Nat
         /\ Back(pending)' = e
         /\ ExactEvents'
         /\ cons' \in [Consumers -> {"out", "asleep", "woken"}]
         /\ \A c \in Consumers : cons'[c] # "asleep"
         /\ eventsAvail' \in BOOLEAN /\ spaceAvail' \in BOOLEAN
  <1>1. pending \in Seq(Event) /\ pending' = Append(pending, e)
    BY DEF QueueInv, TypeOK, AddEvent
  <1>2. /\ pending' \in Seq(Event) /\ Len(pending') = Len(pending) + 1
        /\ pending' # <<>> /\ Back(pending)' = e
    BY <1>1, AppendProps DEF Back
  <1>3. Len(pending) \in Nat
    BY <1>1, LenProperties
  <1>4. ExactEvents'
    <2>1. eventsAvail' <=> pending' # <<>>
      BY <1>2 DEF AddEvent
    <2>2. HasSpace(pending)' => HasSpace(pending)
      BY <1>2, <1>3, QueueParams, SMT DEF HasSpace
    <2>3. spaceAvail' <=> HasSpace(pending)'
      BY <2>2, Zenon DEF AddEvent, HasSpace, QueueInv, ExactEvents
    <2>. QED
      BY <2>1, <2>3 DEF ExactEvents
  <1>5. /\ cons' \in [Consumers -> {"out", "asleep", "woken"}]
        /\ \A c \in Consumers : cons'[c] # "asleep"
    BY DEF QueueInv, TypeOK, AddEvent, WakeConsumers
  <1>6. eventsAvail' \in BOOLEAN /\ spaceAvail' \in BOOLEAN
    BY DEF AddEvent
  <1>. QED
    BY <1>2, <1>3, <1>4, <1>5, <1>6

\* add_disconnect() while the connection is up.
LEMMA ConnectionLostKeeps ==
  ASSUME QueueInv, ConnectionLost
  PROVE  QueueInv'
  <1>1. CASE pending # <<>> /\ Back(pending).type = "connect"
    <2>1. /\ pending \in Seq(Event) /\ pending # <<>>
          /\ pending' = SubSeq(pending, 1, Len(pending) - 1)
          /\ spaceAvail' = (spaceAvail \/ HasSpace(pending'))
          /\ eventsAvail' = (eventsAvail /\ pending' # <<>>)
          /\ UNCHANGED <<cons, added, lastNotify, lastState>>
          /\ prod' = "down"
      BY <1>1 DEF ConnectionLost, AddDisconnect, QueueInv, TypeOK, handed
    <2>2. /\ pending' \in Seq(Event) /\ Len(pending') = Len(pending) - 1
          /\ Len(pending) \in Nat
      BY <2>1, TakeBackProps, LenProperties
    <2>3. TypeOK'
      BY <2>1, <2>2 DEF QueueInv, TypeOK
    <2>4. eventsAvail' <=> pending' # <<>>
      BY <2>1 DEF QueueInv, ExactEvents
    <2>5. spaceAvail' <=> HasSpace(pending)'
      <3>1. HasSpace(pending) => HasSpace(pending)'
        BY <2>2, QueueParams, SMT DEF HasSpace
      <3>. QED
        BY <2>1, <3>1, Zenon DEF QueueInv, ExactEvents, HasSpace
    <2>6. Overshoot'
      BY <2>1, <2>2, QueueParams, SMT DEF QueueInv, Overshoot, Connected
    <2>7. NobodyOversleeps'
      BY <2>1 DEF QueueInv, NobodyOversleeps
    <2>. QED
      BY <2>3, <2>4, <2>5, <2>6, <2>7 DEF QueueInv, ExactEvents
  <1>2. CASE ~(pending # <<>> /\ Back(pending).type = "connect")
    <2>1. /\ AddEvent(Disconnect) /\ Disconnect \in Event
          /\ prod' = "down" /\ UNCHANGED <<added, lastNotify, lastState>>
      BY <1>2, EventTypes DEF ConnectionLost, AddDisconnect, handed
    <2>2. TypeOK'
      BY <2>1, AddEventProps DEF QueueInv, TypeOK
    <2>3. Len(pending) \in Nat /\ (pending = <<>> => Len(pending) = 0)
      BY <2>1, AddEventProps, EmptySeq
    <2>4. Len(pending) <= MaxPending
      BY <1>2, <2>3, QueueParams, SMT DEF ConnectionLost, QueueInv, Overshoot
    <2>5. Overshoot'
      BY <2>1, <2>3, <2>4, AddEventProps, QueueParams, SMT DEF Overshoot, Connected
    <2>6. NobodyOversleeps'
      BY <2>1, AddEventProps DEF NobodyOversleeps
    <2>. QED
      BY <2>1, <2>2, <2>5, <2>6, AddEventProps DEF QueueInv
  <1>. QED
    BY <1>1, <1>2

LEMMA ConnectionUpKeeps ==
  ASSUME QueueInv, ConnectionUp
  PROVE  QueueInv'
  <1>1. /\ AddEvent(Connect) /\ Connect \in Event /\ Connect.type = "connect"
        /\ prod = "down" /\ prod' = "up" /\ UNCHANGED <<added, lastNotify, lastState>>
    BY EventTypes DEF ConnectionUp, handed, Connect
  <1>2. TypeOK'
    BY <1>1, AddEventProps DEF QueueInv, TypeOK
  <1>3. Back(pending)' = Connect /\ Len(pending') = Len(pending) + 1 /\ Len(pending) \in Nat
    BY <1>1, AddEventProps
  <1>4. Overshoot'
    BY <1>1, <1>3, QueueParams, SMT DEF QueueInv, Overshoot
  <1>5. NobodyOversleeps'
    BY <1>1, AddEventProps DEF NobodyOversleeps
  <1>. QED
    BY <1>1, <1>2, <1>4, <1>5, AddEventProps DEF QueueInv

LEMMA AddOrSleepKeeps ==
  ASSUME QueueInv, prod \in {"up", "woken"}, AddOrSleep, UNCHANGED handed
  PROVE  QueueInv'
  <1>1. CASE HasSpace(pending)
    <2>1. /\ AddEvent(Notify(added + 1)) /\ added' = added + 1 /\ prod' = "up"
          /\ UNCHANGED <<lastNotify, lastState>>
      BY <1>1 DEF AddOrSleep, handed
    <2>2. Notify(added + 1) \in Event /\ added' \in Nat
      BY <2>1, EventTypes, SMT DEF QueueInv, TypeOK
    <2>3. TypeOK'
      BY <2>1, <2>2, AddEventProps DEF QueueInv, TypeOK
    <2>4. Len(pending') = Len(pending) + 1 /\ Len(pending) \in Nat
      BY <2>1, <2>2, AddEventProps
    <2>5. Overshoot'
      BY <1>1, <2>1, <2>4, QueueParams, SMT DEF HasSpace, Overshoot
    <2>6. NobodyOversleeps'
      BY <2>1, <2>2, AddEventProps DEF NobodyOversleeps
    <2>. QED
      BY <2>1, <2>2, <2>3, <2>5, <2>6, AddEventProps DEF QueueInv
  <1>2. CASE ~HasSpace(pending)
    <2>1. /\ prod' = "asleep" /\ UNCHANGED <<pending, eventsAvail, spaceAvail, cons, added>>
          /\ UNCHANGED <<lastNotify, lastState>>
      BY <1>2 DEF AddOrSleep, handed, QueueInv, ExactEvents
    <2>2. TypeOK' /\ ExactEvents'
      BY <2>1 DEF QueueInv, TypeOK, ExactEvents, HasSpace
    <2>3. Overshoot'
      BY <2>1 DEF QueueInv, Overshoot, Connected, Back
    <2>4. NobodyOversleeps'
      BY <1>2, <2>1 DEF QueueInv, NobodyOversleeps, HasSpace
    <2>. QED
      BY <2>2, <2>3, <2>4 DEF QueueInv
  <1>. QED
    BY <1>1, <1>2

LEMMA TakeOrSleepKeeps ==
  ASSUME QueueInv, NEW c \in Consumers, cons[c] # "asleep", TakeOrSleep(c)
  PROVE  QueueInv'
  <1>1. CASE pending # <<>>
    <2>1. /\ pending' = <<>> /\ eventsAvail' = FALSE /\ spaceAvail' = TRUE
          /\ prod' = IF prod = "asleep" THEN "woken" ELSE prod
          /\ lastNotify' = LastId(pending, lastNotify)
          /\ lastState' = LastStateIn(pending, lastState)
          /\ cons' = [cons EXCEPT ![c] = "out"]
          /\ UNCHANGED added
      BY <1>1 DEF TakeOrSleep, TakeAll
    <2>2. pending' \in Seq(Event) /\ Len(pending') = 0
      BY <2>1, EmptySeq
    <2>3. TypeOK'
      BY <2>1, <2>2 DEF QueueInv, TypeOK
    <2>4. HasSpace(pending)'
      BY <2>2, QueueParams, SMT DEF HasSpace
    <2>5. ExactEvents'
      BY <2>1, <2>4 DEF ExactEvents
    <2>6. Overshoot'
      BY <2>2, QueueParams, SMT DEF Overshoot
    <2>7. NobodyOversleeps'
      BY <2>1 DEF NobodyOversleeps
    <2>. QED
      BY <2>3, <2>5, <2>6, <2>7 DEF QueueInv
  <1>2. CASE pending = <<>>
    <2>1. /\ cons' = [cons EXCEPT ![c] = "asleep"]
          /\ UNCHANGED <<pending, eventsAvail, spaceAvail, prod, added, lastNotify, lastState>>
      BY <1>2 DEF TakeOrSleep, handed, QueueInv, ExactEvents
    <2>2. TypeOK' /\ ExactEvents'
      BY <2>1 DEF QueueInv, TypeOK, ExactEvents, HasSpace
    <2>3. Overshoot' /\ NobodyOversleeps'
      BY <1>2, <2>1 DEF QueueInv, Overshoot, Connected, Back, NobodyOversleeps, HasSpace
    <2>. QED
      BY <2>2, <2>3 DEF QueueInv
  <1>. QED
    BY <1>1, <1>2

-----------------------------------------------------------------------------
LEMMA InitQueueInv == Init => QueueInv
  <1> SUFFICES ASSUME Init PROVE QueueInv
    OBVIOUS
  <1>1. pending \in Seq(Event) /\ Len(pending) = 0
    BY EmptySeq DEF Init
  <1>2. TypeOK /\ NobodyOversleeps
    BY <1>1 DEF Init, TypeOK, NobodyOversleeps
  <1>3. HasSpace(pending)
    BY <1>1, QueueParams, SMT DEF HasSpace
  <1>4. ExactEvents
    BY <1>3 DEF Init, ExactEvents
  <1>5. Overshoot
    BY <1>1, QueueParams, SMT DEF Init, Overshoot, Connected
  <1>. QED
    BY <1>2, <1>4, <1>5 DEF QueueInv

LEMMA NextQueueInv == QueueInv /\ [Next]_vars => QueueInv'
  <1> SUFFICES ASSUME QueueInv, [Next]_vars PROVE QueueInv'
    OBVIOUS
  <1>1. CASE ConnectionUp
    BY <1>1, ConnectionUpKeeps
  <1>2. CASE ConnectionLost
    BY <1>2, ConnectionLostKeeps
  <1>3. CASE Stop
    <2>1. /\ prod' = "stopped"
          /\ UNCHANGED <<pending, eventsAvail, spaceAvail, cons, added>>
      BY <1>3 DEF Stop
    <2>2. TypeOK' /\ ExactEvents' /\ NobodyOversleeps'
      BY <2>1 DEF QueueInv, TypeOK, ExactEvents, NobodyOversleeps, HasSpace
    <2>3. Overshoot'
      BY <2>1 DEF QueueInv, Overshoot, Connected
    <2>. QED
      BY <2>2, <2>3 DEF QueueInv
  <1>4. CASE NotificationArrives
    BY <1>4, AddOrSleepKeeps DEF NotificationArrives
  <1>5. CASE ReaderResumes
    BY <1>5, AddOrSleepKeeps DEF ReaderResumes
  <1>6. ASSUME NEW c \in Consumers, ReadEvents(c) PROVE QueueInv'
    BY <1>6, TakeOrSleepKeeps DEF ReadEvents
  <1>7. ASSUME NEW c \in Consumers, ConsumerResumes(c) PROVE QueueInv'
    BY <1>7, TakeOrSleepKeeps DEF ConsumerResumes
  <1>8. ASSUME NEW c \in Consumers, ConsumerCancelled(c) PROVE QueueInv'
    <2>1. /\ cons' = [cons EXCEPT ![c] = "out"]
          /\ UNCHANGED <<pending, eventsAvail, spaceAvail, prod, added>>
      BY <1>8 DEF ConsumerCancelled
    <2>2. TypeOK' /\ ExactEvents' /\ NobodyOversleeps'
      BY <2>1 DEF QueueInv, TypeOK, ExactEvents, NobodyOversleeps, HasSpace
    <2>3. Overshoot'
      BY <2>1 DEF QueueInv, Overshoot, Connected, Back
    <2>. QED
      BY <2>2, <2>3 DEF QueueInv
  <1>9. CASE UNCHANGED vars
    BY <1>9 DEF vars, QueueInv, TypeOK, ExactEvents, Overshoot, NobodyOversleeps,
                HasSpace, Connected, Back
  <1>. QED
    BY <1>1, <1>2, <1>3, <1>4, <1>5, <1>6, <1>7, <1>8, <1>9 DEF Next

\* The events of the queue are exact and its size obeys the limit, in every
\* state that any sequence of operations reaches.
THEOREM QueueInvariant == Spec => []QueueInv
  BY InitQueueInv, NextQueueInv, PTL DEF Spec

\* The state of the queue is well typed.
THEOREM TypeCorrect == Spec => []TypeOK
  <1>1. QueueInv => TypeOK
    BY DEF QueueInv
  <1>. QED
    BY <1>1, QueueInvariant, PTL

\* add_disconnect() keeps its promise: "this avoids unbound memory consumption
\* if the user is not reading notifications".
THEOREM BoundedMemoryHolds == Spec => []BoundedMemory
  <1>1. QueueInv => BoundedMemory
    BY DEF QueueInv, Overshoot, BoundedMemory
  <1>. QED
    BY <1>1, QueueInvariant, PTL

\* No consumer sleeps while there are events and the reader does not sleep while
\* there is space, whatever the order in which read_events(), add_notify() and
\* the reconnections of run() interleave.
THEOREM NobodyOversleepsHolds == Spec => []NobodyOversleeps
  <1>1. QueueInv => NobodyOversleeps
    BY DEF QueueInv
  <1>. QED
    BY <1>1, QueueInvariant, PTL

-----------------------------------------------------------------------------
(* What the events say *)

\* A set of positions that is not empty has a last one.
LEMMA Greatest ==
  ASSUME NEW n \in Nat, NEW S \in SUBSET (1..n), S # {}
  PROVE  \E p \in S : \A q \in S : q <= p
  <1> DEFINE R == OpToRel(<, Nat)
             T == {n - p : p \in S}
  <1>1. T \in SUBSET Nat /\ T # {}
    <2>1. \A p \in S : n - p \in Nat
      BY SMT
    <2>. QED
      BY <2>1, Zenon
  <1>2. IsWellFoundedOn(R, Nat)
    BY NatLessThanWellFounded
  <1>3. PICK t \in T : \A u \in T : ~(<<u, t>> \in R)
    BY <1>1, <1>2, WFMin
  <1>4. \A u \in T : ~(u < t)
    BY <1>1, <1>3, Zenon DEF OpToRel
  <1>5. PICK p \in S : t = n - p
    OBVIOUS
  <1>6. \A q \in S : ~(n - q < n - p)
    BY <1>4, <1>5
  <1>. QED
    BY <1>5, <1>6, SMT

\* The last connect or disconnect of a queue, after an event is added to it.
LEMMA LastStateOfEmpty ==
  ASSUME NEW s
  PROVE  LastStateIn(<<>>, s) = s
  <1>1. Len(<<>>) = 0
    BY EmptySeq
  <1>. QED
    BY <1>1, SMT DEF LastStateIn

LEMMA LastStateOfAppend ==
  ASSUME NEW q \in Seq(Event), NEW e \in Event, NEW s
  PROVE  LastStateIn(Append(q, e), s) =
           IF e.type = "notify" THEN LastStateIn(q, s) ELSE e.type
  <1> DEFINE r == Append(q, e)
             Last(t, i) == t[i].type # "notify" /\ \A j \in (i + 1)..Len(t) : t[j].type = "notify"
  <1>1. /\ Len(r) = Len(q) + 1 /\ Len(q) \in Nat /\ r[Len(r)] = e
        /\ \A i \in 1..Len(q) : r[i] = q[i]
    BY AppendProperties, LenProperties
  <1>2. CASE e.type = "notify"
    <2>1. (\A i \in 1..Len(r) : r[i].type = "notify") <=> (\A i \in 1..Len(q) : q[i].type = "notify")
      BY <1>1, <1>2, SMT
    <2>2. \A i \in 1..Len(r) : Last(r, i) <=> i \in 1..Len(q) /\ Last(q, i)
      BY <1>1, <1>2, SMT
    <2>3. (CHOOSE i \in 1..Len(r) : Last(r, i)) = (CHOOSE i \in 1..Len(q) : Last(q, i))
      <3>1. \A i \in 1..Len(q) : i \in 1..Len(r)
        BY <1>1, SMT
      <3> HIDE DEF Last
      <3>. QED
        BY <2>2, <3>1, Zenon
    <2>4. CASE \A i \in 1..Len(q) : q[i].type = "notify"
      BY <1>2, <2>1, <2>4, Zenon DEF LastStateIn
    <2>5. CASE ~\A i \in 1..Len(q) : q[i].type = "notify"
      <3> DEFINE S == {i \in 1..Len(q) : q[i].type # "notify"}
      <3>1. \E i \in S : \A j \in S : j <= i
        BY <1>1, <2>5, Greatest
      <3>2. \E i \in 1..Len(q) : Last(q, i)
        BY <1>1, <3>1, SMT
      <3>3. (CHOOSE i \in 1..Len(q) : Last(q, i)) \in 1..Len(q)
        BY <3>2, Zenon
      <3>4. r[CHOOSE i \in 1..Len(r) : Last(r, i)] = q[CHOOSE i \in 1..Len(q) : Last(q, i)]
        BY <1>1, <2>3, <3>3, Zenon
      <3>5. /\ LastStateIn(r, s) = r[CHOOSE i \in 1..Len(r) : Last(r, i)].type
            /\ LastStateIn(q, s) = q[CHOOSE i \in 1..Len(q) : Last(q, i)].type
        BY <2>1, <2>5 DEF LastStateIn
      <3>. QED
        BY <1>2, <3>4, <3>5
    <2>. QED
      BY <2>4, <2>5
  <1>3. CASE e.type # "notify"
    <2>1. \A i \in 1..Len(r) : Last(r, i) <=> i = Len(r)
      BY <1>1, <1>3, SMT
    <2>2. Len(r) \in 1..Len(r)
      BY <1>1, SMT
    <2>3. (CHOOSE i \in 1..Len(r) : Last(r, i)) = Len(r)
      BY <2>1, <2>2, Zenon
    <2>4. ~\A i \in 1..Len(r) : r[i].type = "notify"
      BY <1>1, <1>3, <2>2
    <2>5. LastStateIn(r, s) = r[CHOOSE i \in 1..Len(r) : Last(r, i)].type
      BY <2>4 DEF LastStateIn
    <2>. QED
      BY <1>1, <1>3, <2>3, <2>5
  <1>. QED
    BY <1>2, <1>3

LEMMA LastStateType ==
  ASSUME NEW q \in Seq(Event), NEW s \in {"connect", "disconnect"}
  PROVE  LastStateIn(q, s) \in {"connect", "disconnect"}
  <1> DEFINE S == {i \in 1..Len(q) : q[i].type # "notify"}
             Last(i) == q[i].type # "notify" /\ \A j \in (i + 1)..Len(q) : q[j].type = "notify"
  <1>1. CASE S = {}
    BY <1>1 DEF LastStateIn
  <1>2. CASE S # {}
    <2>1. Len(q) \in Nat
      BY LenProperties
    <2>2. \E i \in S : \A j \in S : j <= i
      BY <1>2, <2>1, Greatest
    <2>3. \E i \in 1..Len(q) : Last(i)
      BY <2>1, <2>2, SMT
    <2>4. PICK k \in 1..Len(q) : q[k].type # "notify" /\ LastStateIn(q, s) = q[k].type
      <3>1. LastStateIn(q, s) = q[CHOOSE i \in 1..Len(q) : Last(i)].type
        BY <1>2 DEF LastStateIn
      <3>. QED
        BY <2>3, <3>1, Zenon
    <2>5. q[k] \in Event
      BY ElementOfSeq
    <2>. QED
      BY <2>4, <2>5 DEF Event
  <1>. QED
    BY <1>1, <1>2

\* The prefixes of a queue do not change when an event is added.
LEMMA PrefixOfAppend ==
  ASSUME NEW q \in Seq(Event), NEW e \in Event, NEW n \in Nat, n <= Len(q)
  PROVE  SubSeq(Append(q, e), 1, n) = SubSeq(q, 1, n)
  <1>1. Append(q, e) \in Seq(Event) /\ Len(Append(q, e)) = Len(q) + 1 /\ Len(q) \in Nat
    BY AppendProps, LenProperties
  <1>2. /\ SubSeq(Append(q, e), 1, n) \in Seq(Event) /\ Len(SubSeq(Append(q, e), 1, n)) = n
        /\ SubSeq(q, 1, n) \in Seq(Event) /\ Len(SubSeq(q, 1, n)) = n
    BY <1>1, PrefixProps, SMT
  <1>3. \A i \in 1..n : SubSeq(Append(q, e), 1, n)[i] = SubSeq(q, 1, n)[i]
    BY <1>1, SMT
  <1>. QED
    BY <1>2, <1>3, SeqEqual

LEMMA PrefixOfPrefix ==
  ASSUME NEW q \in Seq(Event), NEW n \in Nat, NEW m \in Nat, n <= m, m <= Len(q)
  PROVE  SubSeq(SubSeq(q, 1, m), 1, n) = SubSeq(q, 1, n)
  <1>1. SubSeq(q, 1, m) \in Seq(Event) /\ Len(SubSeq(q, 1, m)) = m /\ Len(q) \in Nat
    BY PrefixProps, LenProperties
  <1>2. /\ SubSeq(SubSeq(q, 1, m), 1, n) \in Seq(Event) /\ Len(SubSeq(SubSeq(q, 1, m), 1, n)) = n
        /\ SubSeq(q, 1, n) \in Seq(Event) /\ Len(SubSeq(q, 1, n)) = n
    BY <1>1, PrefixProps, SMT
  <1>3. \A i \in 1..n : SubSeq(SubSeq(q, 1, m), 1, n)[i] = SubSeq(q, 1, n)[i]
    BY <1>1, SMT
  <1>. QED
    BY <1>2, <1>3, SeqEqual

LEMMA WholePrefix ==
  ASSUME NEW q \in Seq(Event)
  PROVE  SubSeq(q, 1, Len(q)) = q
  <1>1. Len(q) \in Nat
    BY LenProperties
  <1>2. SubSeq(q, 1, Len(q)) \in Seq(Event) /\ Len(SubSeq(q, 1, Len(q))) = Len(q)
    BY <1>1, PrefixProps
  <1>3. \A i \in 1..Len(q) : SubSeq(q, 1, Len(q))[i] = q[i]
    BY <1>1, SMT
  <1>. QED
    BY <1>2, <1>3, SeqEqual

-----------------------------------------------------------------------------
\* TruthfulEvents and NotificationsInOrder, of any queue.
FitsState(type, state) == IF type = "connect" THEN state = "disconnect" ELSE state = "connect"

Truthful(q, s) ==
  \A i \in 1..Len(q) : FitsState(q[i].type, LastStateIn(SubSeq(q, 1, i - 1), s))

NotifiesOf(q) == {i \in DOMAIN q : q[i].type = "notify"}

Ordered(q, n, a) ==
  /\ n <= a
  /\ {q[i].id : i \in NotifiesOf(q)} = (n + 1)..a
  /\ \A i, j \in NotifiesOf(q) : i < j => q[i].id < q[j].id
  /\ \A i \in DOMAIN q : q[i].type # "notify" => q[i].id = 0

LEMMA TruthfulAppend ==
  ASSUME NEW q \in Seq(Event), NEW e \in Event, NEW s,
         Truthful(q, s), FitsState(e.type, LastStateIn(q, s))
  PROVE  Truthful(Append(q, e), s)
  <1> DEFINE r == Append(q, e)
  <1>1. /\ Len(r) = Len(q) + 1 /\ Len(q) \in Nat /\ r[Len(r)] = e
        /\ \A i \in 1..Len(q) : r[i] = q[i]
    BY AppendProperties, LenProperties
  <1>2. ASSUME NEW i \in 1..Len(q)
        PROVE  FitsState(r[i].type, LastStateIn(SubSeq(r, 1, i - 1), s))
    <2>1. i - 1 \in Nat /\ i - 1 <= Len(q)
      BY <1>1, SMT
    <2>2. SubSeq(r, 1, i - 1) = SubSeq(q, 1, i - 1)
      BY <2>1, PrefixOfAppend
    <2>. QED
      BY <1>1, <2>2 DEF Truthful
  <1>3. FitsState(r[Len(r)].type, LastStateIn(SubSeq(r, 1, Len(r) - 1), s))
    <2>1. Len(r) - 1 = Len(q)
      BY <1>1, SMT
    <2>2. SubSeq(r, 1, Len(q)) = q
      BY <1>1, PrefixOfAppend, WholePrefix, SMT
    <2>. QED
      BY <1>1, <2>1, <2>2
  <1>4. \A i \in 1..Len(r) : i \in 1..Len(q) \/ i = Len(r)
    BY <1>1, SMT
  <1>. QED
    BY <1>2, <1>3, <1>4 DEF Truthful

LEMMA TruthfulPrefix ==
  ASSUME NEW q \in Seq(Event), NEW s, NEW n \in Nat, n <= Len(q), Truthful(q, s)
  PROVE  Truthful(SubSeq(q, 1, n), s)
  <1> DEFINE r == SubSeq(q, 1, n)
  <1>1. Len(r) = n /\ Len(q) \in Nat /\ \A i \in 1..n : r[i] = q[i] /\ i \in 1..Len(q)
    BY PrefixProps, LenProperties, SMT
  <1>2. ASSUME NEW i \in 1..n
        PROVE  FitsState(r[i].type, LastStateIn(SubSeq(r, 1, i - 1), s))
    <2>1. i - 1 \in Nat /\ i - 1 <= n
      BY SMT
    <2>2. SubSeq(r, 1, i - 1) = SubSeq(q, 1, i - 1)
      BY <2>1, PrefixOfPrefix
    <2>. QED
      BY <1>1, <2>2 DEF Truthful
  <1>. QED
    BY <1>1, <1>2 DEF Truthful

\* The next notification is the one after the last that was added; a connect or
\* a disconnect leaves the notifications alone.
LEMMA OrderedAppend ==
  ASSUME NEW q \in Seq(Event), NEW e \in Event, NEW n \in Nat, NEW a \in Nat,
         Ordered(q, n, a)
  PROVE  /\ e = Notify(a + 1) => Ordered(Append(q, e), n, a + 1)
         /\ e.type # "notify" /\ e.id = 0 => Ordered(Append(q, e), n, a)
  <1> DEFINE r == Append(q, e)
  <1>1. /\ Len(r) = Len(q) + 1 /\ Len(q) \in Nat /\ r[Len(r)] = e
        /\ \A i \in 1..Len(q) : r[i] = q[i]
        /\ DOMAIN r = 1..Len(r) /\ DOMAIN q = 1..Len(q)
    BY AppendProperties, LenProperties
  <1>2. /\ NotifiesOf(q) \subseteq 1..Len(q)
        /\ \A i \in NotifiesOf(q) : r[i] = q[i] /\ q[i].id \in Nat /\ q[i].id <= a /\ i < Len(r)
    <2>1. NotifiesOf(q) \subseteq 1..Len(q)
      BY <1>1 DEF NotifiesOf
    <2>2. \A i \in NotifiesOf(q) : q[i].id \in (n + 1)..a
      BY DEF Ordered
    <2>. QED
      BY <1>1, <2>1, <2>2, SMT
  <1> HIDE DEF r
  <1>3. ASSUME e = Notify(a + 1)
        PROVE  Ordered(r, n, a + 1)
    <2>1. e.type = "notify" /\ e.id = a + 1
      BY <1>3 DEF Notify
    <2>2. NotifiesOf(r) = NotifiesOf(q) \cup {Len(r)}
      BY <1>1, <2>1, SMT DEF NotifiesOf
    <2>3. {r[i].id : i \in NotifiesOf(r)} = {q[i].id : i \in NotifiesOf(q)} \cup {a + 1}
      <3>1. r[Len(r)].id = a + 1 /\ \A i \in NotifiesOf(q) : r[i].id = q[i].id
        BY <1>1, <1>2, <2>1
      <3>. QED
        BY <2>2, <3>1, Zenon
    <2>4. {r[i].id : i \in NotifiesOf(r)} = (n + 1)..(a + 1)
      <3>1. n <= a /\ {q[i].id : i \in NotifiesOf(q)} = (n + 1)..a
        BY DEF Ordered
      <3>2. ((n + 1)..a) \cup {a + 1} = (n + 1)..(a + 1)
        BY <3>1, SMT
      <3>. QED
        BY <2>3, <3>1, <3>2, Zenon
    <2>5. \A i, j \in NotifiesOf(r) : i < j => r[i].id < r[j].id
      BY <1>1, <1>2, <2>1, <2>2, SMT DEF Ordered
    <2>6. \A i \in DOMAIN r : r[i].type # "notify" => r[i].id = 0
      BY <1>1, <2>1, SMT DEF Ordered
    <2>. QED
      BY <2>4, <2>5, <2>6, SMT DEF Ordered
  <1>4. ASSUME e.type # "notify", e.id = 0
        PROVE  Ordered(r, n, a)
    <2>1. NotifiesOf(r) = NotifiesOf(q)
      BY <1>1, <1>4, SMT DEF NotifiesOf
    <2>2. {r[i].id : i \in NotifiesOf(r)} = {q[i].id : i \in NotifiesOf(q)}
      BY <1>2, <2>1, Zenon
    <2>3. \A i, j \in NotifiesOf(r) : i < j => r[i].id < r[j].id
      BY <1>2, <2>1, SMT DEF Ordered
    <2>4. \A i \in DOMAIN r : r[i].type # "notify" => r[i].id = 0
      BY <1>1, <1>4, SMT DEF Ordered
    <2>. QED
      BY <2>2, <2>3, <2>4 DEF Ordered
  <1>. QED
    BY <1>3, <1>4 DEF r

\* Taking back a connect leaves the notifications alone.
LEMMA OrderedTakeBack ==
  ASSUME NEW q \in Seq(Event), NEW n, NEW a, Ordered(q, n, a),
         q # <<>>, Back(q).type = "connect"
  PROVE  Ordered(SubSeq(q, 1, Len(q) - 1), n, a)
  <1> DEFINE r == SubSeq(q, 1, Len(q) - 1)
  <1>1. Len(q) \in Nat \ {0} /\ Len(r) = Len(q) - 1 /\ r \in Seq(Event)
    BY TakeBackProps, EmptySeq
  <1>2. \A i \in 1..Len(r) : r[i] = q[i]
    BY <1>1, SMT
  <1>3. DOMAIN r = 1..Len(r) /\ DOMAIN q = 1..Len(q)
    BY <1>1, LenProperties
  <1> HIDE DEF r
  <1>4. NotifiesOf(r) = NotifiesOf(q)
    BY <1>1, <1>2, <1>3, SMT DEF NotifiesOf, Back
  <1>5. \A i \in NotifiesOf(q) : r[i] = q[i]
    BY <1>2, <1>3, <1>4 DEF NotifiesOf
  <1>6. {r[i].id : i \in NotifiesOf(r)} = {q[i].id : i \in NotifiesOf(q)}
    BY <1>4, <1>5, Zenon
  <1>7. \A i, j \in NotifiesOf(r) : i < j => r[i].id < r[j].id
    BY <1>4, <1>5 DEF Ordered
  <1>8. \A i \in DOMAIN r : r[i].type # "notify" => r[i].id = 0
    BY <1>1, <1>2, <1>3, SMT DEF Ordered
  <1>9. Ordered(r, n, a)
    BY <1>6, <1>7, <1>8 DEF Ordered
  <1>. QED
    BY <1>9 DEF r

\* A consumer that takes the whole queue has seen every notification.
LEMMA OrderedTakeAll ==
  ASSUME NEW q \in Seq(Event), NEW n \in Nat, NEW a \in Nat, Ordered(q, n, a)
  PROVE  LastId(q, n) = a /\ Ordered(<<>>, a, a)
  <1> DEFINE ids == {q[i].id : i \in 1..Len(q)} \cup {n}
  <1>1. DOMAIN q = 1..Len(q)
    BY LenProperties
  <1>2. a \in ids
    <2>1. CASE a = n
      BY <2>1
    <2>2. CASE a # n
      <3>1. a \in (n + 1)..a
        BY <2>2, SMT DEF Ordered
      <3>2. PICK i \in NotifiesOf(q) : q[i].id = a
        BY <3>1, Zenon DEF Ordered
      <3>. QED
        BY <1>1, <3>2 DEF NotifiesOf
    <2>. QED
      BY <2>1, <2>2
  <1>3. \A k \in ids : k <= a
    <2>1. \A i \in NotifiesOf(q) : q[i].id \in (n + 1)..a
      BY DEF Ordered
    <2>2. \A i \in 1..Len(q) : q[i].id \in (n + 1)..a \/ q[i].id = 0
      BY <1>1, <2>1 DEF NotifiesOf, Ordered
    <2>3. \A i \in 1..Len(q) : q[i].id <= a
      BY <2>2, SMT
    <2>. QED
      BY <2>3 DEF Ordered
  <1>4. \A k \in ids : k \in Nat
    <2>1. \A i \in 1..Len(q) : q[i] \in Event
      BY ElementOfSeq
    <2>. QED
      BY <2>1 DEF Event
  <1>5. LastId(q, n) = CHOOSE m \in ids : \A k \in ids : k <= m
    BY DEF LastId
  <1> HIDE DEF ids
  <1>6. \A m \in ids : (\A k \in ids : k <= m) => m = a
    BY <1>2, <1>3, <1>4, SMT
  <1>7. (CHOOSE m \in ids : \A k \in ids : k <= m) = a
    BY <1>2, <1>3, <1>6, Zenon
  <1>8. DOMAIN <<>> = {} /\ NotifiesOf(<<>>) = {}
    BY EmptySeq DEF NotifiesOf
  <1>9. (a + 1)..a = {}
    BY SMT
  <1>. QED
    BY <1>5, <1>7, <1>8, <1>9, SMT DEF Ordered

-----------------------------------------------------------------------------
\* The inductive invariant: the events are truthful and in order, and what the
\* consumers have seen has its type.
EventsInv ==
  /\ lastState \in {"connect", "disconnect"} /\ lastNotify \in Nat
  /\ Truthful(pending, lastState)
  /\ prod # "stopped" => (LastStateIn(pending, lastState) = "connect" <=> Connected)
  /\ Ordered(pending, lastNotify, added)

LEMMA EventsAreTold ==
  ASSUME TypeOK, EventsInv
  PROVE  TruthfulEvents /\ NotificationsInOrder
  <1>1. pending \in Seq(Event) /\ Len(pending) \in Nat
    BY LenProperties DEF TypeOK
  <1>2. StateBefore(Len(pending) + 1) = LastStateIn(pending, lastState)
    <2>1. (Len(pending) + 1) - 1 = Len(pending)
      BY <1>1, SMT
    <2>. QED
      BY <1>1, <2>1, WholePrefix DEF StateBefore
  <1>3. TruthfulEvents
    BY <1>2, Zenon DEF EventsInv, TruthfulEvents, Truthful, FitsState, StateBefore
  <1>4. NotificationsInOrder
    BY DEF EventsInv, NotificationsInOrder, Ordered, Notifies, NotifiesOf
  <1>. QED
    BY <1>3, <1>4

\* add_event() with an event that agrees with the state of the connection.
LEMMA AddEventTells ==
  ASSUME TypeOK, EventsInv, NEW e \in Event, AddEvent(e), UNCHANGED handed,
         FitsState(e.type, LastStateIn(pending, lastState)),
         \/ e = Notify(added + 1) /\ added' = added + 1
         \/ e.type # "notify" /\ e.id = 0 /\ added' = added,
         prod' # "stopped",
         Connected' <=> e.type # "disconnect"
  PROVE  EventsInv'
  <1>1. /\ pending \in Seq(Event) /\ pending' = Append(pending, e) /\ added \in Nat
        /\ lastNotify' = lastNotify /\ lastState' = lastState
    BY DEF TypeOK, AddEvent, handed
  <1>2. Truthful(pending', lastState')
    BY <1>1, TruthfulAppend DEF EventsInv
  <1>3. Ordered(pending', lastNotify', added')
    BY <1>1, OrderedAppend DEF EventsInv
  <1>4. LastStateIn(pending', lastState') =
          IF e.type = "notify" THEN LastStateIn(pending, lastState) ELSE e.type
    BY <1>1, LastStateOfAppend
  <1>5. LastStateIn(pending', lastState') = "connect" <=> e.type # "disconnect"
    BY <1>4 DEF FitsState, Event
  <1>. QED
    BY <1>1, <1>2, <1>3, <1>5 DEF EventsInv

LEMMA TakeOrSleepTells ==
  ASSUME TypeOK, EventsInv, NEW c \in Consumers, TakeOrSleep(c)
  PROVE  EventsInv'
  <1>1. CASE pending # <<>>
    <2>1. /\ pending' = <<>> /\ added' = added /\ added \in Nat /\ pending \in Seq(Event)
          /\ prod' = IF prod = "asleep" THEN "woken" ELSE prod
          /\ lastNotify' = LastId(pending, lastNotify)
          /\ lastState' = LastStateIn(pending, lastState)
      BY <1>1 DEF TypeOK, TakeOrSleep, TakeAll
    <2>2. lastNotify' = added /\ Ordered(<<>>, added, added)
      BY <2>1, OrderedTakeAll DEF EventsInv
    <2>3. lastState' \in {"connect", "disconnect"}
      BY <2>1, LastStateType DEF EventsInv
    <2>4. LastStateIn(pending', lastState') = LastStateIn(pending, lastState)
      BY <2>1, LastStateOfEmpty
    <2>5. Truthful(pending', lastState')
      BY <2>1, EmptySeq, SMT DEF Truthful
    <2>6. (prod' # "stopped" <=> prod # "stopped") /\ (Connected' <=> Connected)
      BY <2>1 DEF Connected
    <2>. QED
      BY <2>1, <2>2, <2>3, <2>4, <2>5, <2>6 DEF EventsInv
  <1>2. CASE pending = <<>>
    BY <1>2 DEF TakeOrSleep, handed, EventsInv, Connected
  <1>. QED
    BY <1>1, <1>2

LEMMA NextEvents == TypeOK /\ EventsInv /\ [Next]_vars => EventsInv'
  <1> SUFFICES ASSUME TypeOK, EventsInv, [Next]_vars PROVE EventsInv'
    OBVIOUS
  <1>0. pending \in Seq(Event) /\ LastStateIn(pending, lastState) \in {"connect", "disconnect"}
    BY LastStateType DEF TypeOK, EventsInv
  <1>1. CASE ConnectionUp
    <2>1. LastStateIn(pending, lastState) = "disconnect"
      BY <1>0, <1>1 DEF ConnectionUp, EventsInv, Connected
    <2>2. /\ AddEvent(Connect) /\ UNCHANGED handed /\ added' = added
          /\ prod' # "stopped" /\ Connected' /\ Connect \in Event
          /\ Connect.type = "connect" /\ Connect.id = 0
      BY <1>1, EventTypes DEF ConnectionUp, Connected, Connect
    <2>. QED
      BY <2>1, <2>2, AddEventTells DEF FitsState
  <1>2. CASE ConnectionLost
    <2>1. LastStateIn(pending, lastState) = "connect"
      BY <1>2 DEF ConnectionLost, EventsInv, Connected
    <2>2. CASE pending # <<>> /\ Back(pending).type = "connect"
      <3> DEFINE q == SubSeq(pending, 1, Len(pending) - 1)
      <3>1. pending' = q /\ prod' = "down" /\ UNCHANGED <<added, lastNotify, lastState>>
        BY <1>2, <2>2 DEF ConnectionLost, AddDisconnect, handed
      <3>2. Len(pending) \in 1..Len(pending) /\ Len(pending) - 1 \in Nat /\ Len(pending) - 1 <= Len(pending)
        BY <1>0, <2>2, EmptySeq, LenProperties, SMT
      <3>3. LastStateIn(q, lastState) = "disconnect"
        BY <2>2, <3>2 DEF EventsInv, Truthful, FitsState, Back
      <3>4. Truthful(q, lastState)
        BY <1>0, <3>2, TruthfulPrefix DEF EventsInv
      <3>5. Ordered(q, lastNotify, added)
        BY <1>0, <2>2, OrderedTakeBack DEF EventsInv
      <3>6. ~Connected'
        BY <3>1 DEF Connected
      <3> HIDE DEF q
      <3>. QED
        BY <3>1, <3>3, <3>4, <3>5, <3>6 DEF EventsInv
    <2>3. CASE ~(pending # <<>> /\ Back(pending).type = "connect")
      <3>1. /\ AddEvent(Disconnect) /\ UNCHANGED handed /\ added' = added
            /\ prod' # "stopped" /\ ~Connected' /\ Disconnect \in Event
            /\ Disconnect.type = "disconnect" /\ Disconnect.id = 0
        BY <1>2, <2>3, EventTypes DEF ConnectionLost, AddDisconnect, Connected, Disconnect
      <3>. QED
        BY <2>1, <3>1, AddEventTells DEF FitsState
    <2>. QED
      BY <2>2, <2>3
  <1>3. CASE Stop
    BY <1>3 DEF Stop, EventsInv, handed
  <1>4. ASSUME prod \in {"up", "woken"}, AddOrSleep, UNCHANGED handed PROVE EventsInv'
    <2>1. CASE HasSpace(pending)
      <3>1. /\ AddEvent(Notify(added + 1)) /\ added' = added + 1 /\ prod' # "stopped" /\ Connected'
            /\ Notify(added + 1).type = "notify"
        BY <1>4, <2>1 DEF AddOrSleep, Connected, Notify
      <3>2. Notify(added + 1) \in Event
        BY EventTypes, SMT DEF TypeOK
      <3>3. LastStateIn(pending, lastState) = "connect"
        BY <1>4 DEF EventsInv, Connected
      <3>. QED
        BY <1>4, <3>1, <3>2, <3>3, AddEventTells DEF FitsState
    <2>2. CASE ~HasSpace(pending)
      BY <1>4, <2>2 DEF AddOrSleep, EventsInv, Connected, handed
    <2>. QED
      BY <2>1, <2>2
  <1>5. ASSUME NEW c \in Consumers, TakeOrSleep(c) PROVE EventsInv'
    BY <1>5, TakeOrSleepTells
  <1>6. ASSUME NEW c \in Consumers, ConsumerCancelled(c) PROVE EventsInv'
    BY <1>6 DEF ConsumerCancelled, EventsInv, Connected, handed
  <1>7. CASE UNCHANGED vars
    BY <1>7 DEF vars, EventsInv, Connected, handed
  <1>. QED
    BY <1>1, <1>2, <1>3, <1>4, <1>5, <1>6, <1>7
       DEF Next, NotificationArrives, ReaderResumes, ReadEvents, ConsumerResumes

LEMMA InitEvents == Init => EventsInv
  <1> SUFFICES ASSUME Init PROVE EventsInv
    OBVIOUS
  <1>1. Truthful(<<>>, "disconnect") /\ LastStateIn(<<>>, "disconnect") = "disconnect"
    BY LastStateOfEmpty, EmptySeq, SMT DEF Truthful
  <1>2. Ordered(<<>>, 0, 0)
    <2>1. DOMAIN <<>> = {} /\ NotifiesOf(<<>>) = {}
      BY EmptySeq DEF NotifiesOf
    <2>2. (0 + 1)..0 = {}
      BY SMT
    <2>. QED
      BY <2>1, <2>2, SMT DEF Ordered
  <1>. QED
    BY <1>1, <1>2 DEF Init, EventsInv, Connected

\* Consumers are told the truth about the connection: connects and disconnects
\* alternate and agree with run(), also when add_disconnect() takes a connect back.
THEOREM TruthfulEventsHolds == Spec => []TruthfulEvents
  <1>1. TypeOK /\ EventsInv => TruthfulEvents
    BY EventsAreTold
  <1>. QED
    BY <1>1, InitEvents, NextEvents, TypeCorrect, PTL DEF Spec

\* Consumers get every notification once and in order, however many of them
\* compete for the events.
THEOREM NotificationsInOrderHolds == Spec => []NotificationsInOrder
  <1>1. TypeOK /\ EventsInv => NotificationsInOrder
    BY EventsAreTold
  <1>. QED
    BY <1>1, InitEvents, NextEvents, TypeCorrect, PTL DEF Spec
=============================================================================
