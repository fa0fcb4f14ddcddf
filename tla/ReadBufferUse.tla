--------------------------- MODULE ReadBufferUse ---------------------------
(***************************************************************************)
(* The read buffer as its users drive it: make room, let a read put bytes  *)
(* into the prepared area, commit them, look at the committed area and     *)
(* consume some of it.  A read that has begun holds on to the prepared     *)
(* area it was given.                                                      *)
(***************************************************************************)
EXTENDS ReadBuffer

CONSTANTS Byte,         \* what the server may send
          InitialSize,  \* of the buffer
          MaxRequired,  \* bound: the room asked for at once
          MaxReceived   \* bound: how much is read in total

ASSUME UseParams ==
  /\ InitialSize \in 0..SizeMax
  /\ MaxRequired \in Nat /\ MaxReceived \in Nat
  /\ Junk \notin Byte

VARIABLES buf,       \* the buffer
          room,      \* the room that the read in progress asked for, 0 if there is none
          received,  \* all the bytes that have been committed (an observer)
          consumed   \* how many of them have been consumed (an observer)

useVars == <<buf, room, received, consumed>>

UseInit ==
  /\ buf = NewBuffer(InitialSize)
  /\ room = 0
  /\ received = <<>> /\ consumed = 0

\* prepare(required), and a read into prepared_area() begins.  The room asked
\* for is what a message is known to miss: the sum that is computed for the
\* new size is that of a message in memory, which a size_t can hold.
BeginRead(required) ==
  /\ room = 0
  /\ CommittedSize(buf) + required <= SizeMax
  /\ buf' = Prepare(buf, required)
  /\ room' = required
  /\ UNCHANGED <<received, consumed>>

\* The read ends with some bytes, which are committed.
EndRead(data) ==
  /\ room > 0
  /\ Len(data) <= PreparedSize(buf)
  /\ buf' = Commit(Fill(buf, data), Len(data))
  /\ room' = 0
  /\ received' = received \o data
  /\ UNCHANGED consumed

\* The read fails.
FailRead ==
  /\ room > 0
  /\ room' = 0
  /\ UNCHANGED <<buf, received, consumed>>

\* consume(n), which stops at the end of the committed area.
ConsumeSome(n) ==
  /\ room = 0
  /\ buf' = Consume(buf, n)
  /\ consumed' = consumed + (IF n <= CommittedSize(buf) THEN n ELSE CommittedSize(buf))
  /\ UNCHANGED <<room, received>>

\* reset(): what was not consumed is given up.
DiscardAll ==
  /\ room = 0
  /\ buf' = Reset(buf)
  /\ consumed' = Len(received)
  /\ UNCHANGED <<room, received>>

UseNext ==
  \/ \E required \in 1..MaxRequired : BeginRead(required)
  \/ \E n \in 1..(MaxReceived - Len(received)) : \E data \in [1..n -> Byte] : EndRead(data)
  \/ FailRead
  \/ \E n \in 1..MaxRequired : ConsumeSome(n)
  \/ DiscardAll

UseSpec == UseInit /\ [][UseNext]_useVars

-----------------------------------------------------------------------------
(* Properties *)

BufferTypeOK ==
  /\ buf \in [size : 1..SizeMax, co : Nat, po : Nat, mem : [0..(buf.size - 1) -> Byte \cup {Junk}]]
  /\ buf.co <= buf.po /\ buf.po <= buf.size
  /\ room \in 0..MaxRequired
  /\ received \in Seq(Byte)
  /\ consumed \in 0..Len(received)

\* Whatever prepare() moves or reallocates and however reads and consumption
\* alternate, the committed area is exactly what was received and not consumed:
\* no byte is lost, repeated, reordered or invented.
CommittedIsUnread ==
  /\ CommittedSize(buf) = Len(received) - consumed
  /\ \A i \in 1..CommittedSize(buf) : CommittedArea(buf)[i] = received[consumed + i]

\* A read always gets the room that was asked for: it never has an empty
\* buffer, which a socket would answer with a spurious end of file.
ReadHasRoom == PreparedSize(buf) >= room

\* Memory is reallocated only when the bytes that are still needed and the room
\* asked for do not fit in what there is, and the buffer never shrinks.
GrowsOnlyIfFull ==
  [][buf'.size # buf.size =>
       /\ buf'.size > buf.size
       /\ CommittedSize(buf) + room' > buf.size]_useVars
=============================================================================
