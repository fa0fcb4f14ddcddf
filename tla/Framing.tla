------------------------------ MODULE Framing ------------------------------
(***************************************************************************)
(* How a stream of bytes is cut into messages: parse_message() and         *)
(* message_missing_bytes().                                                *)
(*                                                                         *)
(* A frame is a message on the wire: a header, whose length field tells    *)
(* the length of the whole, and a body.  A byte is a pair of a frame and a *)
(* position in it.  Five bytes that are not the header of one frame decode *)
(* to nothing in particular: such a header is called torn.                 *)
(***************************************************************************)
EXTENDS Integers, Sequences

CONSTANT HeaderSize  \* 5 in the protocol

\* The bytes of the frame f, whose length is n.
FrameBytes(f, n) == [i \in 1..n |-> <<f, i>>]

Torn(data) ==
  \/ data[1][2] # 1
  \/ \E i \in 1..HeaderSize : data[i] # <<data[1][1], i>>

\* The outcome of parsing data.  len[f] is the length that the header of f
\* gives; bad is the set of frames whose header or body is malformed.
NeedsMore(n) == [ec |-> "needs_more", size |-> n, frame |-> 0]

ParseMessage(data, len, bad) ==
  IF Len(data) < HeaderSize THEN NeedsMore(HeaderSize - Len(data))
  ELSE IF Torn(data) THEN [ec |-> "torn", size |-> 0, frame |-> 0]
  ELSE LET f == data[1][1]
       IN  IF Len(data) < len[f] THEN NeedsMore(len[f] - Len(data))
           ELSE IF f \in bad THEN [ec |-> "protocol_value_error", size |-> 0, frame |-> f]
           ELSE [ec |-> "ok", size |-> len[f], frame |-> f]

MessageMissingBytes(data, len) ==
  IF Len(data) < HeaderSize THEN HeaderSize - Len(data)
  ELSE IF Torn(data) THEN 0
  ELSE LET n == len[data[1][1]] IN IF Len(data) < n THEN n - Len(data) ELSE 0
=============================================================================
