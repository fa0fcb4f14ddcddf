------------------------- MODULE NotificationQueue -------------------------
(***************************************************************************)
(* notification_queue: the events that a multiplexed connection hands to   *)
(* the callers of read_notifications().                                    *)
(*                                                                         *)
(* There is one producer, co_multiplexed_connection::run(), which adds a   *)
(* connect when it connects and a disconnect when it loses the connection, *)
(* and whose reader adds the notifications; the reader sleeps while there  *)
(* is no space for them.  Any number of consumers sleep while there are no *)
(* events.  Both waits are for an async_event: set() wakes whoever waits,  *)
(* and what a woken coroutine finds later is up to the ones that ran       *)
(* before it.                                                              *)
(***************************************************************************)
EXTENDS Integers, Sequences

CONSTANTS MaxPending,  \* max_pending_
          Consumers    \* coroutines that call read_events()

ASSUME QueueParams == MaxPending \in Nat \ {0}  \* asserted by the constructor

VARIABLES
  pending,      \* pending_
  eventsAvail,  \* the event events_available_
  spaceAvail,   \* the event space_available_
  prod,         \* the connection: down, up, or stopped; while it is up, the
                \* reader may be asleep in add_notify() or woken from there
  cons,         \* where read_events() is suspended, per consumer
  added,        \* notifications that the reader has dealt with so far
  lastNotify,   \* the last notification that was handed to a consumer
  lastState     \* the last connect or disconnect that was handed to a consumer

vars == <<pending, eventsAvail, spaceAvail, prod, cons, added, lastNotify, lastState>>
handed == <<lastNotify, lastState>>

Connect    == [type |-> "connect", id |-> 0]
Disconnect == [type |-> "disconnect", id |-> 0]
Notify(n)  == [type |-> "notify", id |-> n]  \* the n-th notification

Event == [type : {"connect", "disconnect", "notify"}, id : Nat]

\* The connection is up; the reader is reading, asleep or woken.
Connected == prod \in {"up", "asleep", "woken"}

\* The state of the code; what the consumers have seen is the subject of
\* TruthfulEvents and NotificationsInOrder.
TypeOK ==
  /\ pending \in Seq(Event)
  /\ eventsAvail \in BOOLEAN /\ spaceAvail \in BOOLEAN
  /\ prod \in {"down", "up", "asleep", "woken", "stopped"}
  /\ cons \in [Consumers -> {"out", "asleep", "woken"}]
  /\ added \in Nat

Init ==
  /\ pending = <<>> /\ eventsAvail = FALSE /\ spaceAvail = TRUE
  /\ prod = "down" /\ cons = [c \in Consumers |-> "out"]
  /\ added = 0 /\ lastNotify = 0 /\ lastState = "disconnect"

-----------------------------------------------------------------------------
HasSpace(q) == Len(q) < MaxPending

WakeConsumers == cons' = [c \in Consumers |-> IF cons[c] = "asleep" THEN "woken" ELSE cons[c]]

\* add_event()
AddEventSilently(e) ==  \* mutant: the consumers are not told
  /\ pending' = Append(pending, e)
  /\ spaceAvail' = (spaceAvail /\ HasSpace(pending'))
  /\ UNCHANGED <<eventsAvail, cons>>

AddEvent(e) ==
  /\ pending' = Append(pending, e)
  /\ spaceAvail' = (spaceAvail /\ HasSpace(pending'))
  /\ eventsAvail' = TRUE
  /\ WakeConsumers

Back(q) == q[Len(q)]

\* add_disconnect(): a connect that nobody has read is taken back.
AlwaysAdd == AddEvent(Disconnect)  \* mutant: connects are never taken back

AddIfSpace ==  \* mutant: disconnects are subject to backpressure
  IF HasSpace(pending) THEN AddEvent(Disconnect)
  ELSE UNCHANGED <<pending, spaceAvail, eventsAvail, cons>>

AddDisconnect ==
  IF pending # <<>> /\ Back(pending).type = "connect"
  THEN /\ pending' = SubSeq(pending, 1, Len(pending) - 1)
       /\ spaceAvail' = (spaceAvail \/ HasSpace(pending'))
       /\ eventsAvail' = (eventsAvail /\ pending' # <<>>)
       /\ UNCHANGED cons
  ELSE AddEvent(Disconnect)

\* run() has connected.
ConnectionUp ==
  /\ prod = "down"
  /\ AddEvent(Connect) /\ prod' = "up"
  /\ UNCHANGED <<added, handed>>

\* run() has lost the connection: a reader in add_notify() is cancelled, and
\* gives up the notification it holds.
ConnectionLost ==
  /\ Connected
  /\ AddDisconnect /\ prod' = "down"
  /\ UNCHANGED <<added, handed>>

\* run() is cancelled, which adds no event.
Stop ==
  /\ prod # "stopped" /\ prod' = "stopped"
  /\ UNCHANGED <<pending, eventsAvail, spaceAvail, cons, added, handed>>

\* A notification, in try_add_notify() or at the top of the loop of add_notify(),
\* which waits when there is no space.
DropsWhenFull ==  \* mutant: add_notify() is not called
  /\ IF HasSpace(pending) THEN AddEvent(Notify(added + 1))
     ELSE UNCHANGED <<pending, eventsAvail, spaceAvail, cons>>
  /\ added' = added + 1 /\ prod' = "up"

AddOrSleep ==
  IF HasSpace(pending)
  THEN AddEvent(Notify(added + 1)) /\ added' = added + 1 /\ prod' = "up"
  ELSE /\ prod' = IF spaceAvail THEN "woken" ELSE "asleep"
       /\ UNCHANGED <<pending, eventsAvail, spaceAvail, cons, added>>

NotificationArrives == prod = "up" /\ AddOrSleep /\ UNCHANGED handed

ReaderResumes == prod = "woken" /\ AddOrSleep /\ UNCHANGED handed

-----------------------------------------------------------------------------
(* read_events() *)

\* What a consumer that is handed q has seen: the last notification, and the last
\* connect or disconnect (n and s, when q has none).
LastId(q, n) ==
  LET ids == {q[i].id : i \in 1..Len(q)} \cup {n}
  IN  CHOOSE m \in ids : \A k \in ids : k <= m

LastStateIn(q, s) ==
  IF \A i \in 1..Len(q) : q[i].type = "notify" THEN s
  ELSE q[CHOOSE i \in 1..Len(q) :
           q[i].type # "notify" /\ \A j \in (i + 1)..Len(q) : q[j].type = "notify"].type

SpaceNotSignalled(c) ==  \* mutant: space_available_ is not set
  /\ pending' = <<>> /\ eventsAvail' = FALSE
  /\ lastNotify' = LastId(pending, lastNotify)
  /\ lastState' = LastStateIn(pending, lastState)
  /\ cons' = [cons EXCEPT ![c] = "out"]
  /\ UNCHANGED <<spaceAvail, prod>>

TakeAll(c) ==
  /\ pending' = <<>> /\ eventsAvail' = FALSE /\ spaceAvail' = TRUE
  /\ prod' = IF prod = "asleep" THEN "woken" ELSE prod
  /\ lastNotify' = LastId(pending, lastNotify)
  /\ lastState' = LastStateIn(pending, lastState)
  /\ cons' = [cons EXCEPT ![c] = "out"]

TakeOrSleep(c) ==
  /\ IF pending # <<>>
     THEN TakeAll(c)
     ELSE /\ cons' = [cons EXCEPT ![c] = IF eventsAvail THEN "woken" ELSE "asleep"]
          /\ UNCHANGED <<pending, eventsAvail, spaceAvail, prod, handed>>
  /\ UNCHANGED added

ReadEvents(c)      == cons[c] = "out" /\ TakeOrSleep(c)
ConsumerResumes(c) == cons[c] = "woken" /\ TakeOrSleep(c)

\* The consumer is cancelled while it sleeps.
ConsumerCancelled(c) ==
  /\ cons[c] = "asleep" /\ cons' = [cons EXCEPT ![c] = "out"]
  /\ UNCHANGED <<pending, eventsAvail, spaceAvail, prod, added, handed>>

Next ==
  \/ ConnectionUp \/ ConnectionLost \/ Stop \/ NotificationArrives \/ ReaderResumes
  \/ \E c \in Consumers : ReadEvents(c) \/ ConsumerResumes(c) \/ ConsumerCancelled(c)

Spec == Init /\ [][Next]_vars

-----------------------------------------------------------------------------
(* Properties *)

\* A consumer that does not read costs a bounded amount of memory however often
\* the connection is lost: two events more than max_pending at most, since a
\* connect that was not read is taken back ("Doing this avoids unbound memory
\* consumption if the user is not reading notifications").
BoundedMemory == Len(pending) <= MaxPending + 2

\* Nobody sleeps through an event: no consumer is asleep while there are events
\* to read, and the reader is not asleep while there is space.
NobodyOversleeps ==
  /\ pending # <<>> => \A c \in Consumers : cons[c] # "asleep"
  /\ HasSpace(pending) => prod # "asleep"

\* The events tell the truth about the connection: connects and disconnects
\* alternate, notifications come only while connected, and the last of them
\* says whether the connection is up, whatever was taken back in between.
StateBefore(i) == LastStateIn(SubSeq(pending, 1, i - 1), lastState)

TruthfulEvents ==
  /\ \A i \in 1..Len(pending) :
       IF pending[i].type = "connect"
       THEN StateBefore(i) = "disconnect" ELSE StateBefore(i) = "connect"
  /\ prod # "stopped" =>
       (StateBefore(Len(pending) + 1) = "connect" <=> Connected)

Notifies == {i \in DOMAIN pending : pending[i].type = "notify"}

\* Consumers get every notification that was added, once and in order, through
\* reconnections and through races between consumers.
NotificationsInOrder ==
  /\ lastNotify <= added
  /\ {pending[i].id : i \in Notifies} = (lastNotify + 1)..added
  /\ \A i, j \in Notifies : i < j => pending[i].id < pending[j].id

-----------------------------------------------------------------------------
\* Coroutines that were woken run, and some consumer keeps reading.
Fairness ==
  /\ WF_vars(ReaderResumes)
  /\ \A c \in Consumers : WF_vars(ReadEvents(c)) /\ WF_vars(ConsumerResumes(c))

FairSpec == Spec /\ Fairness

\* Backpressure ends: a reader that sleeps in add_notify() goes on, so the
\* responses behind the notification are read too.
BackpressureEnds == (prod \in {"asleep", "woken"}) ~> (prod \notin {"asleep", "woken"})
=============================================================================
