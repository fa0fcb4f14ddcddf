------------------------------- MODULE Parts -------------------------------
(***************************************************************************)
(* The parts of the library that stand alone, side by side: the codecs,    *)
(* the read buffer and the queue of notifications.  They share nothing: a  *)
(* behaviour is about one of them, with the variables of the others at     *)
(* rest.                                                                   *)
(***************************************************************************)
EXTENDS MessageIn, FieldIn, RequestBuilder, Conversions, ReadBufferUse, NotificationQueue

CONSTANT MaxNotifications  \* bound: how many notifications the server sends

VARIABLE unit  \* which part this behaviour is about

partsVars == <<unit, messageVars, fieldVars, builderVars, conversionVars, useVars, vars>>

\* The variables of a part that this behaviour is not about.
MessageAtRest ==
  /\ msg = CHOOSE m \in Messages : TRUE
  /\ body = <<>> /\ damage = "none" /\ arrived = 0 /\ result = Fails("needs_more", 5)
  /\ it = 0 /\ items = <<>>

FieldAtRest ==
  /\ value = CHOOSE v \in Values : TRUE
  /\ format = "text" /\ target = [type |-> "bool", optional |-> FALSE]
  /\ field = <<>> /\ exact = TRUE /\ parsed = NotParsed

ConversionAtRest ==
  conversion = "none" /\ given = <<>> /\ text = <<>> /\ damaged = FALSE /\ converted = <<>>

\* Nothing has happened to the queue, and everybody waits for it.
QueueAtRest ==
  /\ pending = <<>> /\ eventsAvail = FALSE /\ spaceAvail = TRUE
  /\ prod = "down" /\ cons = [c \in Consumers |-> "asleep"]
  /\ added = 0 /\ lastNotify = 0 /\ lastState = "disconnect"

PartsInit ==
  /\ unit \in {"message", "field", "builder", "conversion", "buffer", "queue"}
  /\ IF unit = "message" THEN MessageInit ELSE MessageAtRest
  /\ IF unit = "field" THEN FieldInit ELSE FieldAtRest
  /\ IF unit = "conversion" THEN ConversionInit ELSE ConversionAtRest
  /\ IF unit = "queue" THEN Init ELSE QueueAtRest
  /\ BuilderInit /\ UseInit

PartsNext ==
  \/ /\ unit = "message" /\ MessageNext
     /\ UNCHANGED <<unit, fieldVars, builderVars, conversionVars, useVars, vars>>
  \/ /\ unit = "field" /\ FieldNext
     /\ UNCHANGED <<unit, messageVars, builderVars, conversionVars, useVars, vars>>
  \/ /\ unit = "builder" /\ BuilderNext
     /\ UNCHANGED <<unit, messageVars, fieldVars, conversionVars, useVars, vars>>
  \/ /\ unit = "conversion" /\ ConversionNext
     /\ UNCHANGED <<unit, messageVars, fieldVars, builderVars, useVars, vars>>
  \/ /\ unit = "buffer" /\ UseNext
     /\ UNCHANGED <<unit, messageVars, fieldVars, builderVars, conversionVars, vars>>
  \/ /\ unit = "queue" /\ Next /\ (NotificationArrives => added < MaxNotifications)
     /\ UNCHANGED <<unit, messageVars, fieldVars, builderVars, conversionVars, useVars>>

PartsSpec == PartsInit /\ [][PartsNext]_partsVars /\ Fairness

=============================================================================
