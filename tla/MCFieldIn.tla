----------------------------- MODULE MCFieldIn -----------------------------
(* Dates up to the last one that std::chrono::year can hold, and beyond.   *)
EXTENDS FieldIn

ValuesDef ==
  {[oid |-> DateOid, v |-> <<d>>] : d \in {<<2024, 2, 29>>, <<32767, 12, 31>>, <<40000, 1, 1>>}}
=============================================================================
