---------------------------- MODULE MCMessageIn ----------------------------
(* The ParameterDescription of statements with no, one and two parameters. *)
EXTENDS MessageIn

MessagesDef ==
  {[kind |-> "parameter_description", fields |-> <<>>, items |-> oids] :
     oids \in {<<>>, <<<<23>>>>, <<<<23>>, <<-1>>>>}}
=============================================================================
