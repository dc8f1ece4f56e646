------------------------------ MODULE MCNodeParts ------------------------------
(* A small instance of NodeParts.                                          *)
EXTENDS NodeParts, TLC

CONSTANTS n1, n2, port

Value(t, d) == [type |-> t, data |-> d]

NoneValue == Value("NoneType", "none")

\* A value of each type, both of bool, and a string that reads like True.
ValueKinds ==
  {Value("str", "True"), Value("bool", "true"), Value("bool", "false"), NoneValue} \cup
  {Value(t, "items") : t \in {"list", "tuple", "set"}}

\* The configuration file does not have the parameter.
FileKinds == [p \in {port} |-> NoneValue]

\* One caller may start the servers again while the node stops, one stops the monitor.
Asked == (n1 :> {<<"start", "servers">>}) @@ (n2 :> {<<"stop", "monitor">>})
=============================================================================
