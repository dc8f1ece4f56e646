------------------------------ MODULE RuleStore ------------------------------
(***************************************************************************)
(* What the traffic-rule database of one Axon node promises its callers:   *)
(* every configuration of a register, unregister or delete request takes   *)
(* effect in one step, on the rules the database holds at that step.       *)
(*                                                                         *)
(* ConnectedState describes how the code does it, with a read transaction  *)
(* followed by a write transaction, and is checked against this module.    *)
(***************************************************************************)
EXTENDS TrafficRules

VARIABLES
  db,           \* db[e]: the row of endpoint e, or NoRow
  call          \* call[t]: the request thread t serves, and its progress

Idle == [op |-> "none", configs |-> <<>>, next |-> 1]

Call == [op : {"register", "unregister", "delete"}, configs : Seq(Config), next : Nat \ {0}]

Serving(t) == call[t].op # "none"

Working(t) == Serving(t) /\ call[t].next <= Len(call[t].configs)

\* The configuration thread t works on.
Cfg(t) == call[t].configs[call[t].next]

-----------------------------------------------------------------------------
Init ==
  /\ db = [e \in Endpoints |-> NoRow]
  /\ call = [t \in Threads |-> Idle]

Begin(t, r) ==
  /\ ~ Serving(t)
  /\ call' = [call EXCEPT ![t] = [op |-> r.op, configs |-> r.configs, next |-> 1]]
  /\ UNCHANGED db

\* The next configuration of the request takes effect, all of it at once.
Apply(t) ==
  /\ Working(t)
  /\ db' = Effect(call[t].op, Cfg(t), db)
  /\ call' = [call EXCEPT ![t].next = @ + 1]

\* The request is over: answered, or failed and without further effect.
End(t) ==
  /\ Serving(t)
  /\ call' = [call EXCEPT ![t] = Idle]
  /\ UNCHANGED db

\* The process dies and starts again; what the database holds survives.
Restart ==
  /\ call' = [t \in Threads |-> Idle]
  /\ UNCHANGED db

Next ==
  \/ \E t \in Threads :
       \/ \E r \in Requests : Begin(t, r)
       \/ Apply(t)
       \/ End(t)
  \/ Restart

vars == <<db, call>>

Spec == Init /\ [][Next]_vars
=============================================================================
