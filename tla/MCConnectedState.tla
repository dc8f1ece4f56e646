--------------------------- MODULE MCConnectedState ---------------------------
(* Small instances of ConnectedState.                                      *)
EXTENDS ConnectedState, TLC

CONSTANTS e1, e2, s1, s2, k1, allow, deny

NoClients == [k \in ClientKeys |-> NoAction]

OneClient(a) == [k \in ClientKeys |-> a]

Of(e, ss, cs) == [endpoint |-> e, servers |-> ss, clients |-> cs]

Register(configs) == [op |-> "register", configs |-> configs]
Unregister(configs) == [op |-> "unregister", configs |-> configs]
DeleteRules(e) == [op |-> "delete", configs |-> <<Of(e, {}, NoClients)>>]

\* add_server of an agent, and what the controller registers for one workload.
AddServerRequests ==
  { Register(<<Of(e1, {s1}, NoClients)>>), Register(<<Of(e1, {s2}, NoClients)>>) }

RegisterRequests == AddServerRequests \cup
  { Register(<<Of(e1, {s1}, OneClient(allow))>>),
    Register(<<Of(e1, {}, OneClient(deny))>>),
    Register(<<Of(e2, {s1}, NoClients)>>),
    Register(<<Of(e1, {s1}, NoClients), Of(e2, {s2}, OneClient(allow))>>),
    Register(<<Of(e1, {s1}, NoClients), Of(e1, {s2}, NoClients)>>) }

RemoveRequests ==
  { Unregister(<<Of(e1, {s1}, OneClient(allow))>>),
    Unregister(<<Of(e2, {s2}, NoClients), Of(e1, {s2}, NoClients)>>),
    DeleteRules(e1), DeleteRules(AllEndpoints) }

MixedRequests == RegisterRequests \cup RemoveRequests

RaceRequests ==
  { Register(<<Of(e1, {s1}, NoClients)>>), Register(<<Of(e1, {s2}, OneClient(allow))>>),
    Unregister(<<Of(e1, {s1}, NoClients)>>), DeleteRules(e1), DeleteRules(AllEndpoints) }

Symmetry == Permutations(Threads)
=============================================================================
