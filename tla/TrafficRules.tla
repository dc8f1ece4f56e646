----------------------------- MODULE TrafficRules -----------------------------
(***************************************************************************)
(* The traffic rules of one Axon node and the requests that change them.   *)
(*                                                                         *)
(* The row of an endpoint holds the servers the node is to run, and its    *)
(* client rules: a map from (protocol, port, destination), here a client   *)
(* key, to the (connected, action) part of the rule. A request lists at    *)
(* most one rule for a key, so a list of client rules is such a map too.   *)
(***************************************************************************)
EXTENDS Naturals, Sequences

CONSTANTS
  Threads,      \* threads that serve RPC requests
  Endpoints,    \* endpoint addresses, the primary key of the table
  Servers,      \* (protocol, port) pairs
  ClientKeys,   \* (protocol, port, destination) triples
  Actions,      \* (connected, action) pairs
  NoAction,     \* a client key without a rule
  AllEndpoints, \* the missing endpoint argument of delete_traffic_rules
  NoRow,        \* an endpoint without a row
  Requests      \* the requests callers make

ASSUME RuleStoreAssumption ==
  /\ NoAction \notin Actions
  /\ AllEndpoints \notin Endpoints

ClientMap == [ClientKeys -> Actions \cup {NoAction}]

Row == [servers : SUBSET Servers, clients : ClientMap]

Config ==
  [endpoint : Endpoints \cup {AllEndpoints}, servers : SUBSET Servers, clients : ClientMap]

Request == [op : {"register", "unregister", "delete"}, configs : Seq(Config)]

ASSUME NoRowAssumption == NoRow \notin Row

\* delete_traffic_rules takes one endpoint, or none for all of them; the other
\* requests take a list of configurations, each for one endpoint.
ASSUME RequestsAssumption ==
  /\ Requests \subseteq Request
  /\ \A r \in Requests :
       IF r.op = "delete" THEN Len(r.configs) = 1
       ELSE \A i \in 1 .. Len(r.configs) : r.configs[i].endpoint \in Endpoints

-----------------------------------------------------------------------------
(* The rules a configuration adds to a row or takes from it.               *)

AddServers(current, new) == current \cup new

\* Mutant: unregistering one server drops them all.
DelAllServers(current, gone) == IF gone = {} THEN current ELSE {}

DelServers(current, gone) == current \ gone

\* A rule for a key the row already has replaces it.
AddClients(current, new) ==
  [k \in ClientKeys |-> IF new[k] # NoAction THEN new[k] ELSE current[k]]

\* A rule is removed by its key, whatever its action.
DelClients(current, gone) ==
  [k \in ClientKeys |-> IF gone[k] # NoAction THEN NoAction ELSE current[k]]

\* Mutant: the configuration is stored as it came, endpoint and all.
NewRowWhole(cfg) == cfg

NewRow(cfg) == [servers |-> cfg.servers, clients |-> cfg.clients]

Added(row, cfg) ==
  [servers |-> AddServers(row.servers, cfg.servers),
   clients |-> AddClients(row.clients, cfg.clients)]

Removed(row, cfg) ==
  [servers |-> DelServers(row.servers, cfg.servers),
   clients |-> DelClients(row.clients, cfg.clients)]

\* The effect of one configuration of a request with operation op on table d.
Effect(op, cfg, d) ==
  [e \in Endpoints |->
     CASE op = "register" /\ e = cfg.endpoint ->
            IF d[e] = NoRow THEN NewRow(cfg) ELSE Added(d[e], cfg)
       [] op = "unregister" /\ e = cfg.endpoint ->
            IF d[e] = NoRow THEN NoRow ELSE Removed(d[e], cfg)
       [] op = "delete" /\ cfg.endpoint \in {e, AllEndpoints} -> NoRow
       [] OTHER -> d[e]]
=============================================================================
