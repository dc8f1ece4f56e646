--------------------------- MODULE TrafficController ---------------------------
(***************************************************************************)
(* The traffic controllers on the runner machine, and what their RPCs do   *)
(* to the Axon nodes. An operation is a row of phases; in a phase the same *)
(* RPC goes to every node the controller knows, side by side, and the next *)
(* phase begins when all of them have an answer.                           *)
(*                                                                         *)
(* BasicTrafficController runs a phase with ParallelWork and logs          *)
(* failures; DataCenterTrafficController runs it with a thread pool whose  *)
(* map raises, which ends the operation.                                   *)
(*                                                                         *)
(* A node is seen from outside: an RPC takes effect at once, as            *)
(* ConnectedState and ServerAgent describe it for one caller at a time.    *)
(***************************************************************************)
EXTENDS Naturals, SequencesExt

CONSTANTS
  Endpoints,  \* traffic endpoints
  VifNode,    \* VifNode[e]: the node of an endpoint (workload_vif_map)
  Ports,      \* (protocol, port) pairs
  Configs,    \* traffic configurations callers pass: sequences of rules
  None        \* an endpoint without a record, or without a row

Client == [dst : Endpoints, port : Ports, verdict : BOOLEAN]

Rules == [src : Endpoints, dst : Endpoints, port : Ports, verdict : BOOLEAN]

Record == [servers : SUBSET Ports, clients : Seq(Client)]

ASSUME ControllerAssumption ==
  /\ DOMAIN VifNode = Endpoints
  /\ Configs \subseteq Seq(Rules) \ {<<>>}
  /\ None \notin Record

VARIABLES
  strict,     \* which controller it is: DataCenterTrafficController, or the basic one
  faulty,     \* may RPCs fail?
  whole,      \* do callers use one controller, and it for all the nodes it knows?
  records,    \* records[e]: the TrafficRecord of endpoint e, or None
  phases,     \* the phases that are left of the operation, the current one first
  target,     \* the nodes the operation is for
  waiting,    \* nodes whose answer the phase waits for
  failed,     \* has an RPC of the operation failed?
  given,      \* the rules callers have registered, and not unregistered since
  pushed,     \* has the last change of the rules gone well, as far as callers know?
  rows,       \* rows[e]: the row of endpoint e in the database of its node, or None
  serving,    \* serving[e]: the servers that run on e
  sending     \* sending[e]: the client rules the client process of e was started with

mode == <<strict, faulty, whole>>
control == <<records, phases, target, waiting, failed, given, pushed>>
node == <<rows, serving, sending>>
vars == <<mode, control, node>>

-----------------------------------------------------------------------------
(* Rules. What list a rule is in, and which of two comes later, matters;   *)
(* that a list has a rule more than once does not.                         *)

NewRecord == [servers |-> {}, clients |-> <<>>]

Key(c) == <<c.dst, c.port>>

\* The rules on the connection of c.
About(c) == {[c EXCEPT !.verdict = v] : v \in BOOLEAN}

Without(clients, gone) ==
  FoldLeft(LAMBDA s, x : IF x \in gone THEN s ELSE Append(s, x), <<>>, clients)

\* The guard of add_client compares three fields with tuples of five: it never
\* finds one.
AddClient(clients, c) == Append(Without(clients, {c}), c)

\* __create_rules: a rule makes a server of its destination, a client of its source.
AddRule(recs, r) ==
  LET old == [e \in Endpoints |-> IF recs[e] = None /\ e \in {r.src, r.dst} THEN NewRecord
                                  ELSE recs[e]]
      srv == [old EXCEPT ![r.dst].servers = @ \cup {r.port}]
  IN [srv EXCEPT ![r.src].clients =
        AddClient(@, [dst |-> r.dst, port |-> r.port, verdict |-> r.verdict])]

\* Mutant: only what this call names is pushed.
CreateAnew(recs, config) == FoldLeft(AddRule, [e \in Endpoints |-> None], config)

Create(recs, config) == FoldLeft(AddRule, recs, config)

\* The client map of the node has one rule for a key, the last one.
Keyed(clients) == FoldLeft(LAMBDA m, c : Append(Without(m, About(c)), c), <<>>, clients)

\* A row that is new is stored as it comes.
Registered(row, rec) ==
  IF row = None THEN rec
  ELSE [servers |-> row.servers \cup rec.servers, clients |-> Keyed(row.clients \o rec.clients)]

Unregistered(row, rec) ==
  IF row = None THEN None
  ELSE [servers |-> row.servers \ rec.servers,
        clients |-> Without(Keyed(row.clients), UNION {About(c) : c \in ToSet(rec.clients)})]

\* BasicTrafficController takes the address of an endpoint for that of its node.
NodeOf(e) == IF strict THEN VifNode[e] ELSE e

Nodes == Endpoints \cup {VifNode[e] : e \in Endpoints}

NodesOf(recs) == {NodeOf(e) : e \in {x \in Endpoints : recs[x] # None}}

Known == NodesOf(records)

\* The nodes an operation may be for: those its caller names, or all that are known.
Targets ==
  ({Known} \cup (IF whole THEN {} ELSE SUBSET {NodeOf(e) : e \in Endpoints})) \ {{}}

-----------------------------------------------------------------------------
(* Operations of the controller.                                           *)

Init ==
  /\ strict \in BOOLEAN /\ faulty \in BOOLEAN /\ whole \in BOOLEAN
  /\ records = [e \in Endpoints |-> None]
  /\ phases = <<>>
  /\ target = {} /\ waiting = {}
  /\ failed = FALSE
  /\ given = {}
  /\ pushed = TRUE
  /\ rows = [e \in Endpoints |-> None]
  /\ serving = [e \in Endpoints |-> {}]
  /\ sending = [e \in Endpoints |-> {}]

Operate(recs, todo, ns) ==
  /\ phases = <<>>
  /\ records' = recs
  /\ phases' = todo
  /\ target' = ns /\ waiting' = ns
  /\ failed' = FALSE
  /\ UNCHANGED <<mode, pushed, node>>

Push(config, rpc) ==
  LET recs == Create(records, config) IN Operate(recs, <<rpc>>, NodesOf(recs))

RegisterTraffic(config) ==
  /\ Push(config, "register")
  /\ given' = given \cup ToSet(config)

\* Everything the controller has seen is unregistered, whatever the call
\* names; DataCenterTrafficController does nothing at all.
UnregisterTraffic(config) ==
  /\ ~ strict
  /\ Push(config, "unregister")
  /\ given' = given \ ToSet(config)

\* Callers that get an exception do not start what they could not push.
StartTraffic(ns) ==
  /\ strict => pushed
  /\ Operate(records, <<"start_servers", "start_clients">>, ns)
  /\ UNCHANGED given

\* Mutant: servers are stopped first.
StopServersFirst(ns) ==
  /\ Operate(records, <<"stop_servers", "stop_clients">>, ns)
  /\ UNCHANGED given

StopTraffic(ns) ==
  /\ Operate(records, <<"stop_clients", "stop_servers">>, ns)
  /\ UNCHANGED given

RestartTraffic(ns) ==
  /\ strict => pushed
  /\ Operate(records, <<"stop_clients", "stop_servers", "start_servers", "start_clients">>, ns)
  /\ UNCHANGED given

\* Without known nodes start_traffic returns at once, and so do the others.
StartNothing ==
  /\ Known = {} /\ phases = <<>>
  /\ phases' = <<"nothing">>
  /\ failed' = FALSE
  /\ target' = {}
  /\ UNCHANGED <<mode, records, waiting, given, pushed, node>>

ClearAllTrafficRules(ns) ==
  /\ strict
  /\ Operate(records, <<"clear">>, ns)
  /\ given' = {r \in given : {NodeOf(r.src), NodeOf(r.dst)} \cap ns = {}}

-----------------------------------------------------------------------------
(* RPCs.                                                                   *)

\* What the RPC of the current phase does to node n.
Effect(n) ==
  LET rpc == Head(phases)
      mine == {e \in Endpoints : NodeOf(e) = n}
      row(e) == IF rows[e] = None THEN NewRecord ELSE rows[e]
      On(f, g(_)) == [e \in Endpoints |-> IF e \in mine THEN g(e) ELSE f[e]]
  IN /\ rows' = CASE rpc = "register" ->
                       On(rows, LAMBDA e : IF records[e] = None THEN rows[e]
                                           ELSE Registered(rows[e], records[e]))
                  [] rpc = "unregister" ->
                       On(rows, LAMBDA e : IF records[e] = None THEN rows[e]
                                           ELSE Unregistered(rows[e], records[e]))
                  [] rpc = "clear" -> On(rows, LAMBDA e : None)
                  [] OTHER -> rows
     /\ serving' = CASE rpc = "start_servers" ->
                          On(serving, LAMBDA e : serving[e] \cup row(e).servers)
                     [] rpc = "stop_servers" -> On(serving, LAMBDA e : {})
                     [] OTHER -> serving
     \* A client process that runs is left as it is.
     /\ sending' = CASE rpc = "start_clients" ->
                          On(sending, LAMBDA e : IF sending[e] # {} THEN sending[e]
                                                 ELSE ToSet(row(e).clients))
                     [] rpc = "stop_clients" -> On(sending, LAMBDA e : {})
                     [] OTHER -> sending

Answer(n, ok) ==
  /\ n \in waiting
  /\ waiting' = waiting \ {n}
  /\ failed' = (failed \/ ~ ok)
  /\ UNCHANGED <<mode, records, phases, target, given, pushed>>

Done(n) == Answer(n, TRUE) /\ Effect(n)

\* The node cannot be reached, or the RPC raises before it has any effect.
Refused(n) == faulty /\ Answer(n, FALSE) /\ UNCHANGED node

\* The connection breaks before the answer comes.
Lost(n) == faulty /\ Answer(n, FALSE) /\ Effect(n)

\* Mutant: the next phase does not wait for the answers.
NextPhaseAtOnce ==
  /\ phases # <<>>
  /\ phases' = Tail(phases)
  /\ waiting' = IF Tail(phases) = <<>> THEN {} ELSE target
  /\ pushed' = IF Head(phases) \in {"register", "unregister", "clear"} THEN ~ failed ELSE pushed
  /\ UNCHANGED <<mode, records, target, failed, given, node>>

\* All answers are there: the next phase begins, or the operation returns or raises.
NextPhase ==
  /\ phases # <<>> /\ waiting = {}
  /\ phases' = IF strict /\ failed THEN <<>> ELSE Tail(phases)
  /\ waiting' = IF phases' = <<>> THEN {} ELSE target
  /\ target' = IF phases' = <<>> THEN {} ELSE target
  /\ pushed' = IF Head(phases) \in {"register", "unregister", "clear"} THEN ~ failed ELSE pushed
  /\ UNCHANGED <<mode, records, failed, given, node>>

\* A new script makes a new controller; the nodes stay as they are.
NewController ==
  /\ ~ whole /\ phases = <<>>
  /\ records' = [e \in Endpoints |-> None]
  /\ given' = {}
  /\ pushed' = TRUE
  /\ UNCHANGED <<mode, phases, target, waiting, failed, node>>

Next ==
  \/ \E c \in Configs : RegisterTraffic(c) \/ UnregisterTraffic(c)
  \/ \E ns \in Targets :
       StartTraffic(ns) \/ StopTraffic(ns) \/ RestartTraffic(ns) \/ ClearAllTrafficRules(ns)
  \/ StartNothing
  \/ \E n \in Nodes : Done(n) \/ Refused(n) \/ Lost(n)
  \/ NextPhase
  \/ NewController

Spec == Init /\ [][Next]_vars

-----------------------------------------------------------------------------
TypeOK ==
  /\ records \in [Endpoints -> Record \cup {None}]
  /\ ToSet(phases) \subseteq {"register", "unregister", "clear", "nothing", "start_servers",
                              "start_clients", "stop_servers", "stop_clients"}
  /\ target \subseteq Nodes /\ waiting \subseteq target
  /\ failed \in BOOLEAN
  /\ given \subseteq UNION {ToSet(c) : c \in Configs}
  /\ pushed \in BOOLEAN
  /\ rows \in [Endpoints -> Record \cup {None}]
  /\ serving \in [Endpoints -> SUBSET Ports]
  /\ sending \in [Endpoints -> SUBSET Client]

(* No client sends to a server that is not there, at no time: servers are  *)
(* started on all nodes before clients on any, and stopped after them, so  *)
(* that a failed ping says something about the network. With RPCs that     *)
(* fail it takes the strict controller, and always one that knows all the  *)
(* nodes and leaves none out.                                              *)
NoFalseAlarm ==
  (whole /\ (strict \/ ~ faulty)) =>
    \A e \in Endpoints : \A c \in sending[e] : c.port \in serving[c.dst]

\* The operation ends with this step, and no RPC of it has failed.
Ends(last) ==
  phases # <<>> /\ phases' = <<>> /\ Head(phases) = last /\ ~ failed

(* When all RPCs of register_traffic have succeeded, the nodes hold all    *)
(* rules this controller was given, those of earlier calls that failed on  *)
(* some node included.                                                     *)
PushComplete ==
  [][ Ends("register") =>
        \A r \in given :
          /\ rows[r.dst] # None /\ r.port \in rows[r.dst].servers
          /\ rows[r.src] # None
          /\ \E c \in ToSet(rows[r.src].clients) : Key(c) = <<r.dst, r.port>> ]_vars

(* When stop_traffic has succeeded, no traffic is left on the nodes that   *)
(* it was for, that of rules the controller has unregistered, of           *)
(* controllers before it, and of operations on other nodes, included.      *)
StopsEverything ==
  [][ Ends("stop_servers") =>
        \A e \in Endpoints : NodeOf(e) \in target => serving[e] = {} /\ sending[e] = {} ]_vars

(* When start_traffic has succeeded, on the nodes that it was for all      *)
(* servers run that they have rules for, and every endpoint that has       *)
(* client rules sends, whatever was started or stopped there before.       *)
StartStarts ==
  [][ Ends("start_clients") =>
        \A e \in Endpoints : (NodeOf(e) \in target /\ rows[e] # None) =>
          /\ rows[e].servers \subseteq serving[e]
          /\ rows[e].clients # <<>> => sending[e] # {} ]_vars

(* start_traffic of a new controller starts what the nodes have rules for, *)
(* as in the document's example: not met, since it knows no node.          *)
StartsAnew == [][ ~ Ends("nothing") \/ \A e \in Endpoints : rows[e] = None ]_vars

(* A node has one verdict on a connection: allowed or dropped. Not met     *)
(* when a verdict changes while its node does not answer.                  *)
OneVerdict ==
  \A e \in Endpoints : rows[e] # None =>
    \A c, d \in ToSet(rows[e].clients) : Key(c) = Key(d) => c = d
=============================================================================
