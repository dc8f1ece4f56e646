---------------------------- MODULE NamespaceAgents ----------------------------
(***************************************************************************)
(* The server agent and the client agent of a node in namespace mode: what *)
(* each knows of the host's network namespaces, the processes they run in  *)
(* them, and rediscover_namespaces, which forgets all an agent knows and   *)
(* then looks again while other RPCs are served.                           *)
(*                                                                         *)
(* Any other RPC is one step here; ServerAgent and ClientAgent have the    *)
(* steps of those, and the races of two. Each namespace has one interface  *)
(* at most, and its address is taken for the namespace's own.              *)
(***************************************************************************)
EXTENDS Naturals, FiniteSets

CONSTANTS
  Spaces,  \* names of namespaces
  None,    \* no namespace; an agent that knows nothing
  Hosts    \* bound: the sets of namespaces there ever are, and what happens to them

NamespaceAssumption ==
  /\ None \notin Spaces
  /\ Hosts \subseteq [names : SUBSET Spaces, events : SUBSET {"bare", "remove", "death", "raise"}]

Kinds == {"server", "client"}

VARIABLES
  setting, \* the host this is; never changes
  host,    \* host[n]: "absent", "bare" (no interface with an address), or "up"
  know,    \* know[k]: the interface map of agent k, over its list of namespaces
  rules,   \* rules[k]: namespaces whose address has servers, clients in the database
  procs,   \* procs[k][n]: the manager of n and what its registry has
  stray,   \* namespaces where a server runs whose manager the agent never kept
  stage,   \* the step rediscover_namespaces is at
  since,   \* namespaces that have existed since it began
  last     \* the last call, while nothing else has happened

vars == <<setting, host, know, rules, procs, stray, stage, since, last>>

NoCall == [op |-> "none", kind |-> "none", ns |-> None, ret |-> "none"]

Existing == {n \in Spaces : host[n] # "absent"}

Found == [n \in Existing |-> host[n]]

Managed(k) == {n \in Spaces : procs[k][n] # "none"}

\* ns_list = [namespace] if namespace else self._ns_list
Listed(k, n) == IF n # None THEN {n} ELSE IF know[k] = None THEN {} ELSE DOMAIN know[k]

\* The interfaces of a namespace, which are filtered by name, may be None.
Iterable(k, n) == know[k] # None /\ n \in DOMAIN know[k] /\ know[k][n] # "bare"

\* Where a process runs already, or can be started or stopped.
Enterable(n) == host[n] # "absent"

Running(k, n) == procs[k][n] = "running"

Called(op, k, n, ret) == last' = [op |-> op, kind |-> k, ns |-> n, ret |-> ret]

-----------------------------------------------------------------------------
Init ==
  /\ setting \in Hosts
  /\ host \in [Spaces -> {"absent", "up"} \cup ({"bare"} \cap setting.events)]
  /\ \A n \in Spaces \ setting.names : host[n] = "absent"
  /\ know = [k \in Kinds |-> Found]
  /\ rules \in [Kinds -> SUBSET setting.names]
  /\ procs = [k \in Kinds |-> [n \in Spaces |-> "none"]]
  /\ stray = {}
  /\ stage = "idle" /\ since = {} /\ last = NoCall

Launched(k, ns) == [procs EXCEPT ![k] = [n \in Spaces |-> IF n \in ns THEN "running" ELSE @[n]]]

\* The database may fail, and so may a start.
MayRaise == "raise" \in setting.events

\* start_servers, start_clients. The loop ends with an exception, wherever it has got,
\* at a namespace without interfaces or one that is gone, and it may when something else
\* fails. The manager of the namespace it has got to is not put in the map then, although
\* one of several servers may have been started.
Start(k, n) ==
  LET todo  == Listed(k, n)
      fails == \/ n = None /\ know[k] = None
               \/ \E m \in todo : ~ Iterable(k, m)
               \/ \E m \in todo \cap rules[k] : ~ Enterable(m) /\ ~ Running(k, m)
      good  == {m \in todo \cap rules[k] : Iterable(k, m) /\ Enterable(m)}
  IN /\ \/ /\ ~ fails
           /\ procs' = Launched(k, good) /\ UNCHANGED stray
           /\ Called("start", k, n, "ok")
        \/ /\ fails \/ (MayRaise /\ todo # {})
           /\ \E ns \in SUBSET good :
                \E ms \in {{}} \cup {{m} : m \in ns \ Managed(k)} :
                  /\ k = "client" => ms = {}
                  /\ procs' = Launched(k, ns \ ms) /\ stray' = stray \cup ms
           /\ Called("start", k, n, "raised")
     /\ UNCHANGED <<setting, host, know, rules, stage, since>>

\* add_server: the namespaces are tried in turn for the address of namespace m. The
\* server is started, then saved, and then its manager is put in the map.
Add(n, m) ==
  LET todo == Listed("server", n)
      hit  == m \in todo /\ Iterable("server", m) /\ know["server"][m] = "up"
      can  == hit /\ (Enterable(m) \/ Running("server", m))
      lost == {m} \ Managed("server")
  IN /\ \/ /\ can
           /\ procs' = Launched("server", {m}) /\ UNCHANGED stray
           /\ rules' = [rules EXCEPT !["server"] = @ \cup {m}]
           /\ Called("add", "server", n, "ok")
        \* It runs, and could not be saved.
        \/ /\ can /\ MayRaise
           /\ procs' = Launched("server", {m} \ lost) /\ stray' = stray \cup lost
           /\ Called("add", "server", n, "raised") /\ UNCHANGED rules
        \/ /\ \/ n = None /\ know["server"] = None
              \/ \E o \in todo : ~ Iterable("server", o)
              \/ hit /\ (MayRaise \/ ~ can)
           /\ Called("add", "server", n, "raised") /\ UNCHANGED <<procs, rules, stray>>
        \/ /\ ~ hit /\ \A o \in todo : Iterable("server", o)
           /\ Called("add", "server", n, "ok") /\ UNCHANGED <<procs, rules, stray>>
     /\ UNCHANGED <<setting, host, know, stage, since>>

\* What the registry of a manager has after a stop: stop_all_servers removes its
\* servers under the name of the root namespace, where they are not.
Stopped(k, op, s) ==
  CASE s = "none" -> "none"
    [] s # "none" /\ (k = "client" \/ (op = "one" /\ s = "running")) -> "gone"
    [] OTHER -> IF s = "running" THEN "ended" ELSE s

StopIn(k, ns, op) ==
  procs' = [procs EXCEPT ![k] = [m \in Spaces |-> IF m \in ns THEN Stopped(k, op, @[m]) ELSE @[m]]]

\* Mutant: some namespaces are left out.
StopLess(k, n, op) ==
  /\ \E ns \in SUBSET Listed(k, n) : StopIn(k, ns, op)
  /\ Called("stop", k, n, "ok")
  /\ UNCHANGED <<setting, host, know, rules, stray, stage, since>>

\* stop_servers, stop_clients, and with op = "one" stop_server, which enters the
\* namespace to stop the server, and raises when that is gone.
Stop(k, n, op) ==
  LET todo == Listed(k, n) \cap Managed(k)
      lost == {m \in todo : op = "one" /\ Running(k, m) /\ ~ Enterable(m)}
      what == IF op = "one" THEN "stopserver" ELSE "stop"
  IN /\ IF n = None /\ know[k] = None /\ Managed(k) # {}
        THEN Called(what, k, n, "raised") /\ UNCHANGED procs
        ELSE IF lost # {}
        THEN \E ns \in SUBSET (todo \ lost) : StopIn(k, ns, op) /\ Called(what, k, n, "raised")
        ELSE StopIn(k, todo, op) /\ Called(what, k, n, "ok")
     /\ UNCHANGED <<setting, host, know, rules, stray, stage, since>>

\* stop_client looks the managers' namespaces up among the interfaces of one: none is there.
StopClient(n) ==
  /\ Called("stopclient", "client", n, IF know["client"] = None THEN "raised" ELSE "ok")
  /\ UNCHANGED <<setting, host, know, rules, procs, stray, stage, since>>

-----------------------------------------------------------------------------
(* rediscover_namespaces: the server agent, then the client agent.         *)

Forget(k) ==
  /\ stage = IF k = "server" THEN "idle" ELSE "between"
  /\ know' = [know EXCEPT ![k] = None]
  /\ stage' = k
  /\ since' = IF k = "server" THEN Existing ELSE since
  /\ last' = NoCall
  /\ UNCHANGED <<setting, host, rules, procs, stray>>

\* Mutant: only namespaces with an interface are kept.
LearnUp(k) ==
  /\ stage = k
  /\ know' = [know EXCEPT ![k] = [n \in {m \in Existing : host[m] = "up"} |-> "up"]]
  /\ stage' = IF k = "server" THEN "between" ELSE "idle"
  /\ IF k = "client" THEN Called("rediscover", k, None, "ok") ELSE last' = NoCall
  /\ UNCHANGED <<setting, host, rules, procs, stray, since>>

Learn(k) ==
  /\ stage = k
  /\ know' = [know EXCEPT ![k] = Found]
  /\ stage' = IF k = "server" THEN "between" ELSE "idle"
  /\ IF k = "client" THEN Called("rediscover", k, None, "ok") ELSE last' = NoCall
  /\ UNCHANGED <<setting, host, rules, procs, stray, since>>

\* A namespace is removed after it was listed and before it is entered: the call
\* fails there, and the agent knows nothing until the next.
LearnFails(k) ==
  /\ stage = k /\ "remove" \in setting.events
  /\ \E n \in Existing : host' = [host EXCEPT ![n] = "absent"]
  /\ stage' = "idle"
  /\ Called("rediscover", k, None, "raised")
  /\ UNCHANGED <<setting, know, rules, procs, stray, since>>

-----------------------------------------------------------------------------
\* The host: namespaces are made, get an address, and are removed; processes die.
Change(n, to) ==
  /\ host[n] # to
  /\ to = "bare" => "bare" \in setting.events /\ host[n] = "absent"
  /\ to = "absent" => "remove" \in setting.events
  /\ host' = [host EXCEPT ![n] = to]
  /\ since' = IF to = "absent" THEN since \ {n} ELSE since
  /\ last' = NoCall
  /\ UNCHANGED <<setting, know, rules, procs, stray, stage>>

\* Any process may end, and a server that finds its port taken by a stray one does.
Die(k, n) ==
  /\ "death" \in setting.events
  /\ \/ /\ Running(k, n) /\ procs' = [procs EXCEPT ![k][n] = "ended"]
        /\ UNCHANGED stray
     \/ /\ k = "server" /\ n \in stray /\ stray' = stray \ {n}
        /\ UNCHANGED procs
  /\ last' = NoCall
  /\ UNCHANGED <<setting, host, know, rules, stage, since>>

Next ==
  \/ \E k \in Kinds :
       \/ \E n \in setting.names \cup {None} : Start(k, n) \/ Stop(k, n, "all")
       \/ Forget(k) \/ Learn(k) \/ LearnFails(k)
       \/ \E n \in Spaces : Die(k, n)
  \/ \E n \in setting.names \cup {None} :
       Stop("server", n, "one") \/ StopClient(n) \/ \E m \in setting.names : Add(n, m)
  \/ \E n \in setting.names, to \in {"absent", "bare", "up"} : Change(n, to)

Spec == Init /\ [][Next]_vars

-----------------------------------------------------------------------------
TypeOK ==
  /\ setting \in Hosts
  /\ host \in [Spaces -> {"absent", "bare", "up"}]
  /\ \A k \in Kinds :
       know[k] = None \/ (DOMAIN know[k] \subseteq Spaces
                          /\ \A n \in DOMAIN know[k] : know[k][n] \in {"bare", "up"})
  /\ rules \in [Kinds -> SUBSET Spaces]
  /\ procs \in [Kinds -> [Spaces -> {"none", "gone", "running", "ended"}]]
  /\ stray \subseteq Spaces
  /\ stage \in Kinds \cup {"idle", "between"} /\ since \subseteq Spaces

Is(op, k, n) == last.op = op /\ last.kind = k /\ last.ns = n

StopReturned(k) == last.op \in {"stop", "stopserver"} /\ last.kind = k /\ last.ret = "ok"

(* A stop that returns leaves no process running that the agent has a      *)
(* manager of, in the namespace it is for or in any, whatever the agent    *)
(* has rediscovered since; without a namespace, in one that was removed    *)
(* only if the agent still has it. A server whose call raised before its   *)
(* manager was put in the map (stray) is excepted: no stop reaches it.     *)
(* (stop_servers, stop_clients, stop_server.)                              *)
StopsAll ==
  \A k \in Kinds, n \in Spaces :
    (StopReturned(k) /\ Running(k, n)) =>
      \/ last.ns \notin {n, None}
      \/ last.ns = None /\ "remove" \in setting.events /\ n \notin DOMAIN know[k]

(* The same for every server that the agent has started ("Stop all server  *)
(* in given namespace", says the docstring of stop_servers).               *)
StopsEvery ==
  \A n \in Spaces :
    (StopReturned("server") /\ last.ns = n) => ~ Running("server", n) /\ n \notin stray

(* After rediscover_namespaces both agents know every namespace that has   *)
(* been there since it began, whatever was made or removed meanwhile.      *)
RediscoverFinds ==
  (last.op = "rediscover" /\ last.ret = "ok") => \A k \in Kinds : since \subseteq DOMAIN know[k]

(* The registry holds the servers that run: after stop_servers, which has  *)
(* stopped them, it has none (docstring of ServerRegistry).                *)
StoppedNotListed ==
  (Is("stop", "server", None) /\ last.ret = "ok") => \A n \in Spaces : procs["server"][n] # "ended"

(* start_servers and start_clients run a process in every namespace with   *)
(* interfaces and rules, whatever the others have.                         *)
StartsEach ==
  \A k \in Kinds : Is("start", k, None) =>
    \A n \in Spaces : (know[k] # None /\ n \in DOMAIN know[k] \cap rules[k] /\ know[k][n] = "up")
      => Running(k, n)

(* stop_client leaves no client running in the namespace.                  *)
StopsClient ==
  \A n \in Spaces : (Is("stopclient", "client", n) /\ last.ret = "ok") => ~ Running("client", n)
=============================================================================
