------------------------------ MODULE ServerAgent ------------------------------
(***************************************************************************)
(* How one Axon node runs its traffic servers, outside namespace mode:     *)
(* TrafficApp, AxonRootNamespaceServerAgent, RootNsServerManager with its  *)
(* ServerRegistry, and the WorkerProcess of each server.                   *)
(*                                                                         *)
(* Threads of the RPC server run the operations. The agent's map of        *)
(* managers, the registries and the database are shared, and each action   *)
(* below touches one of them once; the registry's lock covers no more than *)
(* that either. A worker process binds its port after start() returned,    *)
(* and dies some time after terminate() returned.                          *)
(*                                                                         *)
(* The database is the store of ConnectedState, one step per operation.    *)
(***************************************************************************)
EXTENDS Naturals, FiniteSets

CONSTANTS
  Threads,    \* threads that serve RPC requests, the starting thread included
  Endpoints,  \* addresses of the node's interfaces
  Servers,    \* (protocol, port) pairs
  Udp,        \* the pairs whose socket several processes may bind
  Unknown,    \* the pairs whose protocol create_server_class does not know
  Procs,      \* bound: worker processes that exist at a time
  Mngrs,      \* bound: server managers that exist at a time
  None,       \* no endpoint, manager or process
  Events,     \* what may happen beside the RPCs on servers
  Regimes     \* bound: sets of threads, endpoints and servers, and whether RPCs may raise

ASSUME ServerAgentAssumption ==
  /\ IsFiniteSet(Threads) /\ IsFiniteSet(Endpoints)
  /\ Udp \subseteq Servers /\ Unknown \subseteq Servers
  /\ None \notin Endpoints \cup Procs \cup Mngrs
  /\ \A ss \in SUBSET Servers : ss # None
  /\ Events \subseteq {"register", "death", "restart"}
  /\ \A r \in Regimes : r.threads \subseteq Threads /\ r.endpoints \subseteq Endpoints
                     /\ r.servers \subseteq Servers

VARIABLES
  regime,     \* who serves, and what callers ask for; never changes
  rules,      \* rules[e]: the servers in the row of endpoint e, or None
  primary,    \* _primary_ep of the agent
  mngrs,      \* mngrs[e]: mngrs_map[(None, e)]
  reg,        \* reg[m][s]: the process the registry of manager m has for s
  proc,       \* proc[p]: a worker process
  th          \* th[t]: the RPC thread t serves, and its local variables

vars == <<regime, rules, primary, mngrs, reg, proc, th>>

\* May RPCs raise, and rules be deleted?
Faulty == regime.faulty

\* No two RPCs are served at a time.
Serial == Cardinality(regime.threads) = 1

\* A process that is not there: not used yet, or dead.
Dead == [st |-> "dead", ep |-> None, srv |-> None]

\* pc: what the thread does next; op: the RPC; ep, srv: its endpoint and server;
\* mine: the manager in use; todo: servers still to start; cur: the server being
\* started or stopped; new: the process just started; victims: (server, process)
\* pairs still to stop; left: endpoints whose manager is still to be visited,
\* and size: how many the map had when the iteration began.
IdleThread ==
  [pc |-> "idle", op |-> "none", ep |-> None, srv |-> None, mine |-> None, todo |-> {},
   cur |-> None, new |-> None, victims |-> {}, left |-> {}, size |-> 0]

At(t, l) == th[t].pc = l

\* is_alive(): terminate() does not wait, so a process it was sent to still counts.
Alive(p) == proc[p].st \in {"starting", "serving", "stopping"}

\* A process that nobody has asked to stop.
Running(p) == proc[p].st \in {"starting", "serving"}

\* The servers the database has for an endpoint.
Saved(e) == IF rules[e] = None THEN {} ELSE rules[e]

Mapped == {e \in Endpoints : mngrs[e] # None}

\* Managers and processes that nothing refers to any more can be used again.
FreeMngrs == Mngrs \ ({mngrs[e] : e \in Endpoints} \cup {th[t].mine : t \in Threads})

FreeProcs ==
  {p \in Procs :
     /\ ~ Alive(p)
     /\ \A m \in Mngrs, s \in Servers : reg[m][s] # p
     /\ \A t \in Threads : th[t].new # p /\ \A v \in th[t].victims : v[2] # p}

-----------------------------------------------------------------------------
Init ==
  /\ regime \in Regimes
  /\ rules = [e \in Endpoints |-> None]
  /\ primary = None
  /\ mngrs = [e \in Endpoints |-> None]
  /\ reg = [m \in Mngrs |-> [s \in Servers |-> None]]
  /\ proc = [p \in Procs |-> Dead]
  /\ th = [t \in Threads |-> IdleThread]

\* The RPC is over, with an answer or with an exception.
Finish(t) == th' = [th EXCEPT ![t] = IdleThread]

\* The RPC server is started after start_servers has returned.
Booting == \E t \in Threads : th[t].op = "boot"

Begin(t, call) ==
  /\ At(t, "idle") /\ ~ Booting
  /\ th' = [th EXCEPT ![t] = call]
  /\ UNCHANGED <<regime, rules, primary, mngrs, reg, proc>>

BeginStartServers(t) ==
  Begin(t, [IdleThread EXCEPT !.pc = "primary", !.op = "start"])

BeginAddServer(t, e, s) ==
  /\ s \in Unknown => Faulty
  /\ Begin(t, [IdleThread EXCEPT !.pc = "lookup", !.op = "add", !.ep = e, !.srv = s, !.todo = {s}])

\* Without an endpoint, stop_server takes the primary one.
BeginStopServer(t, e, s) ==
  Begin(t, [IdleThread EXCEPT !.pc = IF e = None THEN "primary" ELSE "find",
                              !.op = "stop", !.ep = e, !.srv = s])

BeginStopServers(t) ==
  Begin(t, [IdleThread EXCEPT !.pc = "visit", !.op = "stopall",
                              !.left = Mapped, !.size = Cardinality(Mapped)])

-----------------------------------------------------------------------------
(* Starting servers.                                                       *)

\* primary_endpoint: read from the database until there is one, then cached.
Primary(t) ==
  /\ At(t, "primary")
  /\ \/ /\ primary = None /\ \A e \in Endpoints : rules[e] = None
        /\ Finish(t)
        /\ UNCHANGED primary
     \/ \E e \in Endpoints :
          /\ IF primary = None THEN rules[e] # None ELSE e = primary
          /\ primary' = e
          /\ th' = [th EXCEPT ![t].ep = e,
                              ![t].pc = IF th[t].op = "stop" THEN "find" ELSE "lookup"]
  /\ UNCHANGED <<regime, rules, mngrs, reg, proc>>

\* mngrs_map.get(key, RootNsServerManager())
Lookup(t) ==
  /\ At(t, "lookup")
  /\ \E m \in Mngrs :
       /\ IF mngrs[th[t].ep] # None
          THEN m = mngrs[th[t].ep] /\ UNCHANGED reg
          ELSE m \in FreeMngrs /\ reg' = [reg EXCEPT ![m] = [s \in Servers |-> None]]
       /\ th' = [th EXCEPT ![t].mine = m,
                           ![t].pc = IF th[t].op = "add" THEN "check" ELSE "load"]
  /\ UNCHANGED <<regime, rules, primary, mngrs, proc>>

\* connected_state.get_servers(src)
Load(t) ==
  /\ At(t, "load")
  /\ th' = [th EXCEPT ![t].todo = Saved(th[t].ep),
                      ![t].pc = IF Saved(th[t].ep) = {} THEN "publish" ELSE "check"]
  /\ UNCHANGED <<regime, rules, primary, mngrs, reg, proc>>

\* Mutant: start_servers returns after the first server.
AfterFirst(t, rest) == IF th[t].op = "add" THEN "persist" ELSE "publish"

AfterStart(t, rest) ==
  IF rest # {} THEN "check" ELSE IF th[t].op = "add" THEN "persist" ELSE "publish"

\* Mutant: start_server does not look at the registry.
CheckNothing(t, s) ==
  /\ At(t, "check") /\ s \in th[t].todo
  /\ th' = [th EXCEPT ![t].todo = @ \ {s}, ![t].cur = s, ![t].pc = "spawn"]
  /\ UNCHANGED <<regime, rules, primary, mngrs, reg, proc>>

\* start_server up to its first return: is there a live process already?
Check(t, s) ==
  LET p    == reg[th[t].mine][s]
      rest == th[t].todo \ {s}
  IN /\ At(t, "check") /\ s \in th[t].todo
     /\ th' = IF p # None /\ Alive(p)
              THEN [th EXCEPT ![t].todo = rest, ![t].pc = AfterStart(t, rest)]
              ELSE [th EXCEPT ![t].todo = rest, ![t].cur = s, ![t].pc = "spawn"]
     /\ UNCHANGED <<regime, rules, primary, mngrs, reg, proc>>

\* An unknown protocol raises, and the exception ends the RPC.
Spawn(t) ==
  /\ At(t, "spawn")
  /\ \/ /\ th[t].cur \in Unknown
        /\ Finish(t)
        /\ UNCHANGED proc
     \/ /\ th[t].cur \notin Unknown
        /\ \E p \in FreeProcs :
             /\ proc' = [proc EXCEPT ![p] =
                           [st |-> "starting", ep |-> th[t].ep, srv |-> th[t].cur]]
             /\ th' = [th EXCEPT ![t].new = p, ![t].pc = "enroll"]
  /\ UNCHANGED <<regime, rules, primary, mngrs, reg>>

Enroll(t) ==
  /\ At(t, "enroll")
  /\ reg' = [reg EXCEPT ![th[t].mine][th[t].cur] = th[t].new]
  /\ th' = [th EXCEPT ![t].cur = None, ![t].new = None,
                      ![t].pc = AfterStart(t, th[t].todo)]
  /\ UNCHANGED <<regime, rules, primary, mngrs, proc>>

\* Mutant: only rows that exist are written.
PersistUpdateOnly(t) ==
  /\ At(t, "persist")
  /\ rules' = [rules EXCEPT ![th[t].ep] = IF @ = None THEN None ELSE @ \cup {th[t].srv}]
  /\ th' = [th EXCEPT ![t].pc = "publish"]
  /\ UNCHANGED <<regime, primary, mngrs, reg, proc>>

\* add_server saves the server after it has started it.
Persist(t) ==
  /\ At(t, "persist")
  /\ rules' = [rules EXCEPT ![th[t].ep] = Saved(th[t].ep) \cup {th[t].srv}]
  /\ th' = [th EXCEPT ![t].pc = "publish"]
  /\ UNCHANGED <<regime, primary, mngrs, reg, proc>>

\* Mutant: add_server does not put its manager into the map.
PublishStarted(t) ==
  /\ At(t, "publish")
  /\ mngrs' = IF th[t].op = "add" THEN mngrs ELSE [mngrs EXCEPT ![th[t].ep] = th[t].mine]
  /\ Finish(t)
  /\ UNCHANGED <<regime, rules, primary, reg, proc>>

\* Only now can stop_servers and stop_server find the manager.
Publish(t) ==
  /\ At(t, "publish")
  /\ mngrs' = [mngrs EXCEPT ![th[t].ep] = th[t].mine]
  /\ Finish(t)
  /\ UNCHANGED <<regime, rules, primary, reg, proc>>

-----------------------------------------------------------------------------
(* Stopping servers.                                                       *)

Entries(m) == {<<s, reg[m][s]>> : s \in {x \in Servers : reg[m][x] # None}}

\* Mutant: stop_servers is done after one manager.
VisitOne(t) ==
  /\ At(t, "visit")
  /\ \/ th[t].left = {} /\ Finish(t)
     \/ \E e \in th[t].left :
          th' = [th EXCEPT ![t].left = {}, ![t].mine = mngrs[e],
                           ![t].victims = Entries(mngrs[e]), ![t].pc = "kill"]
  /\ UNCHANGED <<regime, rules, primary, mngrs, reg, proc>>

\* The loop of stop_servers over mngrs_map.values(). The iterator raises when
\* the map has grown since it was made; otherwise the next manager hands out
\* the entries of its registry.
Visit(t) ==
  /\ At(t, "visit")
  /\ \/ /\ Cardinality(Mapped) # th[t].size \/ th[t].left = {}
        /\ Finish(t)
     \/ /\ Cardinality(Mapped) = th[t].size
        /\ \E e \in th[t].left :
             th' = [th EXCEPT ![t].left = @ \ {e}, ![t].mine = mngrs[e],
                              ![t].victims = Entries(mngrs[e]), ![t].pc = "kill"]
  /\ UNCHANGED <<regime, rules, primary, mngrs, reg, proc>>

\* stop_server: the manager of the endpoint, and its entry for the server.
Find(t) ==
  LET m == mngrs[th[t].ep]
  IN /\ At(t, "find")
     /\ IF m # None /\ reg[m][th[t].srv] # None
        THEN th' = [th EXCEPT ![t].mine = m, ![t].pc = "kill",
                              ![t].victims = {<<th[t].srv, reg[m][th[t].srv]>>}]
        ELSE Finish(t)
     /\ UNCHANGED <<regime, rules, primary, mngrs, reg, proc>>

\* is_running() and stop(): SIGTERM is sent to a process that still lives.
Kill(t) ==
  /\ At(t, "kill")
  /\ \/ /\ th[t].victims = {}
        /\ IF th[t].op = "stopall" THEN th' = [th EXCEPT ![t].pc = "visit"] ELSE Finish(t)
        /\ UNCHANGED proc
     \/ \E v \in th[t].victims :
          /\ proc' = IF Alive(v[2]) THEN [proc EXCEPT ![v[2]].st = "stopping"] ELSE proc
          /\ th' = [th EXCEPT ![t].victims = @ \ {v}, ![t].cur = v[1], ![t].pc = "remove"]
  /\ UNCHANGED <<regime, rules, primary, mngrs, reg>>

\* remove_server: by key, whatever process is under it by now.
Remove(t) ==
  /\ At(t, "remove")
  /\ reg' = [reg EXCEPT ![th[t].mine][th[t].cur] = None]
  /\ th' = [th EXCEPT ![t].cur = None, ![t].pc = "kill"]
  /\ UNCHANGED <<regime, rules, primary, mngrs, proc>>

-----------------------------------------------------------------------------
(* What happens around the RPCs on servers.                                *)

\* The server class binds its socket, or raises and the process exits.
Bind(p) ==
  /\ proc[p].st = "starting"
  /\ LET taken == \E q \in Procs \ {p} :
                    /\ proc[q].st \in {"serving", "stopping"}
                    /\ proc[q].ep = proc[p].ep /\ proc[q].srv = proc[p].srv
     IN proc' = IF taken /\ proc[p].srv \notin Udp
                THEN [proc EXCEPT ![p] = Dead]
                ELSE [proc EXCEPT ![p].st = "serving"]
  /\ UNCHANGED <<regime, rules, primary, mngrs, reg, th>>

\* SIGTERM takes effect.
Die(p) ==
  /\ proc[p].st = "stopping"
  /\ proc' = [proc EXCEPT ![p] = Dead]
  /\ UNCHANGED <<regime, rules, primary, mngrs, reg, th>>

\* A worker dies of itself; nobody watches it.
WorkerDies(p) ==
  /\ "death" \in Events /\ Running(p)
  /\ proc' = [proc EXCEPT ![p] = Dead]
  /\ UNCHANGED <<regime, rules, primary, mngrs, reg, th>>

\* register_traffic and delete_traffic_rules only change the database.
RegisterRule(t, e, s) ==
  /\ "register" \in Events /\ At(t, "idle") /\ ~ Booting
  /\ s \in Unknown => Faulty
  /\ rules' = [rules EXCEPT ![e] = Saved(e) \cup {s}]
  /\ UNCHANGED <<regime, primary, mngrs, reg, proc, th>>

DeleteRules(t, e) ==
  /\ Faulty /\ At(t, "idle") /\ ~ Booting
  /\ rules' = [rules EXCEPT ![e] = None]
  /\ UNCHANGED <<regime, primary, mngrs, reg, proc, th>>

\* A database operation raises, and the exception ends the RPC.
DbError(t) ==
  /\ Faulty /\ th[t].pc \in {"primary", "load", "persist"}
  /\ Finish(t)
  /\ UNCHANGED <<regime, rules, primary, mngrs, reg, proc>>

\* The Axon process stops, its workers with it, and is started again;
\* the first thing it does is start_servers, before it serves RPCs.
Restart(t) ==
  /\ "restart" \in Events
  /\ primary' = None
  /\ mngrs' = [e \in Endpoints |-> None]
  /\ reg' = [m \in Mngrs |-> [s \in Servers |-> None]]
  /\ proc' = [p \in Procs |-> Dead]
  /\ th' = [u \in Threads |->
              IF u = t THEN [IdleThread EXCEPT !.pc = "primary", !.op = "boot"]
              ELSE IdleThread]
  /\ UNCHANGED <<regime, rules>>

Step(t) ==
  \/ Primary(t) \/ Lookup(t) \/ Load(t) \/ Spawn(t) \/ Enroll(t) \/ Persist(t) \/ Publish(t)
  \/ \E s \in Servers : Check(t, s)
  \/ Visit(t) \/ Find(t) \/ Kill(t) \/ Remove(t) \/ DbError(t)

Request(t) ==
  \/ BeginStartServers(t)
  \/ BeginStopServers(t)
  \/ \E s \in regime.servers :
       \/ \E e \in regime.endpoints : BeginAddServer(t, e, s) \/ RegisterRule(t, e, s)
       \/ \E e \in regime.endpoints \cup {None} : BeginStopServer(t, e, s)
  \/ \E e \in regime.endpoints : DeleteRules(t, e)

Next ==
  \/ \E t \in regime.threads : Request(t) \/ Step(t) \/ Restart(t)
  \/ \E p \in Procs : Bind(p) \/ Die(p) \/ WorkerDies(p)

Spec == Init /\ [][Next]_vars

\* Threads that serve an RPC run on, and processes get to bind and to die.
FairSpec ==
  /\ Spec
  /\ \A t \in Threads : WF_vars(Step(t))
  /\ \A p \in Procs : WF_vars(Bind(p)) /\ WF_vars(Die(p))

-----------------------------------------------------------------------------
Thread ==
  [pc : {"idle", "primary", "lookup", "load", "check", "spawn", "enroll", "persist", "publish",
         "visit", "find", "kill", "remove"},
   op : {"none", "boot", "start", "add", "stop", "stopall"},
   ep : Endpoints \cup {None}, srv : Servers \cup {None}, mine : Mngrs \cup {None},
   todo : SUBSET Servers, cur : Servers \cup {None}, new : Procs \cup {None},
   victims : SUBSET (Servers \X Procs), left : SUBSET Endpoints, size : Nat]

Process ==
  [st : {"starting", "serving", "stopping", "dead"},
   ep : Endpoints \cup {None}, srv : Servers \cup {None}]

TypeOK ==
  /\ regime \in Regimes
  /\ rules \in [Endpoints -> (SUBSET Servers) \cup {None}]
  /\ primary \in Endpoints \cup {None}
  /\ mngrs \in [Endpoints -> Mngrs \cup {None}]
  /\ reg \in [Mngrs -> [Servers -> Procs \cup {None}]]
  /\ proc \in [Procs -> Process]
  /\ th \in [Threads -> Thread]

Quiet == \A t \in Threads : At(t, "idle")

\* stop_servers and stop_server can reach the process.
Reachable(p) ==
  /\ mngrs[proc[p].ep] # None
  /\ reg[mngrs[proc[p].ep]][proc[p].srv] = p

(* The registry holds all of the servers that run (its docstring): each is *)
(* in the registry of a manager the agent knows, so that it can be listed  *)
(* and stopped. What an RPC that raised started may stray.                 *)
RegistryHoldsAll ==
  (Quiet /\ ~ Faulty) => \A p \in Procs : Running(p) => Reachable(p)

(* With one RPC at a time it does, across starts, stops, deaths, restarts. *)
NoStray == Serial => RegistryHoldsAll

(* No two processes run for one server: start_server does not start what   *)
(* already runs, across start_servers, add_server and the stops, one at a  *)
(* time. What has strayed is not known to run.                             *)
OneWorker ==
  (Serial /\ ~ Faulty) => \A p, q \in Procs :
    (Running(p) /\ Running(q) /\ proc[p].ep = proc[q].ep /\ proc[p].srv = proc[q].srv) => p = q

(* When stop_servers returns, and nothing else was served meanwhile,       *)
(* nothing runs that has not been told to stop, but for what has strayed.  *)
StopsAll ==
  [][ \A t \in Threads :
        (At(t, "visit") /\ th[t].left = {} /\ th'[t].pc = "idle" /\ Serial /\ ~ Faulty)
          => \A p \in Procs : ~ Running(p) ]_vars

(* With one RPC at a time, what runs is in the database, and so comes back *)
(* after a restart, unless an RPC has raised or the rule has been deleted. *)
RunningSaved ==
  (Serial /\ Quiet /\ ~ Faulty) => \A p \in Procs :
    Running(p) => proc[p].srv \in Saved(proc[p].ep)

(* start_servers, at the start of the process and as an RPC, leaves no     *)
(* server of the endpoint it starts unstarted: when it returns, and no     *)
(* other RPC was served meanwhile, each one the database has is in the     *)
(* registry the agent knows.                                               *)
StartsAllSaved ==
  [][ \A t \in Threads :
        (At(t, "publish") /\ th[t].op # "add" /\ th'[t].pc = "idle" /\ Serial)
          => \A s \in Saved(th[t].ep) : reg'[mngrs'[th[t].ep]][s] # None ]_vars

(* The node watches the database, and starts a server it finds there: here *)
(* on a node that has started none yet, and unless the rule is deleted.    *)
RegisteredStarts ==
  \A e \in Endpoints, s \in Servers :
    (s \in Saved(e) /\ Mapped = {}) ~>
      (s \notin Saved(e) \/ \E p \in Procs : proc[p].ep = e /\ proc[p].srv = s)
=============================================================================
