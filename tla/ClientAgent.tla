------------------------------- MODULE ClientAgent -------------------------------
(***************************************************************************)
(* How one Axon node starts and stops the process of its traffic clients,  *)
(* outside namespace mode: TrafficApp, AxonRootNamespaceClientAgent and    *)
(* RootNsClientManager with its ClientRegistry. There is one process for   *)
(* the rules of the primary endpoint, so the map of managers has one key.  *)
(* As in ServerAgent, an action touches one of the shared structures once. *)
(***************************************************************************)
EXTENDS Naturals, FiniteSets

CONSTANTS
  Threads,  \* threads that serve RPC requests
  Procs,    \* bound: client processes that exist at a time
  Mngrs,    \* bound: client managers that exist at a time
  None,     \* no manager, no process
  Events    \* what may happen beside the RPCs on clients

ClientAgentAssumption ==
  /\ None \notin Procs \cup Mngrs
  /\ Events \subseteq {"rules", "death", "forkfails", "restart"}

VARIABLES
  saved,    \* has the row of the primary endpoint client rules?
  mngr,     \* mngrs_map[('localhost', primary)]
  reg,      \* reg[m]: the process in the registry of manager m
  proc,     \* proc[p]: a client process, "running", "stopping" (told to end) or "dead"
  th        \* th[t]: the RPC thread t serves, and its local variables

vars == <<saved, mngr, reg, proc, th>>

IdleThread == [pc |-> "idle", op |-> "none", mine |-> None, held |-> None]

At(t, l) == th[t].pc = l

Alive(p) == proc[p] # "dead"

Running(p) == proc[p] = "running"

FreeMngrs == Mngrs \ ({mngr} \cup {th[t].mine : t \in Threads})

FreeProcs ==
  {p \in Procs : /\ ~ Alive(p)
                 /\ \A m \in Mngrs : reg[m] # p
                 /\ \A t \in Threads : th[t].held # p}

Init ==
  /\ saved = FALSE
  /\ mngr = None
  /\ reg = [m \in Mngrs |-> None]
  /\ proc = [p \in Procs |-> "dead"]
  /\ th = [t \in Threads |-> IdleThread]

Finish(t) == th' = [th EXCEPT ![t] = IdleThread]

Booting == \E t \in Threads : th[t].op = "boot"

Begin(t, op, l) ==
  /\ At(t, "idle") /\ ~ Booting
  /\ th' = [th EXCEPT ![t].pc = l, ![t].op = op]
  /\ UNCHANGED <<saved, mngr, reg, proc>>

BeginStartClients(t) == Begin(t, "start", "load")
BeginStopClients(t) == Begin(t, "stopall", "visit")
BeginStopClient(t) == Begin(t, "stop", "match")

-----------------------------------------------------------------------------
(* start_clients                                                           *)

\* primary_endpoint and get_clients: without rules there is nothing to start.
Load(t) ==
  /\ At(t, "load")
  /\ IF saved THEN th' = [th EXCEPT ![t].pc = "lookup"] ELSE Finish(t)
  /\ UNCHANGED <<saved, mngr, reg, proc>>

\* mngrs_map.get(key, RootNsClientManager())
Lookup(t) ==
  /\ At(t, "lookup")
  /\ \E m \in Mngrs :
       /\ IF mngr # None THEN m = mngr /\ UNCHANGED reg
          ELSE m \in FreeMngrs /\ reg' = [reg EXCEPT ![m] = None]
       /\ th' = [th EXCEPT ![t].mine = m, ![t].pc = "check"]
  /\ UNCHANGED <<saved, mngr, proc>>

\* Mutant: start_client does not look at the registry.
CheckNothing(t) ==
  /\ At(t, "check")
  /\ th' = [th EXCEPT ![t].pc = "spawn"]
  /\ UNCHANGED <<saved, mngr, reg, proc>>

\* Mutant: a process in the registry is taken to be alive.
CheckRegistered(t) ==
  /\ At(t, "check")
  /\ th' = [th EXCEPT ![t].pc = IF reg[th[t].mine] # None THEN "publish" ELSE "spawn"]
  /\ UNCHANGED <<saved, mngr, reg, proc>>

\* A process that lives is left alone, also when the rules have changed since.
Check(t) ==
  LET p == reg[th[t].mine]
  IN /\ At(t, "check")
     /\ th' = [th EXCEPT ![t].pc = IF p # None /\ Alive(p) THEN "publish" ELSE "spawn"]
     /\ UNCHANGED <<saved, mngr, reg, proc>>

Spawn(t) ==
  /\ At(t, "spawn")
  /\ \/ /\ "forkfails" \in Events
        /\ Finish(t)
        /\ UNCHANGED proc
     \/ \E p \in FreeProcs :
          /\ proc' = [proc EXCEPT ![p] = "running"]
          /\ th' = [th EXCEPT ![t].held = p, ![t].pc = "enroll"]
  /\ UNCHANGED <<saved, mngr, reg>>

Enroll(t) ==
  /\ At(t, "enroll")
  /\ reg' = [reg EXCEPT ![th[t].mine] = th[t].held]
  /\ th' = [th EXCEPT ![t].held = None, ![t].pc = "publish"]
  /\ UNCHANGED <<saved, mngr, proc>>

\* Only now do stop_clients and the next start_clients know the manager.
Publish(t) ==
  /\ At(t, "publish")
  /\ mngr' = th[t].mine
  /\ Finish(t)
  /\ UNCHANGED <<saved, reg, proc>>

-----------------------------------------------------------------------------
(* stop_clients and stop_client                                            *)

Visit(t) ==
  /\ At(t, "visit")
  /\ IF mngr = None \/ reg[mngr] = None THEN Finish(t)
     ELSE th' = [th EXCEPT ![t].mine = mngr, ![t].held = reg[mngr], ![t].pc = "kill"]
  /\ UNCHANGED <<saved, mngr, reg, proc>>

\* SIGTERM; nobody waits for the process to end.
Kill(t) ==
  /\ At(t, "kill")
  /\ proc' = IF Running(th[t].held) THEN [proc EXCEPT ![th[t].held] = "stopping"] ELSE proc
  /\ th' = [th EXCEPT ![t].held = None, ![t].pc = "remove"]
  /\ UNCHANGED <<saved, mngr, reg>>

Remove(t) ==
  /\ At(t, "remove")
  /\ reg' = [reg EXCEPT ![th[t].mine] = None]
  /\ Finish(t)
  /\ UNCHANGED <<saved, mngr, proc>>

\* The RPC passes the namespace None on, the keys of the map have 'localhost':
\* no manager matches, and nothing is stopped.
Match(t) ==
  /\ At(t, "match")
  /\ Finish(t)
  /\ UNCHANGED <<saved, mngr, reg, proc>>

-----------------------------------------------------------------------------
(* What happens around the RPCs on clients.                                *)

Die(p) ==
  /\ proc[p] = "stopping"
  /\ proc' = [proc EXCEPT ![p] = "dead"]
  /\ UNCHANGED <<saved, mngr, reg, th>>

\* The process ends by itself: a rule with an unknown protocol raises.
ClientDies(p) ==
  /\ "death" \in Events /\ Running(p)
  /\ proc' = [proc EXCEPT ![p] = "dead"]
  /\ UNCHANGED <<saved, mngr, reg, th>>

\* register, unregister and delete RPCs change the rules and nothing else.
ChangeRules(t) ==
  /\ "rules" \in Events /\ At(t, "idle") /\ ~ Booting
  /\ saved' \in BOOLEAN
  /\ UNCHANGED <<mngr, reg, proc, th>>

\* The Axon process and its children end; start_clients runs before the RPCs.
Restart(t) ==
  /\ "restart" \in Events
  /\ mngr' = None
  /\ reg' = [m \in Mngrs |-> None]
  /\ proc' = [p \in Procs |-> "dead"]
  /\ th' = [u \in Threads |-> IF u = t THEN [IdleThread EXCEPT !.pc = "load", !.op = "boot"]
                              ELSE IdleThread]
  /\ UNCHANGED saved

Step(t) ==
  \/ Load(t) \/ Lookup(t) \/ Check(t) \/ Spawn(t) \/ Enroll(t) \/ Publish(t)
  \/ Visit(t) \/ Kill(t) \/ Remove(t) \/ Match(t)

Next ==
  \/ \E t \in Threads :
       \/ BeginStartClients(t) \/ BeginStopClients(t) \/ BeginStopClient(t)
       \/ Step(t) \/ ChangeRules(t) \/ Restart(t)
  \/ \E p \in Procs : Die(p) \/ ClientDies(p)

Spec == Init /\ [][Next]_vars

\* Threads that serve an RPC run on, and SIGTERM takes effect.
Fairness ==
  /\ \A t \in Threads : WF_vars(Step(t))
  /\ \A p \in Procs : WF_vars(Die(p))

FairSpec == Spec /\ Fairness

-----------------------------------------------------------------------------
TypeOK ==
  /\ saved \in BOOLEAN
  /\ mngr \in Mngrs \cup {None}
  /\ reg \in [Mngrs -> Procs \cup {None}]
  /\ proc \in [Procs -> {"running", "stopping", "dead"}]
  /\ th \in [Threads ->
       [pc : {"idle", "load", "lookup", "check", "spawn", "enroll", "publish", "visit", "kill",
              "remove", "match"},
        op : {"none", "boot", "start", "stop", "stopall"},
        mine : Mngrs \cup {None}, held : Procs \cup {None}]]

(* The node sends each rule's traffic once: while one client process runs, *)
(* start_clients starts no other, across stops, deaths and restarts.       *)
OneClient == \A p, q \in Procs : Running(p) /\ Running(q) => p = q

(* start_clients of a node with client rules ends with a process that      *)
(* sends, also when the last one died and is still in the registry.        *)
StartsClients ==
  \A t \in Threads : (At(t, "load") /\ saved) ~> (\E p \in Procs : Running(p))

(* When stop_client returns, the clients of the primary endpoint do not    *)
(* run any more.                                                           *)
StopsClient ==
  [][ \A t \in Threads :
        (At(t, "match") /\ th'[t].pc = "idle") => \A p \in Procs : ~ Running(p) ]_vars
=============================================================================
