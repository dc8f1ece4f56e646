------------------------------- MODULE NodeParts -------------------------------
(***************************************************************************)
(* Parts of a node that share no state with one another: the client agent, *)
(* the resource monitor, the configuration store, and the service that     *)
(* starts, stops and calls them, which knows of each part whether it runs. *)
(* A behaviour is one of one of them, under the conditions its name says,  *)
(* while the others rest, so that what holds here holds of each.           *)
(***************************************************************************)
EXTENDS Naturals, FiniteSets

CONSTANTS
  Threads, Procs, Mngrs,   \* of the client agent
  Callers, Monitors,       \* of the resource monitor
  Params, Kinds, Default,  \* of the configuration store: parameters, values, those of the file
  Absent,
  Conns, Tries, Pool, Uses, \* of the service
  None

VARIABLES
  part,                                   \* whose behaviour this is; never changes
  saved, mngr, reg, proc, th,             \* the client agent
  switch, thread, monitor, caller,        \* the resource monitor
  cache, db, call, may,                   \* the configuration store
  main, stopper, closed, runs, spared, conn \* the service

\* The client agent, one RPC at a time, with and without failures.
Clients == INSTANCE ClientAgent WITH Events <- {"rules", "death", "forkfails", "restart"}
Sending == INSTANCE ClientAgent WITH Events <- {"rules", "death"}

\* The resource monitor, with callers that wait for one another and that do not.
Serial == INSTANCE ResourceMonitor WITH MayDie <- TRUE, OneCall <- TRUE
Racing == INSTANCE ResourceMonitor WITH MayDie <- TRUE, OneCall <- FALSE

Config == INSTANCE ConfigStore WITH
  Values <- Kinds,
  Events <- {"dberror", "restart", "cacheonly"}, th <- call

Service == INSTANCE NodeService WITH Calls <- Uses, Events <- {"fail", "network", "slow", "kill"}

ASSUME PartsAssumption ==
  /\ Clients!ClientAgentAssumption /\ Sending!ClientAgentAssumption
  /\ Serial!MonitorAssumption /\ Racing!MonitorAssumption
  /\ Config!ConfigAssumption /\ Service!ServiceAssumption

clients == <<saved, mngr, reg, proc, th>>
monitoring == <<switch, thread, monitor, caller>>
config == <<cache, db, call, may>>
service == <<main, stopper, closed, runs, spared, conn>>
vars == <<part, clients, monitoring, config, service>>

-----------------------------------------------------------------------------
Init ==
  /\ part \in {"clients", "sending", "serial", "racing", "config", "service"}
  /\ Clients!Init /\ Serial!Init /\ Config!Init /\ Service!Init

ClientsStep ==
  /\ \/ part = "clients" /\ Clients!Next
     \/ part = "sending" /\ Sending!Next
  /\ UNCHANGED <<part, monitoring, config, service>>

MonitorStep ==
  /\ \/ part = "serial" /\ Serial!Next
     \/ part = "racing" /\ Racing!Next
  /\ UNCHANGED <<part, clients, config, service>>

ConfigStep ==
  /\ part = "config" /\ Config!Next
  /\ UNCHANGED <<part, clients, monitoring, service>>

ServiceStep ==
  /\ part = "service" /\ Service!Next
  /\ UNCHANGED <<part, clients, monitoring, config>>

Next == ClientsStep \/ MonitorStep \/ ConfigStep \/ ServiceStep

\* Each part under the fairness of its own module.
Spec ==
  /\ Init /\ [][Next]_vars
  /\ Clients!Fairness /\ Serial!Fairness /\ Service!Fairness

-----------------------------------------------------------------------------
(* The node sends each rule's traffic once: while one client process runs, *)
(* start_clients starts no other, across stops, deaths, failing forks and  *)
(* restarts.                                                               *)
OneClient == Clients!OneClient

(* start_clients of a node with client rules ends with a process that      *)
(* sends, also when the last one died and is still in the registry.        *)
StartsClients == part = "sending" => Sending!StartsClients

(* stop of the resource monitor returns when nobody starts it again.       *)
StopReturns == part = "serial" => Serial!StopReturns

(* A thread that racing calls of start lost track of ends too once the     *)
(* monitor is told to stop, unless somebody starts it again.               *)
SwitchOffEnds == Racing!SwitchOffEnds

(* What set_param has acknowledged comes back after a restart, with its    *)
(* value and its type, unless a later call, failed or not, has written     *)
(* another; but for True, which comes back as False.                       *)
AckedSurvives == Config!AckedSurvives

(* stop() of the service ends the process, whatever is being started or    *)
(* served: no part is left that keeps it alive, but one that raised in its *)
(* stop, was skipped for that, or was started again since.                 *)
StopExits == Service!StopExits

(* A client that begins to connect ends, with an answer or an exception,   *)
(* however its node starts, stops, dies or is slow.                        *)
CallEnds == Service!CallEnds
=============================================================================
