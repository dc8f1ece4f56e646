# Axon, verified

TLA+ models of the Axon traffic and validation engine (`src/AXON/axon`), the TLC
configurations that check them, and proofs: of all safety invariants that the passing runs check,
of every action property, and of a refinement. Paths
below are relative to `src/AXON/axon` unless they begin with `src/`.

Axon runs on every node of a test bed. A *controller* in a test script tells the
nodes over RPC which traffic servers and clients they have; each node keeps these
rules in a local SQLite database, starts processes for them, and the client
processes send pings to the servers of other nodes, whose outcome is counted and
stored. Apps beside the traffic (iperf, tcpdump, monitoring, configuration) are
served by the same RPC server.

```
 test script                     a node
+------------------------+      +-----------------------------------------------------------+
| TrafficController      | RPC  | RPC service: a pool of threads                            |
|  records of rules      |----->|  register/unregister/delete ---> rule store (ConnectedState)
|  phases, on all nodes  |      |  servers, clients ------------> agents -> managers         |
|  by ParallelWork       |      |  params, iperf, tcpdump, monitor          | fork, SIGTERM  |
+------------------------+      |                                           v               |
                                |       worker processes: servers, TrafficClient            |
                                |                                           | record queue  |
                                |       DBPoolManager threads <-------------+  (shared)     |
                                |         recorders -> counting thread -> stores            |
                                +-----------------------------------------------------------+
```

## 1. Inventory

For each component: its state, its operations, what it talks to, what is hard about
it, and what makes it correct. `PROJECT.json` has the same list under "components",
and under "hazards" each hard place at its line with the properties about it.

| Component (source) | State | Operations | Hard | Correct when |
|---|---|---|---|---|
| Traffic rule store (`traffic/connected_state.py`, `db/sql/repository.py`, `apps/traffic.py`) | table of rows: endpoint, servers, clients | register, unregister, delete, update; each a loop of transactions | the row is read in one transaction and written in the next, by 50 pool threads | answered registrations stay; deleted ones do not come back |
| Server agent, root namespace (`traffic/agents.py`, `manager.py`, `workers.py`, `servers/`) | map of managers, a registry in each, worker processes | start at boot, start_servers, add_server, stop_server, stop_servers | unlocked map; start before save; processes that die | what runs can be reached and is saved; stop stops |
| Client agent, root namespace (`traffic/agents.py`, `manager.py`) | manager, registry, one client process | start_clients, stop_clients, stop_client, boot | as above | one process at most, none after a stop |
| Client process (`traffic/clients/clients.py`) | cycle through the rules, ping threads, its end of the record queue | rounds of pings, a record for each | the queue is full; the process is killed with locks in hand; an HTTP request has no timeout; a rule has no client | every destination has its turn; verdicts are right; records arrive |
| Record pipeline (`db/db_pool_manager.py`, `recorder.py`, `record_count.py`) | record queue, counting queues, counts, tables | take, count, store, write counts every interval | several bounded queues in a row, recorders that raise, a database that fails halfway | every record is counted once; nobody waits for ever |
| Agents in namespace mode (`traffic/agents.py`, `utils/network_utils.py`) | list and interface map of namespaces, a manager for each | as the agents, in each namespace; rediscover | namespaces come and go, also during a rediscovery; a call raises before it has kept its manager | what was asked for happened in every namespace |
| Traffic controllers (`client/basic_traffic_controller.py`, `datacenter_traffic_controller.py`) | a TrafficRecord for each endpoint | register, unregister, start, stop, restart, clear | nodes that refuse, or do what is asked and do not answer | no client without its server; a push that succeeds is complete |
| Parallel work (`client/utils.py`) | work queue, sentinels, result queues, a lock | run, get, work_done, stop | several threads stop; jobs raise; aborts | every job has one result; get returns |
| Resource monitor (`apps/monitor.py`) | a switch and a thread | start, stop, is_running | a thread that ends just before it is joined | one thread; stop stops, start starts |
| Config store (`common/config.py`, `apps/config.py`) | cache, table | set_param, get_param, load, save | conversion there and back; cache before row | acknowledged values survive |
| Iperf app (`apps/iperf.py`, `console.py`) | handles by port and by job, job counter | start/stop server, start/stop client, query job, stop | subprocesses that bind late, pipes that fill | stop stops what start started |
| TCPDump app (`apps/tcpdump.py`) | handles by file | start_pcap, stop_pcap, is_running, stop | tcpdump takes long to exit | one capture to a file; none is cut short |
| RPC service, its controller, and the Windows service (`controller/`) | the listener, a pool of threads, the started parts | start, stop, kill | stop and start run on two threads while the pool serves; a part raises | a stop ends the process |
| RPC client (`client/axon_client.py`) | a connection | connect with retries, call | refusals, resets, time limits, a node that boots or goes down | every call ends |
| Statistics (`apps/stats.py`, `db/sql/repository.py`) | none | queries | what they read is written by several threads in several transactions | answers come to what was counted |
| Entering a namespace (`utils/nsenter.py`) | the namespace each thread is in | enter, leave | the way back is the main thread's; names come and go | a process runs where it was asked to |
| Namespace and interface apps (`apps/namespace.py`, `apps/interface.py`, `utils/network_utils.py`) | two maps of namespaces | discover, list | a discovery fails halfway | what is kept was read where it says |
| Installer (`client/axon_installer.py`) | the package, the service and its unit on a host | install, start, stop, restart, register | commands fail with effect; a failed stop is concealed; a stop is pending | what runs is what was installed |
| Scapy, metric clients, scripts | none of their own | commands, wrappers | I/O | not modelled |

How the components meet: the controllers call nodes over RPC (messages that may be
refused, or take effect and lose their answer); RPC threads share the rule table
(through transactions) and the maps of the agents (through nothing); agents own
processes they fork and signal; client processes and pool threads share the record
queue, whose locks live in shared memory; the pool threads and the counting thread of
a recorder share a queue in the process and the database.

## 2. Plan

Order of the modules, the most important behaviour first. Those of this version
are marked `*`.

1. `*` Rule store: abstract atomic store, concrete transactions, refinement, proofs.
2. `*` Server agent; `*` client agent; `*` client process and record queue; `*` record pipeline.
3. `*` Parallel work; `*` traffic controllers; `*` resource monitor.
4. `*` Config store; `*` iperf; `*` tcpdump; `*` agents in namespace mode.
5. `*` The service: its start and stop, the RPC client, the pool; `*` statistics, as operators
   of the record pipeline; `*` entering a namespace; `*` the installation.
6. Composition: a registry of promises for the agents (an abstract "set of
   running servers" that ServerAgent implements when one RPC runs at a time).
7. Proofs: `*` ParallelWork (`StopMeansDone` from the count of unfinished tasks), `*` ClientRecords
   (`SlotsMatch`, `VerdictRight`), `*` RecordPipeline (every invariant of its run), `*` ServerAgent (every property
   of its run, with one RPC at a time), `*` the parts of NodeParts that keep something (`OneClient`,
   `AckedSurvives`), `*` all of HostParts and `*` TrafficController (every property of its run).
8. `*` TrafficController with operations for some of the nodes; the map file of `WorkloadVifsMap`.

## 3. Modules

Conventions. One module is one component; `MC<module>` only gives values to constants
and symmetry sets. `Events` in a module is the set of things that may go wrong
(`"death"`, `"dberror"`, `"restart"`, ...), so that a configuration says by name
what it lets happen. Where one run looks at several conditions, a variable that no action
changes says which of them the behaviour is under (`regime` in ServerAgent, `setting` in
NamespaceAgents, `stops` in ClientRecords, `recorders` in RecordPipeline, `strict`, `faulty` and
`whole` in TrafficController): the initial states are those of all conditions, and a property
that needs one of them names it. An RPC is a thread `t` with a program counter `th[t].pc`; a
step is the code between two points at which another thread can matter: an access to
shared state, a transaction, a fork, a signal, a lock. What the code does with
locals between such points belongs to the step before. A restart empties all that is
not in the database. Operators whose comment begins with "Mutant" are what a bug in
the next definition would look like; `PROJECT.json` pairs each with the property that
notices it. They take no part in any specification.

### Rule store: `TrafficRules`, `RuleStore`, `ConnectedState`, `ConnectedStateProofs`

`TrafficRules` has rows, configurations and the pure operators on them: `AddServers`,
`DelServers`, `AddClients`, `DelClients` (the functions of that name), `Added`, `Removed`,
`NewRow`, and `Effect`, what one configuration of a request does to the table.
`RuleStore` is what callers are promised: a request applies its configurations one
after the other, each in one step (`Apply`), and may stop halfway (`End`).
`ConnectedState` is the code: `GetRow` is `get_connected_state`, `Create` and `Update` the
second transaction of `create_or_update_connected_state`, `Delete` its counterpart for
`delete_connected_state`, `Fail` a transaction that raises, `Reply` the answer, and
`Restart` a restart of the node. `snap[t]` is the row as the thread has read it.

Constant `OneWriterPerEndpoint` says whether callers keep apart: if it is TRUE, a
request is only made while no other names an endpoint of its own (`CallersAllow`).
The controllers do so: a controller has one operation in progress and sends a node
one request in each phase; two controllers, or a script with threads, need not.

### `ServerAgent`, `ServerAgentProofs`

`rules` is the servers column of the table, `mngrs` the agent's `mngrs_map`, `reg[m]` the
`ServerRegistry` of a manager, `proc` the worker processes. `BeginStartServers`,
`BeginAddServer`, `BeginStopServer`, `BeginStopServers` are the RPCs; their steps: `Primary` (the
endpoint, when none is given), `Lookup` (the map, or a new manager), `Load` (rules from the
database), `Check` and `Spawn` (`start_server`: is the registered process alive? fork),
`Enroll` (into the registry), `Persist` (save the rule), `Publish` (manager into the map),
`Visit` (iterate over the map, which raises when it has grown), `Find`, `Kill`, `Remove`. A
worker binds its port after the fork (`Bind`), or exits if another has it. SIGTERM makes it
"stopping", `Die` ends it. `Regimes` are the combinations of threads, endpoints, servers and
faults that a configuration looks at.

### `ClientAgent` (proofs in `NodePartsProofs`)

The same shape for the one client process of a node; the registry of a manager is one
slot. `stop_client` looks its manager up under a name that the map never has (`Match`).

### `ClientRecords`, `ClientRecordsProofs`

A client process from start to SIGTERM: `Round` takes `Rate` destinations from the
cycle, `Ping` and `PingHttp` end each in success or not, `Record` makes the verdict (`Verdict`) and
takes a slot of the bounded queue, `RoundEnds` joins. `protocol[d]` is what the protocol of a rule comes
to: a socket with a timeout, `urlopen` without one, so that `PingHttp` may never happen, or no client at
all. Then the round raises (`RoundRaises`) after the pings it has started, the process waits for its feeder
and ends (`Exit`), and what those pings put afterwards is lost with its slots. The multiprocessing queue is modelled as
Python implements it, as far as `traffic/workers.py` and `db` use it (external in the
map): a slot is taken by put, the record waits in the buffer of the process, a feeder
thread takes the write lock, writes into the pipe, and releases (`FeedLock`, `FeedWrite`,
`FeedRelease`); a reader gives the slot back (`Take`). `Stop` is SIGTERM at any of these
points: buffer and lock go down with the process (`Gone`).

### `RecordPipeline`, `RecordPipelineProofs`

`Produce`, then pool threads: `Take`, and for each recorder in order `Put` (on its counting
queue) and `Store` (in the database), `Skip` or `Raise`; then the counting thread of each
recorder: `Count`, `Elapse` for the end of the interval, `FlushCounts` and `FlushLatency` in
transactions of their own, each of which may fail (`FlushFails`). The wavefront recorder
may raise, the elastic one loses what it cannot send, the SQL one writes to the database.
History variables (`handled`, `finished`, `produced`) say what has been done with each record.
The queries of `apps/stats.py` are operators over what the databases have: `GetRequestCount` sums the
columns that the counting threads fill, `GetRecordCount` counts the rows of traffic records and of
faults, `LatencySamples` is the divisor of the average. They are asked at any moment: the
properties hold in every state, with what is still in memory (`InMemory`) or queued (`Queued`).

### `ParallelWork` (proofs in `RunnerProofs`)

`queue` and `unfinished` are `work_queue` with its count of unfinished tasks, `worker[w]` the
steps of `_worker`, `caller[c]` those of `get`, `stop` and `work_done`, which hold `lock`. The
owner starts the workers, collects results and stops; the `Others` call `work_done` or `stop` at
any time, each once. Its specification is `WorkSpec` (`WorkInit`, `WorkNext`), so that `RunnerProofs`
can extend it and `TrafficController`.

### `ResourceMonitor`

`switch` is the event, `thread` the attribute, `monitor[m]` each monitoring thread, `caller[c]`
the steps of `start` (set the switch, look, make, run) and `stop` (clear, look, join, reset).
`OneCall` makes callers wait for one another.

### `NodeService`

`main` is the thread in `AxonController.start`: one step for each part it starts, then `Listen`,
then the loop until `Return`. `stopper` is the thread in `stop` (`SvcStop` of the Windows service,
which may come at any moment of the start): a step for each part (`NextStop` says what a part
that raises skips), then `Close`, which cuts the connections, and `Join`, which waits for calls
being served. `conn[c]` is what a client does (connecting, sleeping after a failure, waiting for
an answer) and what the node does with its call (queued, served); the second may outlast the
first (`TimeOut`). Of each part the module knows whether it runs (`runs`); whether a start or stop
does what it should is the question of the modules above. `spared` are the parts that are not
`stop`'s to account for: they raised, were skipped, or were started again since. On Linux the process is
killed (`Kill`): systemctl sends SIGTERM and the controller has no handler for it.

### `TrafficController` (proofs in `RunnerProofs`)

`records[e]` is what the controller keeps, `rows`, `serving` and `sending` what the nodes
have. An operation is a sequence of phases (`phases`); a phase sends one RPC to every node of
the operation (`target`: those the caller names, or else those the controller knows, `Targets`)
and waits for all answers, the barrier of `ParallelWork.get` (`NextPhase`).
`Done`: the node did it; `Refused`: it did not; `Lost`: it did and the answer was lost. `strict`
picks the class: the data-center controller goes to the nodes of the endpoints
(`VifNode`) and raises after a failed phase, the basic one takes endpoints for nodes, logs a
failure and goes on. `NewController` makes a controller anew, which knows no node. `whole` says
that callers do neither: one controller, and always for all nodes.

### `ConfigStore` (proofs in `NodePartsProofs`)

Values are records of a type and content; `Row` is what `_persist_param` writes, `TypeHandler` the
way back, on types rather than on characters (a tuple comes back as a list until it is
converted, True as False). `Back` says what becomes of a value on the way there and back. `Begin`, `ReadRow`, `WriteRow`, `Reply` are `set_param`; `Restart`
loads file, then table (`Loaded`), and writes all back (`Stored`). `may[p]` is what a caller may
find afterwards.

### `IperfJobs`, `PcapJobs`, `AppJobsProofs`

`handles`, `jobs` and `jobid` are the attributes of that name, `proc` the subprocesses:
a server starts, binds and listens, a client writes its output to a pipe of `Pipe` blocks which
is read only after its end, by `Collect`, and then closed, by `Close`, two steps of `communicate()` between
which another call may read nothing; a capture is interrupted, flushes, and exits. `Seen[q]` in
IperfJobs are the ports whose line the grep of `is_running` finds when asked for `q`. Calls overlap, except
that those that start a client come one at a time unless `"race"` is in `Events`: the job ids of two may be
the same (section 4).

### `NamespaceAgents` (proofs in `HostPartsProofs`)

Both agents in namespace mode. `host[n]` is the namespace as the host has it, `know[k]` what
agent `k` has read: its list and interface map. RPCs that take steps of their own in
`ServerAgent` and `ClientAgent` are one step here, with all that a call that raises may have done before:
`stray` are the namespaces where a server runs whose manager was not put in the map, because the
database failed or another server of the address could not be started. Rediscovery is in steps (`Forget`, then `Learn` or `LearnFails`), with other RPCs between.

### `Namespaces` (proofs in `HostPartsProofs`)

Every thread that enters a network namespace, step by step: `Open` opens the way back and the
way in (the first is where the main thread is, since `/proc/self` stands for that one), `Enter` is
setns, `Fork` starts a worker or the child that reads the interfaces, `Leave` is setns back. A
discovery does this three times for each name (`round`), once for each `Namespace` object that
`_discover_namespaces` makes, and `Keep` puts what was read into the two maps. The main thread
starts servers and clients before it serves (`MayServe`). The host makes and removes names at any
moment; a namespace that is open can still be entered.

### `RemoteInstall` (proofs in `HostPartsProofs`)

`host` is the remote host: the package installed, the unit of the service, its state, and the
version that runs. An operation is the list of commands it sends (`LinuxProgram`,
`WindowsProgram`); `Run` does the next one, `Fail` lets it fail, because it cannot be done
(`Can`) or by itself, before or after it took effect. The attempt to stop the service
(`trystop`) is the one whose failure the code conceals. `sc stop` leaves the service stopping
(`Gone` ends it), `systemctl stop` waits.

### `NodeParts`, `NodePartsProofs`, `HostParts`, `HostPartsProofs`

Two modules that put instances of others side by side: the client agent, the resource
monitor, the configuration store and the service; the apps, the agents in namespace
mode, entering namespaces and the installation. These share no state with one another (the
service knows of its parts whether they run, and not how), so a step of
one can neither enable nor disturb a step of another, and every behaviour of all of them
together is, seen from one, a behaviour of that one with pauses. Hence each behaviour of
these modules is one of a single part (`part`), and not of all interleavings, which
would add states and no information. A part that rests has one state. A part may appear twice with other constants: the
monitor with callers in turn and racing, the apps with calls in turn and overlapping. What is
small about the instance that TLC checks is in the CONSTANTS of these modules, so that the proofs are
about any threads, subprocesses, names and hosts.

## 4. Runs

Every property is stated and explained at its definition. Bounds: a race here is between
one party that has read something and one that changes it, so that two of a kind (threads,
endpoints, processes) show it; a third is given where something must also be replaced (a
process after one that was killed, a manager after one that was lost) or where a third party
could undo what two have done.
Processes and managers are drawn from finite sets: a dead process that nothing
refers to is used again, so that the number bounds how many are *around*, not how many
are ever made. Monitoring threads and client processes of `ClientRecords` are used once.

### Runs that pass

| Run | Bounds | Question and answer |
|---|---|---|
| ConnectedStateDisjoint | 2 threads, 2 endpoints, mixed requests with two configurations | With callers that keep apart, are answered registrations saved (`AckedSaved`), and is the store atomic (`ImplementsRuleStore`)? Does every RPC end (`EveryCallEnds`)? Is every row well formed (`TypeOK`)? |
| ConnectedStateRacing | 3 threads, all writing the same endpoints | Does a stale read bring a deleted row back? No (`DeletedStayDeleted`). |
| ServerAgent | 1 thread, 3 processes, 2 managers, deaths, restarts; a server on each of 2 endpoints, 2 servers on 1, or RPCs that raise (an unknown protocol, failing database operations) | With one RPC at a time, what runs can be reached, runs once and is saved (`NoStray`, `OneWorker`, `RunningSaved`), and the stop is complete (`StopsAll`); start_servers leaves out no saved server, unless it raised (`StartsAllSaved`). |
| ClientRecords | 3 destinations, 2 pings in a round, 2 slots; with and without SIGTERM; sockets only, one rule over HTTP, or one without a client, as the second or the first of a round | Destinations outnumber pings, and pings of two rounds outnumber slots. `VerdictRight`, `SlotsMatch` whenever processes end; `RecordArrives` if no process ends, and `EveryDestServed` if moreover no HTTP request waits for ever. |
| RecordPipeline | 2 of 3 records (a success, a failure of another protocol, a resource sample), 2 threads, queues of 1; the SQL recorder behind wavefront or before one that is not configured, and elastic alone; restarts | Do the statistics come to what was counted, whichever transaction fails (`StatsConserved`), and is what is stored counted (`StoredIsCounted`)? Each record is on the queue once, with one thread, or done with (`TakenOnce`), and is worked off although every queue is full at once (`QueueDrains`). |
| ParallelWork | 3 jobs, 2 workers, owner and 2 others, aborts | When stop returns, every job has its result and nobody works (`StopMeansDone`); unless somebody aborts, `get` returns (`ReturnsUnaborted`). |
| TrafficController | both controllers, 3 endpoints on 2 nodes, 2 ports, configurations of two rules; without failures, with them, with controllers made anew and operations for some of the nodes | `NoFalseAlarm`, `PushComplete`, `StopsEverything`, `StartStarts`. |
| NodeParts | client agent: 1 thread, 3 processes, deaths, failing forks, restarts; monitor: 2 callers in turn and racing, 3 threads, samples that raise; configuration: values of each way of the conversion, True among them, failing statements, restarts; service: 2 connections, 1 pool thread, 2 attempts, parts that raise, resets, time-outs, kills | `OneClient`, `StartsClients`; `StopReturns`, `SwitchOffEnds`; `AckedSurvives` (True comes back as False, every other value as it was); a stop ends the process whatever is served or started meanwhile (`StopExits`), and every call ends (`CallEnds`). |
| HostParts | iperf3: 1 thread, 3 subprocesses, 2 jobs, or 2 threads, 2 subprocesses, 1 job; tcpdump: 2 files, 1 thread and 3 captures or 2 and 2; agents: 2 namespaces that come up and stay, with deaths, or 1 that may be bare or removed, where calls raise too; entering: the main thread and 2 others, 2 names, children that fail; installation: both systems, 2 versions | `StopStopsClient`, `OneCapture`, `NeverCut` (of stop_pcap; stop() kills what runs); a done job has all its output, or nothing when two calls query it (`DoneHasResult`); `StopsAll` (but for strays), `RediscoverFinds`; processes run and readings are made where they were asked for (`WhereAsked`); what runs is what was installed (`InstalledRuns`, unless a stop failed on Linux without need). |

Symmetry is declared where the modules neither order nor single out the values: threads, processes and managers
in the safety runs of the rule store and the server agent, pairs of subprocesses and the names of namespaces in `HostParts`.
No run with a liveness property has any.

`CHECK_DEADLOCK FALSE` is in the runs of `ParallelWork` (all have returned), of
`RecordPipeline` (all records are worked off and all intervals over) and of `ClientRecords`
(with SIGTERM the processes are used up, or the lock is gone with one).

Action steps of the parts of `NodeParts` and `HostParts` appear to TLC as one action for each
part; every action of the instantiated modules is taken within them.

### Runs that find a violation

Each checks one thing that a document or comment of the repository says and the code
does not do. `PROJECT.json` quotes the line under "findings".

| Run | What is violated |
|---|---|
| ConnectedStateLostUpdate | Two registrations at once for an endpoint: one acknowledged rule is lost (`AckedSaved`). |
| ServerAgentRacing | Two add_server calls at once for an endpoint: a server runs that no registry of the agent holds (`RegistryHoldsAll`). |
| ParallelWorkAbort | get(abort=True) with a queued job waits for ever (`GetReturns`). |

### Further disagreements

Met while modelling, and shown by TLC when the instance below is checked; they are not
among the runs above, which state the properties so that they hold. Most of the properties
are kept in their modules as statements the code does not meet.

| Module, property | Instance | What happens |
|---|---|---|
| ServerAgent, `RunningSaved` without `Faulty` | 1 thread, a failing database | add_server starts the server and then fails to save it: it runs, unsaved and outside the map (`src/AXON/doc/topology_workflow.rst:158`). |
| ServerAgent, `RegisteredStarts` | 1 thread, "register" | A registered rule is not acted upon until someone calls start_servers (`topology_workflow.rst:160`: "continuously keeps of monitoring its local state"). |
| ClientAgent, `StopsClient` | 1 thread | stop_client stops nothing: managers are filed under 'localhost' and looked up under None (`agents.py:268`). |
| ClientRecords, `ArrivesDespiteStops` | the configuration of the run | A process stopped with the write lock or slots in hand silences its successors. |
| ClientRecords, `ServedAlways` | the configuration of the run | An HTTP request that is never answered, or a rule of an unknown protocol, keeps the other destinations from their turn. |
| RecordPipeline, `WrittenToAll` | wavefront before SQL | A recorder that raises keeps the record from those after it. |
| ResourceMonitor, `StopReturns` | callers racing | stop waits for a thread that another caller has told to go on. |
| ResourceMonitor, `StartMonitors` | calls one at a time | A thread that ends between two steps of stop leaves a dead `_thread` behind, and start never monitors again. |
| TrafficController, `StartsAnew` | not `whole` | start_traffic of a new controller starts nothing, whatever the nodes have rules for (`topology_workflow.rst:202`). |
| TrafficController, `OneVerdict` | `faulty` | A rule changed while a node was away is stored in both forms. |
| ConfigStore, `AckedReturns` | the configuration store of `NodeParts` | True is False after a restart (`tests/apps/test_config.py:32` sets a parameter to True, and line 64 asserts that it comes back). |
| ConfigStore, `CacheReflects` | 2 threads, 2 values | Two calls leave one value in the cache and the other in the table. |
| IperfJobs, none | `Output` 2, `Pipe` 1 | A client with more output than a pipe holds never ends: nothing is read before it has. |
| IperfJobs, `DoneHasResult` without its second case | 2 threads | Overlapping queries of a job read the pipe twice before it is closed; the second stores an empty result (`apps/iperf.py:172`). |
| IperfJobs, `StartStarts` | `Seen[p56] = {p56, p5600}` | Port 56 counts as running when 5600 does: no server is started. |
| IperfJobs, `StopStops` | "slow" | A server that binds after the third look has no handle. |
| IperfJobs, `StopStopsClient`, `DoneHasResult` | 2 threads, "race" | Overlapping calls are given the same job id: one of two clients cannot be stopped, and the other's job can be reported done while it runs. |
| IperfJobs, `OutOfPorts` | 1 random port | The generator of random ports is exhausted while the ports are free. |
| PcapJobs, `OneCapture` | 2 threads | Overlapping calls start two captures to a file. |
| PcapJobs, `RerunMeansRunning`, `Answers` | 1 thread, "death" | A handle outlives its capture; is_running raises after stop_pcap. |
| NamespaceAgents, `StartsEach` | 2 namespaces, "bare" | A namespace without interfaces keeps others from being served. |
| NodeService, `StopExitsCalled` | the service of `NodeParts` | A call that is served while stop() runs starts a part again that has been stopped: the process does not end. |
| Namespaces, `ListedExist` | the part of `HostParts` | A namespace that was removed stays in the list of those "presnt in the system" (`utils/network_utils.py:107`). |
| Namespaces, `MapsAgree` | "child" or "remove" | A discovery that raises halfway leaves a name in one map that the other lacks. |
| RemoteInstall, `InstallsStopped` | "windows" | The package is installed while the service is still stopping ("we have to stop that", `client/axon_installer.py:207`). |
| RemoteInstall, `RestartKeepsRunning` | either system | A restart that raises leaves the service stopped. |
| NamespaceAgents, `StopsEvery` | 1 namespace, "raise" | A server whose call raised before its manager was kept is not stopped ("Stop all server in given namespace", `traffic/agents.py:160`). |
| NamespaceAgents, `StoppedNotListed`, `StopsClient` | 2 namespaces | Stopped servers stay listed; stop_client stops nothing here either. |

## 5. Fairness

Safety runs assume none. Where something must eventually happen:

- a thread that serves an RPC, a pool thread, a counting thread, a worker, a monitoring
  thread goes on (weak fairness of its steps): Python and the OS schedule threads, and no
  step waits for a condition that its guard does not have. Where a lock or a full queue
  stops a thread, the guard says so, and weak fairness promises nothing while it is held;
- a process binds and takes its SIGTERM: the OS runs processes;
- `NodeService`: the main thread, the thread in stop() and the threads that serve calls go on,
  and a client goes on: its sleeps end, its wait has a time limit. Nobody has to
  boot, stop or call the node, or kill it, and no call need succeed;
- `RecordPipeline`, `ClientRecords`: pool threads take from the queue, feeders write, and a ping over a
  socket ends, since it has a timeout. A ping over HTTP need not: there is no fairness on `PingHttp`;
- `ParallelWork`: jobs end (the RPCs they make have a time limit), and the owner calls `get`;
- nobody has to make a request, to fail, die, or restart: no fairness on those.

## 6. Proofs

`ConnectedStateProofs` proves, for any sets of threads, endpoints, servers, client rules and
requests:

| Theorem | Statement |
|---|---|
| `TypeCorrect` | `Spec => []TypeOK` |
| `DeletionsStick` | `Spec => DeletedStayDeleted` |
| `RegistrationsSaved` | `OneWriterPerEndpoint => (Spec => []AckedSaved)` |
| `SnapshotsFresh` | `OneWriterPerEndpoint => (Spec => []SnapshotFresh)` |
| `Refinement` | `OneWriterPerEndpoint => (Spec => ImplementsRuleStore)` |

Assumptions: those of `TrafficRules` (`NoRow` is not a row, `Requests` are requests) and
`OneWriterPerEndpoint \in BOOLEAN`. The last three need TRUE: `ConnectedStateLostUpdate`
is the counterexample without it.

Argument. `TypeOK` is not inductive: what an RPC writes has a type only if the RPC has a
configuration left and that configuration names an endpoint. `Shape` says so of every program
counter, and `TypeInv == TypeOK /\ Shape` is inductive (one lemma for each action).
`DeletedStayDeleted` follows from `TypeInv` step by step: only `Create` makes a row where there
is none, since the UPDATE of a row that is gone changes nothing.

`AckedSaved` is not inductive either: a reply may only promise what is stored, a removal
must not take away what is promised, and nobody may overwrite either. `SafeInv` has a part
for each: `Disjoint` (the endpoints of two RPCs in progress differ; `CallersAllow` makes it so
and no step adds an endpoint), `SnapshotFresh` (the row a thread is about to write back is the
row in the table: whoever wrote it in between would touch the same endpoint), `DoneStored` (the
configurations that a registration in progress is done with are in the table, so that `Reply`
may acknowledge them), `WithdrawnGone` (what a request in progress is to remove is promised to
nobody). `IInv == TypeInv /\ SafeInv` is inductive. Under it every step is one of four kinds
(lemma `StepKinds`): `Applied`, the effect of one configuration on the table as it is;
`Stopped`; `ReadRow`; `Reply`. `Applied` is `Apply` of `RuleStore`, `Stopped` and `Reply` are its
`End`, and `ReadRow` is a stutter: the refinement.

`RunnerProofs` is about the runner machine. It proves of `ParallelWork`, for any finite sets of jobs and
workers and any callers:

| Theorem | Statement |
|---|---|
| `StopWaits` | `WorkSpec => []StopMeansDone` |
| `WorkTypes` | `WorkSpec => []WorkTypeOK` |

Assumption: `WorkAssumption` of `ParallelWork` (finite sets, at least one worker where there are
jobs, and `Nothing`, the sentinel, jobs and callers are told apart).

Argument. `stop` deletes the queue when the count of unfinished tasks is zero. That this means
something needs `Counted`: the count is what is queued and what workers have in hand. With
`Somewhere` (a job is queued, in hand, or has its result) an empty queue and idle workers leave only
the third. `Guarded` (whoever marks, puts sentinels or joins holds the lock), `Marked` (sentinels come
from a caller that has said so, and once) and `Before` (nothing happens until the owner starts the
workers) make these inductive, `HasJob` types what a worker looks at.

It proves of `TrafficController`, for any endpoints on any nodes, any ports and configurations, both
controllers, with RPCs that fail or not:

| Theorem | Statement |
|---|---|
| `ControllerTypes` | `Spec => []TypeOK` |
| `PushesAll` | `Spec => PushComplete` |
| `TrafficStops` | `Spec => StopsEverything` |
| `TrafficStarts` | `Spec => StartStarts` |
| `NoClientAlone` | `Spec => []NoFalseAlarm` |

Assumption: `ControllerAssumption` of `TrafficController` (every endpoint has a node, configurations are
sequences of rules that are not empty, `None` is not a record).

Argument. The rules are folded into records and rows, so what the folds do comes first. `Tables` is that
a fold from the left exists as the function its definition chooses; `WithoutSteps`, `KeyedSteps` and
`CreateSteps` give it as a row of results, one for each prefix of the sequence; and `Climb`, induction up to a number
of membership in a set, proves of every prefix what `WithoutFacts`, `KeyedFacts` (a key is kept, no
rule is made up) and `CreateFacts` (records grow, hold every rule given, and have a server for
every client) state.

`PInv` is for the three action properties. `Types` says which phases may be left (`Programs`: an
operation and what remains of it), `GivenHeld` that the records have all rules given, and `Progress` what
the answers of the phase so far mean while none has failed: a node that has answered holds its
records, runs its servers, or runs nothing. Since a phase ends when all nodes of the operation have
answered, the end of the last phase says it of all.

`NoFalseAlarm` needs `Sound`, under its own conditions (`Calm`). `Own`: what nodes hold and send comes from this
controller, so that the nodes it knows are all that matter. `Ordered`: servers stop only when
nobody sends, clients start only when the servers run, and the rows have a server for every client
(`Closed`) when the last push went well. That is where the strict controller or reliable RPCs come in: a phase
that failed is the last one, or there is none. `PInv` and `Sound` are checked by TLC too.

`ClientRecordsProofs` proves, for any destinations, rules, rate and size of the queue:

| Theorem | Statement |
|---|---|
| `ClientTypes` | `Spec => []TypeOK` |
| `SlotsKept` | `Spec => []SlotsMatch` |
| `RecordsRight` | `Spec => []VerdictRight` |

Assumption: `ClientRecordsAssumption` (destinations differ and are at least one, rate and slots
are positive, `None` is neither a process nor a record).

Argument. `SlotsMatch` is inductive with `TypeOK` and `Raised`, that a process ends by itself only where a
rule has no client: a record keeps its slot
from the put until a reader takes it, every step between moves it from one place to the next,
and a process that ends takes records away without giving slots back. `VerdictRight` speaks of
the pipe only; `AllRight` says it of the buffer and of the feeder's hand too, and `Aimed` that a
ping that runs has a destination to judge it by.

`RecordPipelineProofs` proves, for any records, lists of recorders, threads and sizes of queues:

| Theorem | Statement |
|---|---|
| `RecordsTakenOnce` | `Spec => []TakenOnce` |
| `StatsAddUp` | `Spec => []StatsConserved` |
| `StoredAreCounted` | `Spec => []StoredIsCounted` |

Assumptions: `RecordAssumption` (the kinds of record are finitely many, and each has a protocol) and
`PipelineAssumption` of `RecordPipeline`.

Argument. `TakenOnce` is `Single` (a record is on the queue once, or with one thread) and `Found` (without a
restart every record is there, or finished). They need `Known` (what is in the pipeline has been produced, so that a new record is in none of these
places) and `EmptyHanded` (a thread that takes has nothing to lose). The counting threads touch none
of this.

The statistics need an invariant for each kind of record, since a transaction writes the counts
of one protocol: `Accounts` says that what is written and what is counted of a kind
come to the records of that kind a recorder has handled, with the exceptions `StatsConserved`
itself makes. It is preserved because a record is counted once: `OnlyOnce` (it is on a counting
queue once, and not when it is counted), `NotYet` (a record on the record queue, or with a thread
that has not put it there, has not reached the recorder) and `Passed` (a record that is stored, or
that a thread is about to store, has). `CInv` puts these together and is checked by TLC too. That the sums over
all kinds agree then (`AddsUp`) is induction over a finite set: of the
subsets of the kinds that a formula does not hold of, the library's well-foundedness of the
strict subset ordering gives a smallest (lemma `Smallest`); `SumUnfolds` and
`SumsByKind` are proved of it.

`NodePartsProofs` proves, for any threads, managers and processes of the client agent, and any
parameters and values of the configuration store:

| Theorem | Statement |
|---|---|
| `OneClientRuns` | `OneAtATime => (Spec => []OneClient)` |
| `AgentTypes` | `OneAtATime => (Spec => []Clients!TypeOK)` |
| `AcknowledgedSurvives` | `OneAtATime => (Spec => []AckedSurvives)` |
| `ConfigTypes` | `OneAtATime => (Spec => []Config!TypeOK)` |

Assumptions: `PartsAssumption`, which TLC evaluates in the run, and a condition on callers, `OneAtATime`: there is
one thread. The run has it; section 4 has the disagreement that TLC finds for the store without it.

Argument. Of the client agent: between the fork and the entry in the registry a client runs that no
registry has. `Serves` says of one that runs that it is in the registry of the map, in that of the
manager an RPC has in hand, or is what the RPC is about to enroll; `Hand`, that the manager in
hand is the one of the map or new, and that nothing runs where the RPC forks or has
told to stop. Then two that run are the same. Of the store: `Called` says that the value of a call
in progress is one a caller may find afterwards and that a call about to answer has its row in
the table. `Converts` is the lemma about the conversion: a value goes to its row and back, True as
False, and False stays. With it a restart, which rewrites every row from what it has loaded, leaves the table
with what it would have loaded before (`Held`: every row is of a value that was set, or of False).

`AppJobsProofs` proves, for any threads, subprocesses, files and ports, any last job id, length of the
output and size of the pipe, and whatever fails or lingers:

| Theorem | Statement |
|---|---|
| `CapturesWhole` | `Pcap!PcapAssumption => (Pcap!Spec => []Pcap!NeverCut)` |
| `PcapTypes` | `Pcap!PcapAssumption => (Pcap!Spec => []Pcap!TypeOK)` |
| `JobsAreKept` | `Orderly => (Iperf!Spec => [](Iperf!StopStopsClient /\ Iperf!DoneHasResult))` |

`Orderly` is `IperfAssumption` and that calls that start clients do not overlap; the assumptions are
among those of `HostParts`, so that TLC evaluates them there.

Argument for tcpdump. `stop_pcap` is five steps, between which other calls may start, stop and sweep
captures. `NeverCut` needs `PcapExited`: a call that is about to kill holds a tcpdump that has
exited, which `Wait` establishes. It stays so because no step brings that subprocess back to life
(`PcapStayDead`): `Spawn` takes one that no call holds, and SIGINT or the kill of another call finds
it dead. `PcapLocals` says which locals a call has at which program counter, without which `TypeOK` is
not inductive. With one thread, `PcapKept` adds that a capture that goes on is the one the handle of its
file is of, or the one about to be kept there, and `PcapFresh` that what a call has looked up is still
so: the second capture to a file is refused (lemma `OneMeans`).

Argument for iperf3. A job id is taken, the job filed under it, and the id answered in steps between
which other calls stop, query and sweep jobs. `IperfNumbers`: the id in hand is a new one.
`IperfHears`: nobody stops a job that has not been answered, or has found one that is not filed.
`IperfHolds`: the job a call has found is still the one filed under its id, or that one is gone.
`IperfReads` and `IperfStops` say what a query and a stop have established at each step;
`IperfFiled` and `IperfAnswered` relate the jobs to the subprocesses: a result is of one that
has ended, and a client that runs and has been answered for is the one filed under its id. A stop that
returns has left its id without a job, so that no such client runs.
`PipesInv` adds the pipes (`IperfWhole`): a pipe holds all that its process has written, or a call has read it
after the process had ended (`IperfPipe`); so what a call has read is all or, when another call has read
it and not yet closed it, nothing (`IperfGot`), and this is what the job's result is (`IperfResult`).

`HostPartsProofs` proves, for any threads, subprocesses, files, namespaces, hosts and versions:

| Theorem | Statement |
|---|---|
| `CapturesAreWhole` | `Spec => []NeverCut` |
| `OneCaptureAFile` | `Spec => []OneCapture` |
| `DoneJobsHaveResults` | `Spec => []DoneHasResult` |
| `StoppedClientsAreGone` | `Spec => []StopStopsClient` |
| `StopsReachAll` | `Spec => []StopsAll` |
| `RediscoveryFinds` | `Spec => []RediscoverFinds` |
| `RunsWhereAsked` | `Spec => []WhereAsked` |
| `InstalledIsWhatRuns` | `Spec => []InstalledRuns` |

Assumption: `PartsAssumption` of `HostParts`, which TLC evaluates in the run: those of the parts, and that
`One` is one thread, which `OneCaptureAFile` needs.

Argument. `HostInv` says that the part whose behaviour it is keeps its invariant.

What four of these leave out is part of their statements: `CapturesAreWhole` is about the kill of stop_pcap, not about
that of stop(), which kills every tcpdump; `DoneJobsHaveResults` lets the result be empty when there are
two threads; `StopsReachAll` is about the processes the agent has a manager of; `InstalledIsWhatRuns`
excepts a stop that fails on Linux although it could be done, which the installer conceals.

- The apps. `Serial` and `Racing` are the lemmas of `AppJobsProofs` for calls one at a time and for
  overlapping ones; the first lemmas say that the steps of the two modules are the same.
- The agents (`AgentsInv`). `StopsAll` and `RediscoverFinds` are inductive with `AtHome` (without
  removals, what runs is in a namespace that is there and that the agent has, if it has any) and
  `Looked` (what was there since a rediscovery began is still there, and the server agent has it when
  the client agent begins to look).
- Entering (`NsInv`). `/proc/self` is the main thread, so the way back that any thread
  opens is where that one is. `NsTurns` says that the main thread is at rest before another thread
  enters anything, `NsGood` where a thread is, what it has open and what it has read at each program
  counter, `NsKept` what has been started and read.
- The installation (`InstallInv`). `Left` are the commands an operation may have left, `Packaged`
  that what was installed last is the package of the host. `LinuxRuns`: the service is stopped when pip
  begins, so that what is started afterwards is the new package. `WindowsRuns`: there sc starts a
  service only if none runs, so that what a start has started is the package as it is.

`ServerAgentProofs` proves, for any endpoints, servers, workers, managers and regimes:

| Theorem | Statement |
|---|---|
| `ServerTypes` | `Spec => []TypeOK` |
| `NothingStrays` | `Spec => []NoStray` |
| `NoSecondWorker` | `Spec => []OneWorker` |
| `RunsSaved` | `Spec => []RunningSaved` |
| `StopsEverything` | `Spec => StopsAll` |
| `StartsEverything` | `Spec => StartsAllSaved` |

Assumption: `ServerAgentAssumption` (finitely many threads and endpoints, `None` is none of the
values it stands beside, a regime chooses among the threads, endpoints and servers there are). The
properties carry their own conditions: one RPC at a time, and for all but the last that
none raises. `ServerTypes` has none.

Argument. `Shape` says which locals an RPC has at each point, and `Visits` that stop_servers
only has managers of the map left to visit. Between two steps of an RPC the agent's promises do not
hold: a worker runs before it is enrolled, a registry is filled before its manager is in the map,
a server runs before it is saved. `Safe` says for the one RPC `t` what holds instead: a running worker
is in a registry of the map, in the one `t` has in hand, or is what `t` is about to enroll
(`Placed`); what `t` has in hand is the endpoint's own manager or a new one (`Mine`, `OneOwner`);
nothing runs yet where `t` is about to fork (`Alone`); what `t` is stopping is what the
registry has (`Victims`); nothing asked for or saved is of an unknown protocol (`Wanted`), so that no
step raises; and what runs is saved or about to be (`SavedSoon`). `Cleared` is the progress of
stop_servers, what still runs is still to be visited or told to stop, and `Started` that of
start_servers, a saved server is in the registry or still to do. `IInv` puts them together, each
under the conditions it needs.

Only model-checked: liveness (`EveryCallEnds`, `RecordArrives`, `ReturnsUnaborted`, `StopExits`, ...),
which is beyond the prover. Every other property of the passing runs is stated by a theorem.
`SnapshotFresh` is proved and, as a part of `SafeInv`, of no run of its own.

## 7. Not modelled

- What is sent, measured or captured, how long it takes, and how it is worded.
- The time ranges and filters of the statistics queries, and the queries that list rows.
- `ParallelWork.run` on a manager that has been started, and starting it again after a stop:
  the repository does neither.
- Ranges of addresses in traffic rules: only the first address is ever used.
- The map file of `WorkloadVifsMap` (removed before it is rewritten): planned.
- `reload_daemon` and the status queries of the installer, which change nothing it depends on, and the copying of files.
- Two commands of `WindowsProgram` and `LinuxProgram` running at once: an object of the installer is used by
  one thread; two operators on one host are not modelled.
- Scapy and the scripts, the metric clients' messages, and the readings of `InterfaceManager`: I/O or
  wrappers without state of their own.
- Memory effects below Python's interpreter lock: an attribute or dictionary access is atomic.
