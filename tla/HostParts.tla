-------------------------------- MODULE HostParts --------------------------------
(***************************************************************************)
(* Parts that have to do with the host of a node and the programs on it:   *)
(* the apps that run iperf3 and tcpdump for their callers, each with calls *)
(* one at a time and with overlapping ones; the agents in namespace mode;  *)
(* the threads that enter namespaces; and the installation of the node.    *)
(* They share no state: a behaviour is one of one of them, and the others  *)
(* rest.                                                                   *)
(***************************************************************************)
EXTENDS Naturals, FiniteSets

CONSTANTS
  One, Many,     \* the thread that serves RPC requests one at a time, and those that overlap
  Ports, Random, \* ports, and those a server without a port may get
  Names,         \* names, whether of capture files, namespaces or versions of the package
  Three,         \* bound: the subprocesses when calls come one at a time
  Two,           \* bound: the subprocesses when calls overlap
  Hosts,         \* the namespaces that the agents look at, and what becomes of them
  Main, Root,    \* the main thread, and the namespace of the host itself
  None

VARIABLES
  part,                                                      \* whose behaviour this is; never changes
  handles, jobs, jobid, draws, proc, th,                     \* the iperf3 app
  captures, dump, rpc,                                       \* the tcpdump app
  setting, spaces, know, rules, workers, stray, stage, since, last, \* the agents
  names, booted, threads, started, nsmap, ifmap,             \* entering namespaces
  os, remote, cmds, op, ver, ret, kept, want                 \* the installation

\* No port number is part of another.
Seen == [q \in Ports |-> {q}]

Iperf == INSTANCE IperfJobs WITH
  Threads <- One, Procs <- Three,
  LastJob <- 2, Output <- 2, Pipe <- 1, Events <- {"death", "linger"}

IperfRacing == INSTANCE IperfJobs WITH
  Threads <- Many, Procs <- Two,
  LastJob <- 1, Output <- 1, Pipe <- 1, Events <- {"death"}

Pcap == INSTANCE PcapJobs WITH
  Threads <- One, Files <- Names, Procs <- Three, Events <- {"death", "hang"},
  handles <- captures, proc <- dump, th <- rpc

PcapRacing == INSTANCE PcapJobs WITH
  Threads <- Many, Files <- Names, Procs <- Two, Events <- {"death", "hang"},
  handles <- captures, proc <- dump, th <- rpc

Agents == INSTANCE NamespaceAgents WITH Spaces <- Names, host <- spaces, procs <- workers

Entering == INSTANCE Namespaces WITH
  Pool <- Many, Events <- {"remove", "child"},
  host <- names, th <- threads, procs <- started

Install == INSTANCE RemoteInstall WITH
  Systems <- {"linux", "windows"}, Versions <- Names, Events <- {"fail", "death"}, host <- remote

ASSUME PartsAssumption ==
  /\ \A t, u \in One : t = u
  /\ Iperf!IperfAssumption /\ IperfRacing!IperfAssumption
  /\ Pcap!PcapAssumption /\ PcapRacing!PcapAssumption
  /\ Agents!NamespaceAssumption /\ Entering!NamespacesAssumption /\ Install!InstallAssumption

iperf == <<handles, jobs, jobid, draws, proc, th>>
pcap == <<captures, dump, rpc>>
agents == <<setting, spaces, know, rules, workers, stray, stage, since, last>>
entering == <<names, booted, threads, started, nsmap, ifmap>>
install == <<os, remote, cmds, op, ver, ret, kept, want>>
vars == <<part, iperf, pcap, agents, entering, install>>

-----------------------------------------------------------------------------
\* Parts that rest have one state each.
AgentsRest ==
  /\ setting = None /\ spaces = None /\ know = None /\ rules = None
  /\ workers = None /\ stray = None /\ stage = None /\ since = None /\ last = None

EnteringRests ==
  /\ names = None /\ booted = None /\ threads = None
  /\ started = None /\ nsmap = None /\ ifmap = None

InstallRests ==
  /\ os = None /\ remote = None /\ cmds = None /\ op = None
  /\ ver = None /\ ret = None /\ kept = None /\ want = None

Init ==
  /\ part \in {"iperf", "iperf racing", "pcap", "pcap racing", "agents", "entering", "install"}
  /\ IF part = "iperf racing" THEN IperfRacing!Init ELSE Iperf!Init
  /\ IF part = "pcap racing" THEN PcapRacing!Init ELSE Pcap!Init
  /\ IF part = "agents" THEN Agents!Init ELSE AgentsRest
  /\ IF part = "entering" THEN Entering!Init ELSE EnteringRests
  /\ IF part = "install" THEN Install!Init ELSE InstallRests

IperfStep ==
  /\ \/ part = "iperf" /\ Iperf!Next
     \/ part = "iperf racing" /\ IperfRacing!Next
  /\ UNCHANGED <<part, pcap, agents, entering, install>>

PcapStep ==
  /\ \/ part = "pcap" /\ Pcap!Next
     \/ part = "pcap racing" /\ PcapRacing!Next
  /\ UNCHANGED <<part, iperf, agents, entering, install>>

AgentsStep ==
  /\ part = "agents" /\ Agents!Next
  /\ UNCHANGED <<part, iperf, pcap, entering, install>>

EnteringStep ==
  /\ part = "entering" /\ Entering!Next
  /\ UNCHANGED <<part, iperf, pcap, agents, install>>

InstallStep ==
  /\ part = "install" /\ Install!Next
  /\ UNCHANGED <<part, iperf, pcap, agents, entering>>

Next == IperfStep \/ PcapStep \/ AgentsStep \/ EnteringStep \/ InstallStep

Spec == Init /\ [][Next]_vars

-----------------------------------------------------------------------------
(* When stop_iperf_client has returned, no client that was started under   *)
(* that job id is left running, also when calls overlap, but for those     *)
(* that start clients.                                                     *)
StopStopsClient ==
  CASE part = "iperf"        -> Iperf!StopStopsClient
    [] part = "iperf racing" -> IperfRacing!StopStopsClient
    [] OTHER                 -> TRUE

(* A job that is reported done has ended and has a result (the test of the *)
(* app asserts it): all that its process wrote, or, when calls overlap,    *)
(* either that or nothing.                                                 *)
DoneHasResult ==
  CASE part = "iperf"        -> Iperf!DoneHasResult
    [] part = "iperf racing" -> IperfRacing!DoneHasResult
    [] OTHER                 -> TRUE

(* Two captures never write the same file at a time (TCPDumpRerunError is  *)
(* there to refuse the second), with calls one at a time.                  *)
OneCapture == part = "pcap" => Pcap!OneCapture

(* stop_pcap never cuts a capture short: tcpdump has written its file when *)
(* that call kills it, whoever else stops it (stop kills what still runs). *)
NeverCut ==
  CASE part = "pcap"        -> Pcap!NeverCut
    [] part = "pcap racing" -> PcapRacing!NeverCut
    [] OTHER                -> TRUE

(* In namespace mode a stop that returns leaves no process running that    *)
(* the agent has a manager of, where it was to stop all, whatever the agent*)
(* has rediscovered meanwhile; a server whose call raised before its       *)
(* manager was put in the map is excepted.                                 *)
StopsAll == part = "agents" => Agents!StopsAll

(* After rediscover_namespaces both agents know every namespace that has   *)
(* been there since it began, whatever was made or removed meanwhile.      *)
RediscoverFinds == part = "agents" => Agents!RediscoverFinds

(* A process runs, and a reading is made, in the namespace that was asked  *)
(* for, and a thread that serves nothing is back in the host's own.        *)
WhereAsked == part = "entering" => Entering!WhereAsked

(* What runs after remote_install_sdist and a start or a restart is what   *)
(* was installed, unless a stop on Linux failed that could have been done. *)
InstalledRuns == part = "install" => Install!InstalledRuns
=============================================================================
