---------------------------- MODULE HostPartsProofs ----------------------------
(***************************************************************************)
(* Proofs about HostParts: of the apps, from AppJobsProofs; of the agents  *)
(* in namespace mode, of entering namespaces and of the installation, from *)
(* invariants of their own, for any names, threads and hosts.              *)
(***************************************************************************)
EXTENDS HostParts, Sequences, TLAPS

\* The two apps, as AppJobsProofs has them, with calls one at a time and with
\* overlapping ones.
Serial == INSTANCE AppJobsProofs WITH
  Threads <- One, Procs <- Three, Files <- Names, PcapEvents <- {"death", "hang"},
  LastJob <- 2, Output <- 2, Pipe <- 1, Events <- {"death", "linger"}

Racing == INSTANCE AppJobsProofs WITH
  Threads <- Many, Procs <- Two, Files <- Names, PcapEvents <- {"death", "hang"},
  LastJob <- 1, Output <- 1, Pipe <- 1, Events <- {"death"}

(***************************************************************************)
(* The apps here are those that AppJobsProofs is about: the same           *)
(* definitions, with the same parameters.                                  *)
(***************************************************************************)
LEMMA SerialPcapAssumed == Serial!Pcap!PcapAssumption /\ Serial!IsFiniteSet(Names)
BY PartsAssumption DEF Pcap!PcapAssumption, Serial!Pcap!PcapAssumption, Pcap!IsFiniteSet,
     Serial!Pcap!IsFiniteSet, Serial!IsFiniteSet, IsFiniteSet

LEMMA SerialPcapInit == ASSUME Pcap!Init PROVE Serial!Pcap!Init
BY DEF Pcap!Init, Serial!Pcap!Init, Pcap!Free, Serial!Pcap!Free, Pcap!Idle, Serial!Pcap!Idle,
     Pcap!NewCall, Serial!Pcap!NewCall

LEMMA SerialPcapNext ==
  ASSUME Pcap!Next \/ UNCHANGED pcap
  PROVE  [Serial!Pcap!Next]_Serial!Pcap!vars
<1>1. ASSUME Pcap!Next PROVE Serial!Pcap!Next
  BY <1>1 DEF Pcap!Next, Serial!Pcap!Next, Pcap!Calls, Serial!Pcap!Calls, Pcap!BeginStart,
     Serial!Pcap!BeginStart, Pcap!Cardinality, Serial!Pcap!Cardinality, Pcap!FreeProcs,
     Serial!Pcap!FreeProcs, Pcap!Alive, Serial!Pcap!Alive, Pcap!Begin, Serial!Pcap!Begin,
     Pcap!At, Serial!Pcap!At, Pcap!NewCall, Serial!Pcap!NewCall, Pcap!BeginStop,
     Serial!Pcap!BeginStop, Pcap!BeginIsRunning, Serial!Pcap!BeginIsRunning,
     Pcap!BeginStopApp, Serial!Pcap!BeginStopApp, Pcap!Handled, Serial!Pcap!Handled,
     Pcap!Serve, Serial!Pcap!Serve, Pcap!Look, Serial!Pcap!Look, Pcap!Goto, Serial!Pcap!Goto,
     Pcap!Ends, Serial!Pcap!Ends, Pcap!Spawn, Serial!Pcap!Spawn, Pcap!Keep, Serial!Pcap!Keep,
     Pcap!Find, Serial!Pcap!Find, Pcap!Interrupt, Serial!Pcap!Interrupt, Pcap!Wait,
     Serial!Pcap!Wait, Pcap!Kill, Serial!Pcap!Kill, Pcap!Pop, Serial!Pcap!Pop, Pcap!Ask,
     Serial!Pcap!Ask, Pcap!Sweep, Serial!Pcap!Sweep, Pcap!Reply, Serial!Pcap!Reply, Pcap!Idle,
     Serial!Pcap!Idle, Pcap!Flush, Serial!Pcap!Flush, Pcap!Fails, Serial!Pcap!Fails
<1>2. ASSUME UNCHANGED pcap PROVE UNCHANGED Serial!Pcap!vars
  BY <1>2 DEF pcap, Serial!Pcap!vars
<1> QED
  BY <1>1, <1>2

LEMMA SerialPcapMeans ==
  /\ Serial!Pcap!NeverCut => Pcap!NeverCut
  /\ Serial!Pcap!OneCapture => Pcap!OneCapture
BY DEF Pcap!NeverCut, Serial!Pcap!NeverCut, Pcap!OneCapture, Serial!Pcap!OneCapture, Pcap!Alive,
     Serial!Pcap!Alive

LEMMA RacingPcapAssumed == Racing!Pcap!PcapAssumption /\ Racing!IsFiniteSet(Names)
BY PartsAssumption DEF PcapRacing!PcapAssumption, Racing!Pcap!PcapAssumption,
     PcapRacing!IsFiniteSet, Racing!Pcap!IsFiniteSet, Racing!IsFiniteSet, IsFiniteSet

LEMMA RacingPcapInit == ASSUME PcapRacing!Init PROVE Racing!Pcap!Init
BY DEF PcapRacing!Init, Racing!Pcap!Init, PcapRacing!Free, Racing!Pcap!Free, PcapRacing!Idle,
     Racing!Pcap!Idle, PcapRacing!NewCall, Racing!Pcap!NewCall

LEMMA RacingPcapNext ==
  ASSUME PcapRacing!Next \/ UNCHANGED pcap
  PROVE  [Racing!Pcap!Next]_Racing!Pcap!vars
<1>1. ASSUME PcapRacing!Next PROVE Racing!Pcap!Next
  BY <1>1 DEF PcapRacing!Next, Racing!Pcap!Next, PcapRacing!Calls, Racing!Pcap!Calls,
     PcapRacing!BeginStart, Racing!Pcap!BeginStart, PcapRacing!Cardinality,
     Racing!Pcap!Cardinality, PcapRacing!FreeProcs, Racing!Pcap!FreeProcs, PcapRacing!Alive,
     Racing!Pcap!Alive, PcapRacing!Begin, Racing!Pcap!Begin, PcapRacing!At, Racing!Pcap!At,
     PcapRacing!NewCall, Racing!Pcap!NewCall, PcapRacing!BeginStop, Racing!Pcap!BeginStop,
     PcapRacing!BeginIsRunning, Racing!Pcap!BeginIsRunning, PcapRacing!BeginStopApp,
     Racing!Pcap!BeginStopApp, PcapRacing!Handled, Racing!Pcap!Handled, PcapRacing!Serve,
     Racing!Pcap!Serve, PcapRacing!Look, Racing!Pcap!Look, PcapRacing!Goto, Racing!Pcap!Goto,
     PcapRacing!Ends, Racing!Pcap!Ends, PcapRacing!Spawn, Racing!Pcap!Spawn, PcapRacing!Keep,
     Racing!Pcap!Keep, PcapRacing!Find, Racing!Pcap!Find, PcapRacing!Interrupt,
     Racing!Pcap!Interrupt, PcapRacing!Wait, Racing!Pcap!Wait, PcapRacing!Kill,
     Racing!Pcap!Kill, PcapRacing!Pop, Racing!Pcap!Pop, PcapRacing!Ask, Racing!Pcap!Ask,
     PcapRacing!Sweep, Racing!Pcap!Sweep, PcapRacing!Reply, Racing!Pcap!Reply,
     PcapRacing!Idle, Racing!Pcap!Idle, PcapRacing!Flush, Racing!Pcap!Flush, PcapRacing!Fails,
     Racing!Pcap!Fails
<1>2. ASSUME UNCHANGED pcap PROVE UNCHANGED Racing!Pcap!vars
  BY <1>2 DEF pcap, Racing!Pcap!vars
<1> QED
  BY <1>1, <1>2

LEMMA RacingPcapMeans ==
  /\ Racing!Pcap!NeverCut => PcapRacing!NeverCut
BY DEF PcapRacing!NeverCut, Racing!Pcap!NeverCut

LEMMA SerialIperfAssumed == Serial!Orderly
BY PartsAssumption DEF Serial!Orderly, Iperf!IperfAssumption, Serial!Iperf!IperfAssumption

LEMMA SerialIperfInit == ASSUME Iperf!Init PROVE Serial!Iperf!Init
BY DEF Iperf!Init, Serial!Iperf!Init, Iperf!JobIds, Serial!Iperf!JobIds, Iperf!NoJob,
     Serial!Iperf!NoJob, Iperf!Free, Serial!Iperf!Free, Iperf!Idle, Serial!Iperf!Idle

LEMMA SerialIperfNext ==
  ASSUME Iperf!Next \/ UNCHANGED iperf
  PROVE  [Serial!Iperf!Next]_Serial!Iperf!vars
<1>1. ASSUME Iperf!Next PROVE Serial!Iperf!Next
  BY <1>1 DEF Iperf!Next, Serial!Iperf!Next, Iperf!Calls, Serial!Iperf!Calls,
     Iperf!BeginStartServer, Serial!Iperf!BeginStartServer, Iperf!Room, Serial!Iperf!Room,
     Iperf!Cardinality, Serial!Iperf!Cardinality, Iperf!FreeProcs, Serial!Iperf!FreeProcs,
     Iperf!Alive, Serial!Iperf!Alive, Iperf!JobIds, Serial!Iperf!JobIds, Iperf!Begin,
     Serial!Iperf!Begin, Iperf!At, Serial!Iperf!At, Iperf!files, Serial!Iperf!files,
     Iperf!Idle, Serial!Iperf!Idle, Iperf!BeginStopServer, Serial!Iperf!BeginStopServer,
     Iperf!BeginStartClient, Serial!Iperf!BeginStartClient, Iperf!BeginStopApp,
     Serial!Iperf!BeginStopApp, Iperf!NoJob, Serial!Iperf!NoJob, Iperf!BeginStopClient,
     Serial!Iperf!BeginStopClient, Iperf!BeginInfo, Serial!Iperf!BeginInfo, Iperf!Serve,
     Serial!Iperf!Serve, Iperf!Draw, Serial!Iperf!Draw, Iperf!Raises, Serial!Iperf!Raises,
     Iperf!Look, Serial!Iperf!Look, Iperf!IsRunning, Serial!Iperf!IsRunning, Iperf!Listens,
     Serial!Iperf!Listens, Iperf!Returns, Serial!Iperf!Returns, Iperf!Goto, Serial!Iperf!Goto,
     Iperf!Spawn, Serial!Iperf!Spawn, Iperf!Free, Serial!Iperf!Free, Iperf!Wait,
     Serial!Iperf!Wait, Iperf!GiveUp, Serial!Iperf!GiveUp, Iperf!Find, Serial!Iperf!Find,
     Iperf!Handle, Serial!Iperf!Handle, Iperf!Kill, Serial!Iperf!Kill, Iperf!Killed,
     Serial!Iperf!Killed, Iperf!Pop, Serial!Iperf!Pop, Iperf!Number, Serial!Iperf!Number,
     Iperf!File, Serial!Iperf!File, Iperf!Job, Serial!Iperf!Job, Iperf!Answer,
     Serial!Iperf!Answer, Iperf!Poll, Serial!Iperf!Poll, Iperf!Popped, Serial!Iperf!Popped,
     Iperf!Collect, Serial!Iperf!Collect, Iperf!Close, Serial!Iperf!Close, Iperf!Save, Serial!Iperf!Save, Iperf!Done,
     Serial!Iperf!Done, Iperf!SweepServer, Serial!Iperf!SweepServer, Iperf!SweepJob,
     Serial!Iperf!SweepJob, Iperf!Reply, Serial!Iperf!Reply, Iperf!Live, Serial!Iperf!Live,
     Iperf!Up, Serial!Iperf!Up, Iperf!Becomes, Serial!Iperf!Becomes, Iperf!Write,
     Serial!Iperf!Write, Iperf!Exit, Serial!Iperf!Exit, Iperf!Fails, Serial!Iperf!Fails,
     Iperf!Running, Serial!Iperf!Running
<1>2. ASSUME UNCHANGED iperf PROVE UNCHANGED Serial!Iperf!vars
  BY <1>2 DEF iperf, Serial!Iperf!vars, Serial!Iperf!files
<1> QED
  BY <1>1, <1>2

LEMMA SerialIperfMeans ==
  /\ Serial!Iperf!StopStopsClient => Iperf!StopStopsClient
  /\ Serial!Iperf!DoneHasResult => Iperf!DoneHasResult
BY DEF Iperf!StopStopsClient, Serial!Iperf!StopStopsClient, Iperf!At, Serial!Iperf!At,
     Iperf!Running, Serial!Iperf!Running, Iperf!DoneHasResult, Serial!Iperf!DoneHasResult,
     Iperf!JobIds, Serial!Iperf!JobIds, Iperf!Alive, Serial!Iperf!Alive, Iperf!Written,
     Serial!Iperf!Written

LEMMA RacingIperfAssumed == Racing!Orderly
BY PartsAssumption DEF Racing!Orderly, IperfRacing!IperfAssumption, Racing!Iperf!IperfAssumption

LEMMA RacingIperfInit == ASSUME IperfRacing!Init PROVE Racing!Iperf!Init
BY DEF IperfRacing!Init, Racing!Iperf!Init, IperfRacing!JobIds, Racing!Iperf!JobIds,
     IperfRacing!NoJob, Racing!Iperf!NoJob, IperfRacing!Free, Racing!Iperf!Free,
     IperfRacing!Idle, Racing!Iperf!Idle

LEMMA RacingIperfNext ==
  ASSUME IperfRacing!Next \/ UNCHANGED iperf
  PROVE  [Racing!Iperf!Next]_Racing!Iperf!vars
<1>1. ASSUME IperfRacing!Next PROVE Racing!Iperf!Next
  BY <1>1 DEF IperfRacing!Next, Racing!Iperf!Next, IperfRacing!Calls, Racing!Iperf!Calls,
     IperfRacing!BeginStartServer, Racing!Iperf!BeginStartServer, IperfRacing!Room,
     Racing!Iperf!Room, IperfRacing!Cardinality, Racing!Iperf!Cardinality,
     IperfRacing!FreeProcs, Racing!Iperf!FreeProcs, IperfRacing!Alive, Racing!Iperf!Alive,
     IperfRacing!JobIds, Racing!Iperf!JobIds, IperfRacing!Begin, Racing!Iperf!Begin,
     IperfRacing!At, Racing!Iperf!At, IperfRacing!files, Racing!Iperf!files, IperfRacing!Idle,
     Racing!Iperf!Idle, IperfRacing!BeginStopServer, Racing!Iperf!BeginStopServer,
     IperfRacing!BeginStartClient, Racing!Iperf!BeginStartClient, IperfRacing!BeginStopApp,
     Racing!Iperf!BeginStopApp, IperfRacing!NoJob, Racing!Iperf!NoJob,
     IperfRacing!BeginStopClient, Racing!Iperf!BeginStopClient, IperfRacing!BeginInfo,
     Racing!Iperf!BeginInfo, IperfRacing!Serve, Racing!Iperf!Serve, IperfRacing!Draw,
     Racing!Iperf!Draw, IperfRacing!Raises, Racing!Iperf!Raises, IperfRacing!Look,
     Racing!Iperf!Look, IperfRacing!IsRunning, Racing!Iperf!IsRunning, IperfRacing!Listens,
     Racing!Iperf!Listens, IperfRacing!Returns, Racing!Iperf!Returns, IperfRacing!Goto,
     Racing!Iperf!Goto, IperfRacing!Spawn, Racing!Iperf!Spawn, IperfRacing!Free,
     Racing!Iperf!Free, IperfRacing!Wait, Racing!Iperf!Wait, IperfRacing!GiveUp,
     Racing!Iperf!GiveUp, IperfRacing!Find, Racing!Iperf!Find, IperfRacing!Handle,
     Racing!Iperf!Handle, IperfRacing!Kill, Racing!Iperf!Kill, IperfRacing!Killed,
     Racing!Iperf!Killed, IperfRacing!Pop, Racing!Iperf!Pop, IperfRacing!Number,
     Racing!Iperf!Number, IperfRacing!File, Racing!Iperf!File, IperfRacing!Job,
     Racing!Iperf!Job, IperfRacing!Answer, Racing!Iperf!Answer, IperfRacing!Poll,
     Racing!Iperf!Poll, IperfRacing!Popped, Racing!Iperf!Popped, IperfRacing!Collect,
     Racing!Iperf!Collect, IperfRacing!Close, Racing!Iperf!Close, IperfRacing!Save, Racing!Iperf!Save, IperfRacing!Done,
     Racing!Iperf!Done, IperfRacing!SweepServer, Racing!Iperf!SweepServer,
     IperfRacing!SweepJob, Racing!Iperf!SweepJob, IperfRacing!Reply, Racing!Iperf!Reply,
     IperfRacing!Live, Racing!Iperf!Live, IperfRacing!Up, Racing!Iperf!Up,
     IperfRacing!Becomes, Racing!Iperf!Becomes, IperfRacing!Write, Racing!Iperf!Write,
     IperfRacing!Exit, Racing!Iperf!Exit, IperfRacing!Fails, Racing!Iperf!Fails,
     IperfRacing!Running, Racing!Iperf!Running
<1>2. ASSUME UNCHANGED iperf PROVE UNCHANGED Racing!Iperf!vars
  BY <1>2 DEF iperf, Racing!Iperf!vars, Racing!Iperf!files
<1> QED
  BY <1>1, <1>2

LEMMA RacingIperfMeans ==
  /\ Racing!Iperf!StopStopsClient => IperfRacing!StopStopsClient
  /\ Racing!Iperf!DoneHasResult => IperfRacing!DoneHasResult
BY DEF IperfRacing!StopStopsClient, Racing!Iperf!StopStopsClient, IperfRacing!At, Racing!Iperf!At,
     IperfRacing!Running, Racing!Iperf!Running, IperfRacing!DoneHasResult,
     Racing!Iperf!DoneHasResult, IperfRacing!JobIds, Racing!Iperf!JobIds, IperfRacing!Alive,
     Racing!Iperf!Alive, IperfRacing!Written, Racing!Iperf!Written

(***************************************************************************)
(* Entering namespaces.                                                    *)
(***************************************************************************)
NsCall ==
  [pc : {"idle", "next", "open", "enter", "fork", "leave", "keep"},
   op : {"none", "start", "discover"}, todo : SUBSET Names, name : Names \cup {None},
   round : 0 .. 3, fd : Entering!Nets, back : Entering!Nets, in : Entering!Nets,
   got : Entering!Nets \cup {None}]

\* Where a thread is, and what it has in hand, at each point of a call.
NsGood(c) ==
  /\ c.pc \in {"idle", "next", "open", "enter", "keep"} => c.in = Root
  /\ c.pc \in {"open", "enter", "fork", "leave", "keep"} => c.name \in Names
  /\ c.pc \in {"open", "enter", "fork", "leave"} => c.op = "start" \/ c.round \in 1 .. 3
  /\ c.pc \in {"enter", "fork", "leave"} => c.back = Root
  /\ c.pc = "enter" => c.fd = c.name
  /\ c.pc \in {"fork", "leave"} => c.in = c.name
  /\ c.pc = "leave" => c.op = "start" \/ c.got \in {c.name, None}
  /\ c.pc = "keep" => c.round \in 1 .. 3 /\ c.got \in {c.name, None}

\* The main thread is busy until it serves, the others from then on.
NsTurns ==
  /\ \A t \in Entering!Threads \ {Main} : threads[t].pc # "idle" => booted
  /\ booted => threads[Main].pc = "idle"

\* What was started and read.
NsKept ==
  /\ \A p \in started : p.in = p.name
  /\ \A n \in Names : nsmap[n] \in {n, None} /\ ifmap[n] \in {n, None}

NsInv == Entering!TypeOK /\ (\A t \in Entering!Threads : NsGood(threads[t])) /\ NsTurns /\ NsKept

-----------------------------------------------------------------------------
LEMMA NsTypeOfCalls == Entering!TypeOK => threads \in [Entering!Threads -> NsCall]
BY DEF Entering!TypeOK, NsCall

\* The steps of a call that has its turn.
LEMMA NsCallStep ==
  ASSUME NsInv, NEW t \in Entering!Threads, NEW c \in NsCall, NsGood(c),
         threads' = [threads EXCEPT ![t] = c],
         c.pc = "idle" \/ (booted <=> t # Main),
         UNCHANGED <<names, booted>>, NsKept',
         started' \subseteq [name : Names, in : Entering!Nets],
         nsmap' \in [Names -> Entering!Nets \cup {None}],
         ifmap' \in [Names -> Entering!Nets \cup {None}]
  PROVE  NsInv'
<1>1. threads \in [Entering!Threads -> NsCall]
  BY NsTypeOfCalls DEF NsInv
<1>2. /\ threads' \in [Entering!Threads -> NsCall] /\ threads'[t] = c
      /\ \A u \in Entering!Threads \ {t} : threads'[u] = threads[u]
  BY <1>1
<1>3. Entering!TypeOK'
  BY <1>2 DEF NsInv, Entering!TypeOK, NsCall
<1>4. (\A u \in Entering!Threads : NsGood(threads[u]))'
  <2> SUFFICES ASSUME NEW u \in Entering!Threads PROVE NsGood(threads'[u])
    OBVIOUS
  <2>1. CASE u = t
    BY <2>1, <1>2
  <2>2. CASE u # t
    BY <2>2, <1>2 DEF NsInv
  <2>3. QED
    BY <2>1, <2>2
<1>5. NsTurns'
  <2>1. ASSUME NEW u \in Entering!Threads \ {Main}, threads'[u].pc # "idle" PROVE booted'
    BY <2>1, <1>2 DEF NsInv, NsTurns
  <2>2. ASSUME booted' PROVE threads'[Main].pc = "idle"
    BY <2>2, <1>2 DEF NsInv, NsTurns, Entering!Threads
  <2>3. QED
    BY <2>1, <2>2 DEF NsTurns
<1>6. QED
  BY <1>3, <1>4, <1>5 DEF NsInv

\* A call that goes on, ends or begins has its turn.
LEMMA NsHasTurn ==
  ASSUME NsInv, NEW t \in Entering!Threads, threads[t].pc # "idle" \/ Entering!MayServe(t)
  PROVE  booted <=> t # Main
<1>1. CASE threads[t].pc # "idle"
  BY <1>1 DEF NsInv, NsTurns
<1>2. CASE Entering!MayServe(t)
  <2>1. booted = (t # Main)
    BY <1>2 DEF Entering!MayServe
  <2>2. QED
    BY <2>1, Zenon
<1>3. QED
  BY <1>1, <1>2

\* Whoever opens the way back finds the main thread where the host is.
LEMMA NsMainIsHome ==
  ASSUME NsInv, NEW t \in Entering!Threads, threads[t].pc = "open"
  PROVE  threads[Main].in = Root
<1>1. CASE t = Main
  BY <1>1 DEF NsInv, NsGood
<1>2. CASE t # Main
  <2>1. booted
    BY <1>2 DEF NsInv, NsTurns
  <2>2. threads[Main].pc = "idle"
    BY <2>1 DEF NsInv, NsTurns
  <2>3. QED
    BY <2>2 DEF NsInv, NsGood, Entering!Threads
<1>3. QED
  BY <1>1, <1>2

LEMMA NsRestGood == Entering!Rest \in NsCall /\ NsGood(Entering!Rest)
BY DEF Entering!Rest, NsCall, NsGood, Entering!Nets

LEMMA NsOverGood ==
  ASSUME NsInv, NEW t \in Entering!Threads, threads[t].in = Root
  PROVE  Entering!Over(t) \in NsCall /\ NsGood(Entering!Over(t)) /\ Entering!Over(t).pc = "idle"
<1>1. Entering!Over(t) = Entering!Rest
  BY DEF Entering!Over, Entering!Rest
<1>2. QED
  BY <1>1, NsRestGood DEF Entering!Rest

-----------------------------------------------------------------------------
(* One lemma for each step of a call.                                      *)

LEMMA NsStartInKeeps ==
  ASSUME NsInv, NEW t \in Entering!Threads, NEW n \in Names, Entering!StartIn(t, n)
  PROVE  NsInv'
<1> DEFINE c1 == [Entering!Over(t) EXCEPT !.pc = "open"]
           c2 == [c1 EXCEPT !.op = "start"]
           c  == [c2 EXCEPT !.name = n]
<1>1. threads[t].in = Root
  BY DEF Entering!StartIn, Entering!MayServe, Entering!At, NsInv, NsGood
<1>2. c1 \in NsCall /\ c1.pc = "open" /\ c1.in = Root
  BY <1>1, NsOverGood DEF Entering!Over, Entering!Rest, NsCall
<1>3. c2 \in NsCall /\ c2.pc = "open" /\ c2.in = Root /\ c2.op = "start"
  <2> HIDE DEF c1
  <2> QED BY <1>2 DEF NsCall
<1>4. c \in NsCall /\ c.pc = "open" /\ c.in = Root /\ c.op = "start" /\ c.name = n
  <2> HIDE DEF c2
  <2> QED BY <1>3 DEF NsCall
<1>5. threads' = [threads EXCEPT ![t] = c]
  BY Zenon DEF Entering!StartIn, Entering!Begin
<1> HIDE DEF c
<1>6. NsGood(c)
  BY <1>4 DEF NsGood
<1>7. QED
  BY <1>4, <1>5, <1>6, NsHasTurn, NsCallStep DEF Entering!StartIn, Entering!Begin, NsKept, NsInv,
     Entering!TypeOK

LEMMA NsDiscoverKeeps ==
  ASSUME NsInv, NEW t \in Entering!Threads, Entering!Discover(t)
  PROVE  NsInv'
<1> DEFINE c1 == [Entering!Over(t) EXCEPT !.pc = "next"]
           c2 == [c1 EXCEPT !.op = "discover"]
           c  == [c2 EXCEPT !.todo = names]
<1>1. threads[t].in = Root
  BY DEF Entering!Discover, Entering!MayServe, Entering!At, NsInv, NsGood
<1>2. c1 \in NsCall /\ c1.pc = "next" /\ c1.in = Root
  BY <1>1, NsOverGood DEF Entering!Over, Entering!Rest, NsCall
<1>3. c2 \in NsCall /\ c2.pc = "next" /\ c2.in = Root
  <2> HIDE DEF c1
  <2> QED BY <1>2 DEF NsCall
<1>4. c \in NsCall /\ c.pc = "next" /\ c.in = Root
  <2> HIDE DEF c2
  <2> QED BY <1>3 DEF NsCall, NsInv, Entering!TypeOK
<1>5. threads' = [threads EXCEPT ![t] = c]
  BY Zenon DEF Entering!Discover, Entering!Begin
<1> HIDE DEF c
<1>6. NsGood(c)
  BY <1>4 DEF NsGood
<1>7. QED
  BY <1>4, <1>5, <1>6, NsHasTurn, NsCallStep DEF Entering!Discover, Entering!Begin, NsKept, NsInv,
     Entering!TypeOK

\* A thread whose call is over, and which touched nothing else with this step.
LEMMA NsOverKeeps ==
  ASSUME NsInv, NEW t \in Entering!Threads, threads[t].in = Root,
         threads' = [threads EXCEPT ![t] = Entering!Over(t)],
         UNCHANGED <<names, booted, started, nsmap, ifmap>>
  PROVE  NsInv'
BY NsOverGood, NsCallStep DEF NsKept, NsInv, Entering!TypeOK

LEMMA NsNextNameKeeps ==
  ASSUME NsInv, NEW t \in Entering!Threads, Entering!NextName(t)
  PROVE  NsInv'
<1>1. threads[t] \in NsCall /\ threads[t].in = Root /\ threads \in [Entering!Threads -> NsCall]
  BY NsTypeOfCalls DEF Entering!NextName, Entering!At, NsInv, NsGood
<1>2. CASE threads' = [threads EXCEPT ![t] = Entering!Over(t)]
  BY <1>1, <1>2, NsOverKeeps DEF Entering!NextName
<1>3. ASSUME NEW n \in threads[t].todo,
             threads' = [threads EXCEPT ![t].todo = @ \ {n}, ![t].name = n, ![t].round = 1, ![t].pc = "open"]
      PROVE  NsInv'
  <2> DEFINE c1 == [threads[t] EXCEPT !.todo = @ \ {n}]
             c2 == [c1 EXCEPT !.name = n]
             c3 == [c2 EXCEPT !.round = 1]
             c  == [c3 EXCEPT !.pc = "open"]
  <2>1. c1 \in NsCall /\ c1.in = Root /\ n \in Names
    BY <1>1 DEF NsCall
  <2>2. c2 \in NsCall /\ c2.in = Root /\ c2.name = n
    <3> HIDE DEF c1
    <3> QED BY <2>1 DEF NsCall
  <2>3. c3 \in NsCall /\ c3.in = Root /\ c3.name = n /\ c3.round = 1
    <3> HIDE DEF c2
    <3> QED BY <2>2 DEF NsCall
  <2>4. c \in NsCall /\ c.in = Root /\ c.name = n /\ c.round = 1 /\ c.pc = "open"
    <3> HIDE DEF c3
    <3> QED BY <2>3 DEF NsCall
  <2>5. threads' = [threads EXCEPT ![t] = c]
    BY <1>1, <1>3, Zenon
  <2> HIDE DEF c
  <2>6. NsGood(c)
    BY <2>1, <2>4 DEF NsGood
  <2>7. QED
    BY <2>4, <2>5, <2>6, NsHasTurn, NsCallStep DEF Entering!NextName, Entering!At, NsKept, NsInv,
       Entering!TypeOK
<1>4. QED
  BY <1>2, <1>3 DEF Entering!NextName

LEMMA NsOpenKeeps ==
  ASSUME NsInv, NEW t \in Entering!Threads, Entering!Open(t)
  PROVE  NsInv'
<1>1. /\ threads[t] \in NsCall /\ threads[t].in = Root
      /\ threads \in [Entering!Threads -> NsCall] /\ threads[t].pc = "open"
  BY NsTypeOfCalls DEF Entering!Open, Entering!At, NsInv, NsGood
<1>2. CASE threads[t].name \notin names
  <2>1. threads' = [threads EXCEPT ![t] = Entering!Over(t)]
    BY <1>2, Zenon DEF Entering!Open
  <2>2. QED
    BY <1>1, <2>1, NsOverKeeps DEF Entering!Open
<1>3. CASE threads[t].name \in names
  <2> DEFINE c1 == [threads[t] EXCEPT !.back = threads[Main].in]
             c2 == [c1 EXCEPT !.fd = threads[t].name]
             c  == [c2 EXCEPT !.pc = "enter"]
  <2>1. /\ c1 \in NsCall /\ c1.in = Root /\ c1.back = Root
        /\ c1.name = threads[t].name /\ c1.op = threads[t].op /\ c1.round = threads[t].round
    BY <1>1, NsMainIsHome DEF NsCall, Entering!Nets
  <2>2. /\ c2 \in NsCall /\ c2.in = Root /\ c2.back = Root /\ c2.fd = threads[t].name
        /\ c2.name = threads[t].name /\ c2.op = threads[t].op /\ c2.round = threads[t].round
    <3>1. threads[t].name \in Entering!Nets
      BY <1>1 DEF NsInv, NsGood, Entering!Nets
    <3> HIDE DEF c1
    <3>2. QED
      BY <2>1, <3>1 DEF NsCall
  <2>3. /\ c \in NsCall /\ c.in = Root /\ c.back = Root /\ c.fd = threads[t].name /\ c.pc = "enter"
        /\ c.name = threads[t].name /\ c.op = threads[t].op /\ c.round = threads[t].round
    <3> HIDE DEF c2
    <3> QED BY <2>2 DEF NsCall
  <2>4. threads' = [threads EXCEPT ![t] = c]
    <3>1. threads' = [threads EXCEPT ![t].back = threads[Main].in, ![t].fd = threads[t].name, ![t].pc = "enter"]
      BY <1>3, Zenon DEF Entering!Open
    <3>2. QED
      BY <1>1, <3>1, Zenon
  <2> HIDE DEF c
  <2>5. NsGood(c)
    BY <1>1, <2>3 DEF NsInv, NsGood
  <2>6. QED
    BY <1>1, <2>3, <2>4, <2>5, NsHasTurn, NsCallStep DEF Entering!Open, NsKept, NsInv,
       Entering!TypeOK
<1>4. QED
  BY <1>2, <1>3

LEMMA NsEnterKeeps ==
  ASSUME NsInv, NEW t \in Entering!Threads, Entering!Enter(t)
  PROVE  NsInv'
<1>1. threads[t] \in NsCall /\ threads \in [Entering!Threads -> NsCall] /\ threads[t].pc = "enter"
  BY NsTypeOfCalls DEF Entering!Enter, Entering!At, NsInv
<1> DEFINE c1 == [threads[t] EXCEPT !.in = threads[t].fd]
           c  == [c1 EXCEPT !.pc = "fork"]
<1>2. /\ c1 \in NsCall /\ c1.in = threads[t].fd /\ c1.back = threads[t].back
      /\ c1.name = threads[t].name /\ c1.op = threads[t].op /\ c1.round = threads[t].round
  BY <1>1 DEF NsCall
<1>3. /\ c \in NsCall /\ c.in = threads[t].fd /\ c.back = threads[t].back /\ c.pc = "fork"
      /\ c.name = threads[t].name /\ c.op = threads[t].op /\ c.round = threads[t].round
  <2> HIDE DEF c1
  <2> QED BY <1>2 DEF NsCall
<1>4. threads' = [threads EXCEPT ![t] = c]
  BY <1>1, Zenon DEF Entering!Enter
<1> HIDE DEF c
<1>5. NsGood(c)
  BY <1>1, <1>3 DEF NsInv, NsGood
<1>6. QED
  BY <1>1, <1>3, <1>4, <1>5, NsHasTurn, NsCallStep DEF Entering!Enter, NsKept, NsInv,
     Entering!TypeOK

LEMMA NsForkKeeps ==
  ASSUME NsInv, NEW t \in Entering!Threads, Entering!Fork(t)
  PROVE  NsInv'
<1>1. /\ threads[t] \in NsCall /\ threads \in [Entering!Threads -> NsCall] /\ threads[t].pc = "fork"
      /\ threads[t].in = threads[t].name /\ threads[t].name \in Names /\ threads[t].back = Root
  BY NsTypeOfCalls DEF Entering!Fork, Entering!At, NsInv, NsGood
<1>2. CASE threads[t].op = "start"
  <2> DEFINE c == [threads[t] EXCEPT !.pc = "leave"]
             p == [name |-> threads[t].name, in |-> threads[t].in]
  <2>1. /\ c \in NsCall /\ c.in = threads[t].in /\ c.back = threads[t].back /\ c.pc = "leave"
        /\ c.name = threads[t].name /\ c.op = "start"
    BY <1>1, <1>2 DEF NsCall
  <2>2. threads' = [threads EXCEPT ![t] = c] /\ started' = started \cup {p}
    BY <1>1, <1>2, Zenon DEF Entering!Fork
  <2>3. p \in [name : Names, in : Entering!Nets] /\ p.in = p.name
    BY <1>1 DEF Entering!Nets
  <2> HIDE DEF c, p
  <2>4. NsGood(c)
    BY <1>1, <2>1 DEF NsGood
  <2>5. NsKept'
    BY <1>2, <2>2, <2>3 DEF Entering!Fork, NsKept, NsInv
  <2>6. QED
    BY <1>1, <1>2, <2>1, <2>2, <2>3, <2>4, <2>5, NsHasTurn, NsCallStep DEF Entering!Fork, NsInv,
       Entering!TypeOK
<1>3. CASE threads[t].op # "start"
  <2>1. PICK got \in {threads[t].in} \cup {x \in {None} : "child" \in {"remove", "child"}} :
          threads' = [threads EXCEPT ![t].got = got, ![t].pc = "leave"]
    BY <1>3, Zenon DEF Entering!Fork
  <2> DEFINE c1 == [threads[t] EXCEPT !.got = got]
             c  == [c1 EXCEPT !.pc = "leave"]
  <2>2. got \in {threads[t].name, None}
    BY <1>1
  <2>3. /\ c1 \in NsCall /\ c1.in = threads[t].in /\ c1.back = threads[t].back /\ c1.got = got
        /\ c1.name = threads[t].name /\ c1.op = threads[t].op /\ c1.round = threads[t].round
    BY <1>1, <2>2 DEF NsCall, Entering!Nets
  <2>4. /\ c \in NsCall /\ c.in = threads[t].in /\ c.back = threads[t].back /\ c.got = got
        /\ c.pc = "leave"
        /\ c.name = threads[t].name /\ c.op = threads[t].op /\ c.round = threads[t].round
    <3> HIDE DEF c1
    <3> QED BY <2>3 DEF NsCall
  <2>5. threads' = [threads EXCEPT ![t] = c]
    BY <1>1, <2>1, Zenon
  <2> HIDE DEF c
  <2>6. NsGood(c)
    BY <1>1, <2>2, <2>4 DEF NsGood, NsInv
  <2>7. QED
    BY <1>1, <1>3, <2>4, <2>5, <2>6, NsHasTurn, NsCallStep DEF Entering!Fork, NsKept, NsInv,
       Entering!TypeOK
<1>4. QED
  BY <1>2, <1>3

LEMMA NsLeaveKeeps ==
  ASSUME NsInv, NEW t \in Entering!Threads, Entering!Leave(t)
  PROVE  NsInv'
<1>1. /\ threads[t] \in NsCall /\ threads \in [Entering!Threads -> NsCall]
      /\ threads[t].pc = "leave"
      /\ threads[t].name \in Names /\ threads[t].back = Root
  BY NsTypeOfCalls DEF Entering!Leave, Entering!At, NsInv, NsGood
<1>2. CASE threads[t].op = "start"
  <2> DEFINE c == [Entering!Rest EXCEPT !.in = threads[t].back]
  <2>1. c = Entering!Rest
    BY <1>1 DEF Entering!Rest
  <2>2. threads' = [threads EXCEPT ![t] = c]
    BY <1>1, <1>2, Zenon DEF Entering!Leave
  <2>3. c \in NsCall /\ NsGood(c) /\ c.pc = "idle"
    BY <2>1, NsRestGood DEF Entering!Rest
  <2> HIDE DEF c
  <2>4. QED
    BY <2>2, <2>3, NsCallStep DEF Entering!Leave, NsKept, NsInv, Entering!TypeOK
<1>3. CASE threads[t].op # "start"
  <2> DEFINE c1 == [threads[t] EXCEPT !.in = threads[t].back]
             c2 == [c1 EXCEPT !.fd = Root]
             c3 == [c2 EXCEPT !.back = Root]
             c  == [c3 EXCEPT !.pc = "keep"]
  <2>1. /\ c1 \in NsCall /\ c1.in = Root /\ c1.got = threads[t].got
        /\ c1.name = threads[t].name /\ c1.round = threads[t].round
    BY <1>1 DEF NsCall
  <2>2. /\ c2 \in NsCall /\ c2.in = Root /\ c2.got = threads[t].got
        /\ c2.name = threads[t].name /\ c2.round = threads[t].round
    <3> HIDE DEF c1
    <3> QED BY <2>1 DEF NsCall, Entering!Nets
  <2>3. /\ c3 \in NsCall /\ c3.in = Root /\ c3.got = threads[t].got
        /\ c3.name = threads[t].name /\ c3.round = threads[t].round
    <3> HIDE DEF c2
    <3> QED BY <2>2 DEF NsCall, Entering!Nets
  <2>4. /\ c \in NsCall /\ c.in = Root /\ c.got = threads[t].got /\ c.pc = "keep"
        /\ c.name = threads[t].name /\ c.round = threads[t].round
    <3> HIDE DEF c3
    <3> QED BY <2>3 DEF NsCall
  <2>5. threads' = [threads EXCEPT ![t] = c]
    BY <1>1, <1>3, Zenon DEF Entering!Leave
  <2> HIDE DEF c
  <2>6. NsGood(c)
    BY <1>1, <1>3, <2>4 DEF NsGood, NsInv
  <2>7. QED
    BY <1>1, <2>4, <2>5, <2>6, NsHasTurn, NsCallStep DEF Entering!Leave, NsKept, NsInv,
       Entering!TypeOK
<1>4. QED
  BY <1>2, <1>3

\* A reading is kept under the name it was made for.
LEMMA NsReadingKept ==
  ASSUME NsInv, NEW n \in Names, NEW got \in {n, None}, NEW map \in {nsmap, ifmap}
  PROVE  /\ [map EXCEPT ![n] = got] \in [Names -> Entering!Nets \cup {None}]
         /\ \A m \in Names : [map EXCEPT ![n] = got][m] \in {m, None}
<1>1. map \in [Names -> Entering!Nets \cup {None}] /\ \A m \in Names : map[m] \in {m, None}
  BY DEF NsInv, Entering!TypeOK, NsKept
<1>2. QED
  BY <1>1 DEF Entering!Nets

LEMMA NsKeepKeeps ==
  ASSUME NsInv, NEW t \in Entering!Threads, Entering!Keep(t)
  PROVE  NsInv'
<1>1. /\ threads[t] \in NsCall /\ threads \in [Entering!Threads -> NsCall]
      /\ threads[t].pc = "keep" /\ threads[t].in = Root
      /\ threads[t].name \in Names /\ threads[t].round \in 1 .. 3
      /\ threads[t].got \in {threads[t].name, None}
  BY NsTypeOfCalls DEF Entering!Keep, Entering!At, NsInv, NsGood
<1> DEFINE n  == threads[t].name
           a1 == [threads[t] EXCEPT !.got = None]
           a2 == [a1 EXCEPT !.pc = "open"]
           again == [a2 EXCEPT !.round = @ + 1]
           b1 == [a1 EXCEPT !.pc = "next"]
           b2 == [b1 EXCEPT !.round = 0]
           next == [b2 EXCEPT !.name = None]
           into(map) == [map EXCEPT ![n] = threads[t].got]
           filed == nsmap' \in {nsmap, into(nsmap)} /\ ifmap' \in {ifmap, into(ifmap)}
<1>2. a1 \in NsCall /\ a1.in = Root /\ a1.name = n /\ a1.round = threads[t].round
  BY <1>1 DEF NsCall
<1>3. threads[t].round # 3 => again \in NsCall /\ NsGood(again)
  <2>1. /\ a2 \in NsCall /\ a2.in = Root /\ a2.name = n /\ a2.round = threads[t].round
        /\ a2.pc = "open"
    <3> HIDE DEF a1, n
    <3> QED BY <1>2 DEF NsCall
  <2>2. ASSUME threads[t].round # 3
        PROVE  /\ again \in NsCall /\ again.in = Root /\ again.name = n /\ again.pc = "open"
               /\ again.round \in 1 .. 3
    <3> HIDE DEF a2, n
    <3> QED BY <1>1, <2>1, <2>2 DEF NsCall
  <2> HIDE DEF again
  <2>3. QED
    BY <1>1, <2>2 DEF NsGood
<1>4. next \in NsCall /\ NsGood(next)
  <2>1. b1 \in NsCall /\ b1.in = Root /\ b1.pc = "next"
    <3> HIDE DEF a1
    <3> QED BY <1>2 DEF NsCall
  <2>2. b2 \in NsCall /\ b2.in = Root /\ b2.pc = "next"
    <3> HIDE DEF b1
    <3> QED BY <2>1 DEF NsCall
  <2>3. next \in NsCall /\ next.in = Root /\ next.pc = "next"
    <3> HIDE DEF b2
    <3> QED BY <2>2 DEF NsCall
  <2> HIDE DEF next
  <2>4. QED
    BY <2>3 DEF NsGood
<1>5. UNCHANGED <<names, booted, started>>
  BY DEF Entering!Keep
<1>6. CASE threads' = [threads EXCEPT ![t] = Entering!Over(t)] /\ UNCHANGED <<nsmap, ifmap>>
  BY <1>1, <1>5, <1>6, NsOverKeeps
<1>7. ASSUME filed, NEW c \in NsCall, NsGood(c), threads' = [threads EXCEPT ![t] = c] PROVE NsInv'
  <2>1. /\ nsmap' \in [Names -> Entering!Nets \cup {None}]
        /\ ifmap' \in [Names -> Entering!Nets \cup {None}]
        /\ \A m \in Names : nsmap'[m] \in {m, None} /\ ifmap'[m] \in {m, None}
    <3>1. /\ into(nsmap) \in [Names -> Entering!Nets \cup {None}]
          /\ \A m \in Names : into(nsmap)[m] \in {m, None}
      BY <1>1, NsReadingKept
    <3>2. /\ into(ifmap) \in [Names -> Entering!Nets \cup {None}]
          /\ \A m \in Names : into(ifmap)[m] \in {m, None}
      BY <1>1, NsReadingKept
    <3> HIDE DEF into
    <3>3. QED
      BY <3>1, <3>2, <1>7 DEF NsInv, Entering!TypeOK, NsKept
  <2>2. QED
    BY <1>1, <1>5, <1>7, <2>1, NsHasTurn, NsCallStep DEF NsKept, NsInv, Entering!TypeOK
<1>8. CASE /\ threads[t].round \in {1, 2} /\ threads' = [threads EXCEPT ![t] = again]
           /\ nsmap' = (IF threads[t].round = 1 THEN into(nsmap) ELSE nsmap) /\ UNCHANGED ifmap
  <2> HIDE DEF again, into, n
  <2>1. filed /\ again \in NsCall /\ NsGood(again)
    BY <1>3, <1>8
  <2>2. QED
    BY <1>7, <1>8, <2>1
<1>9. CASE threads' = [threads EXCEPT ![t] = next] /\ ifmap' = into(ifmap) /\ UNCHANGED nsmap
  <2> HIDE DEF next, into, n
  <2> QED BY <1>4, <1>7, <1>9
<1>10. QED
  BY <1>6, <1>8, <1>9, Zenon DEF Entering!Keep

-----------------------------------------------------------------------------
LEMMA NsInitHolds == Entering!Init => NsInv
<1> SUFFICES ASSUME Entering!Init PROVE NsInv
  OBVIOUS
<1>1. \A t \in Entering!Threads : threads[t] = Entering!Rest
  BY DEF Entering!Init
<1>2. Entering!TypeOK
  BY NsRestGood DEF Entering!Init, Entering!TypeOK, NsCall
<1>3. NsTurns
  BY <1>1 DEF Entering!Init, NsTurns, Entering!Rest, Entering!Threads
<1>4. QED
  BY <1>1, <1>2, <1>3, NsRestGood DEF Entering!Init, NsInv, NsKept

\* The steps that are not of a call: the main thread begins to serve, and
\* namespaces come and go.
LEMMA NsOtherKeeps ==
  ASSUME NsInv, Entering!Boot \/ \E n \in Names : Entering!Make(n) \/ Entering!Remove(n)
  PROVE  NsInv'
<1>1. UNCHANGED <<threads, started, nsmap, ifmap>> /\ names' \subseteq Names
  BY DEF Entering!Boot, Entering!Make, Entering!Remove, NsInv, Entering!TypeOK
<1>2. booted' \in BOOLEAN /\ NsTurns'
  <2>1. CASE Entering!Boot
    BY <2>1 DEF Entering!Boot, Entering!At, NsTurns
  <2>2. CASE UNCHANGED booted
    BY <1>1, <2>2 DEF NsInv, Entering!TypeOK, NsTurns
  <2>3. QED
    BY <2>1, <2>2 DEF Entering!Make, Entering!Remove
<1>3. Entering!TypeOK'
  BY <1>1, <1>2 DEF NsInv, Entering!TypeOK
<1>4. QED
  BY <1>1, <1>2, <1>3 DEF NsInv, NsKept

LEMMA NsNextKeeps == NsInv /\ [Entering!Next]_Entering!vars => NsInv'
<1> SUFFICES ASSUME NsInv, [Entering!Next]_Entering!vars PROVE NsInv'
  OBVIOUS
<1>1. ASSUME NEW t \in Entering!Threads, Entering!Step(t) PROVE NsInv'
  BY <1>1, NsNextNameKeeps, NsOpenKeeps, NsEnterKeeps, NsForkKeeps, NsLeaveKeeps, NsKeepKeeps
     DEF Entering!Step
<1>2. CASE UNCHANGED Entering!vars
  BY <1>2 DEF Entering!vars, NsInv, Entering!TypeOK, NsTurns, NsKept
<1>3. QED
  BY <1>1, <1>2, NsStartInKeeps, NsDiscoverKeeps, NsOtherKeeps DEF Entering!Next

(***************************************************************************)
(* The agents in namespace mode.                                           *)
(***************************************************************************)
\* An agent knows nothing, or what it has found of namespaces there were.
Knows == know = [k \in Agents!Kinds |-> know[k]]

\* Without removals what runs is in a namespace that is there, and that the agent
\* has if it has any.
AtHome ==
  "remove" \notin setting.events =>
    \A k \in Agents!Kinds, n \in Names : Agents!Running(k, n) =>
      /\ spaces[n] # "absent"
      /\ know[k] # None => n \in DOMAIN know[k]

\* What has existed since the rediscovery began is there, and the server agent, when
\* it has looked, has found it.
Looked ==
  /\ stage # "idle" => since \subseteq Agents!Existing
  /\ stage \in {"between", "client"} => since \subseteq DOMAIN know["server"]

AgentsInv ==
  Agents!TypeOK /\ Knows /\ AtHome /\ Looked /\ Agents!StopsAll /\ Agents!RediscoverFinds

LEMMA SettingKept ==
  ASSUME Agents!TypeOK
  PROVE  setting.names \subseteq Names
BY PartsAssumption DEF Agents!TypeOK, Agents!NamespaceAssumption

\* Processes are started where an agent has found a namespace that can be entered.
LEMMA LaunchKeeps ==
  ASSUME AgentsInv, NEW k \in Agents!Kinds, NEW ns \in SUBSET Names,
         workers' = Agents!Launched(k, ns),
         \A m \in ns : know[k] # None /\ m \in DOMAIN know[k] /\ (spaces[m] # "absent" \/ Agents!Running(k, m)),
         rules' \in [Agents!Kinds -> SUBSET Names],
         last'.op \in {"start", "add"}, stray' \subseteq Names,
         UNCHANGED <<setting, spaces, know, stage, since>>
  PROVE  AgentsInv'
<1> DEFINE w == [n \in Names |-> IF n \in ns THEN "running" ELSE workers[k][n]]
<1>1. workers \in [Agents!Kinds -> [Names -> {"none", "gone", "running", "ended"}]]
  BY DEF AgentsInv, Agents!TypeOK
<1>2. workers' = [workers EXCEPT ![k] = w]
  BY <1>1 DEF Agents!Launched
<1>3. w \in [Names -> {"none", "gone", "running", "ended"}]
  BY <1>1
<1>4. /\ workers' \in [Agents!Kinds -> [Names -> {"none", "gone", "running", "ended"}]]
      /\ workers'[k] = w /\ \A j \in Agents!Kinds \ {k} : workers'[j] = workers[j]
  <2> HIDE DEF w
  <2> QED BY <1>1, <1>2, <1>3
<1>5. Agents!TypeOK' /\ Knows' /\ Looked'
  BY <1>4 DEF AgentsInv, Agents!TypeOK, Knows, Looked, Agents!Existing
<1>6. AtHome'
  <2> SUFFICES ASSUME "remove" \notin setting.events, NEW j \in Agents!Kinds, NEW n \in Names,
                      Agents!Running(j, n)'
               PROVE  spaces[n] # "absent" /\ (know[j] # None => n \in DOMAIN know[j])
    BY DEF AtHome
  <2>1. Agents!Running(j, n) \/ (j = k /\ n \in ns)
    BY <1>4 DEF Agents!Running
  <2>2. QED
    BY <2>1 DEF AgentsInv, AtHome
<1>7. Agents!StopsAll' /\ Agents!RediscoverFinds'
  BY DEF Agents!StopsAll, Agents!StopReturned, Agents!RediscoverFinds
<1>8. QED
  BY <1>5, <1>6, <1>7 DEF AgentsInv

LEMMA StartKeeps ==
  ASSUME AgentsInv, NEW k \in Agents!Kinds, NEW n \in setting.names \cup {None}, Agents!Start(k, n)
  PROVE  AgentsInv'
<1> DEFINE good == {m \in Agents!Listed(k, n) \cap rules[k] : Agents!Iterable(k, m) /\ Agents!Enterable(m)}
<1>1. PICK ns \in SUBSET good : workers' = Agents!Launched(k, ns) /\ stray' \subseteq stray \cup good
  <2>1. CASE workers' = Agents!Launched(k, good) /\ UNCHANGED stray
    BY <2>1
  <2>2. ASSUME NEW ms \in SUBSET good, NEW hs \in {{}} \cup {{m} : m \in ms \ Agents!Managed(k)},
               workers' = Agents!Launched(k, ms \ hs), stray' = stray \cup hs
        PROVE  \E ns \in SUBSET good :
                 workers' = Agents!Launched(k, ns) /\ stray' \subseteq stray \cup good
    <3>1. ms \ hs \in SUBSET good /\ hs \subseteq good
      BY <2>2
    <3>2. QED
      BY <2>2, <3>1
  <2>3. QED
    BY <2>1, <2>2 DEF Agents!Start
<1>2. /\ UNCHANGED <<setting, spaces, know, rules, stage, since>>
      /\ last'.op \in {"start", "add"}
  BY DEF Agents!Start, Agents!Called
<1>3. rules' \in [Agents!Kinds -> SUBSET Names]
  BY <1>2 DEF AgentsInv, Agents!TypeOK
<1>4. good \in SUBSET Names
  BY DEF AgentsInv, Agents!TypeOK
<1>5. \A m \in ns : know[k] # None /\ m \in DOMAIN know[k] /\ spaces[m] # "absent"
  BY DEF Agents!Iterable, Agents!Enterable
<1>6. stray' \subseteq Names
  BY <1>1, <1>4 DEF AgentsInv, Agents!TypeOK
<1>7. QED
  BY <1>1, <1>2, <1>3, <1>4, <1>5, <1>6, LaunchKeeps

\* A step that starts nothing and leaves what the agents have found alone.
LEMMA EndKeeps ==
  ASSUME AgentsInv, workers' \in [Agents!Kinds -> [Names -> {"none", "gone", "running", "ended"}]],
         \A k \in Agents!Kinds, n \in Names : Agents!Running(k, n)' => Agents!Running(k, n),
         UNCHANGED <<setting, spaces, know, rules, stage, since>>, stray' \subseteq Names,
         last'.op \notin {"rediscover"}, Agents!StopsAll'
  PROVE  AgentsInv'
<1>1. Agents!TypeOK' /\ Knows' /\ Looked'
  BY DEF AgentsInv, Agents!TypeOK, Knows, Looked, Agents!Existing
<1>2. AtHome'
  BY DEF AgentsInv, AtHome
<1>3. Agents!RediscoverFinds'
  BY DEF Agents!RediscoverFinds
<1>4. QED
  BY <1>1, <1>2, <1>3 DEF AgentsInv

LEMMA AddKeeps ==
  ASSUME AgentsInv, NEW n \in setting.names \cup {None}, NEW m \in setting.names, Agents!Add(n, m)
  PROVE  AgentsInv'
<1>1. m \in Names /\ "server" \in Agents!Kinds /\ stray \subseteq Names
  BY SettingKept DEF AgentsInv, Agents!Kinds, Agents!TypeOK
<1>2. UNCHANGED <<setting, spaces, know, stage, since>> /\ last'.op = "add"
  BY DEF Agents!Add, Agents!Called
<1>3. ASSUME Agents!Iterable("server", m), Agents!Enterable(m) \/ Agents!Running("server", m),
             NEW ms \in SUBSET {m}, workers' = Agents!Launched("server", ms),
             \/ rules' = rules
             \/ rules' = [rules EXCEPT !["server"] = @ \cup {m}],
             stray' \subseteq stray \cup {m}
      PROVE  AgentsInv'
  <2>1. rules' \in [Agents!Kinds -> SUBSET Names]
    BY <1>1, <1>3 DEF AgentsInv, Agents!TypeOK
  <2>2. ms \in SUBSET Names /\ stray' \subseteq Names
    BY <1>1, <1>3
  <2>3. \A o \in ms : /\ know["server"] # None /\ o \in DOMAIN know["server"]
                      /\ spaces[o] # "absent" \/ Agents!Running("server", o)
    BY <1>3 DEF Agents!Iterable, Agents!Enterable
  <2>4. QED
    BY <1>1, <1>2, <1>3, <2>1, <2>2, <2>3, LaunchKeeps
<1>4. CASE UNCHANGED <<workers, rules, stray>>
  <2>1. Agents!StopsAll'
    BY <1>2 DEF Agents!StopsAll, Agents!StopReturned
  <2>2. QED
    BY <1>1, <1>2, <1>4, <2>1, EndKeeps DEF AgentsInv, Agents!TypeOK, Agents!Running
<1> DEFINE can == Agents!Iterable("server", m) /\ (Agents!Enterable(m) \/ Agents!Running("server", m))
           lost == {m} \ Agents!Managed("server")
<1>5. \/ /\ can /\ workers' = Agents!Launched("server", {m}) /\ stray' = stray
         /\ rules' = [rules EXCEPT !["server"] = @ \cup {m}]
      \/ /\ can /\ workers' = Agents!Launched("server", {m} \ lost) /\ stray' = stray \cup lost
         /\ rules' = rules
      \/ UNCHANGED <<workers, rules, stray>>
  BY DEF Agents!Add
<1>6. QED
  BY <1>3, <1>4, <1>5

\* What StopIn leaves running was not to be stopped.
LEMMA StopInEnds ==
  ASSUME AgentsInv, NEW k \in Agents!Kinds, NEW ns \in SUBSET Names, NEW o \in {"all", "one"},
         Agents!StopIn(k, ns, o), o = "one" => k = "server"
  PROVE  /\ workers' \in [Agents!Kinds -> [Names -> {"none", "gone", "running", "ended"}]]
         /\ \A j \in Agents!Kinds, n \in Names :
              Agents!Running(j, n)' => Agents!Running(j, n) /\ (j = k => n \notin ns)
<1> DEFINE w == [m \in Names |-> IF m \in ns THEN Agents!Stopped(k, o, workers[k][m])
                                 ELSE workers[k][m]]
<1>1. workers \in [Agents!Kinds -> [Names -> {"none", "gone", "running", "ended"}]]
  BY DEF AgentsInv, Agents!TypeOK
<1>2. \A s \in {"none", "gone", "running", "ended"} :
        Agents!Stopped(k, o, s) \in {"none", "gone", "ended"}
  BY DEF Agents!Stopped
<1>3. w \in [Names -> {"none", "gone", "running", "ended"}]
  BY <1>1, <1>2
<1>4. \A m \in Names : w[m] = "running" => workers[k][m] = "running" /\ m \notin ns
  BY <1>1, <1>2
<1>5. workers' = [workers EXCEPT ![k] = w]
  BY <1>1 DEF Agents!StopIn
<1> HIDE DEF w
<1>6. QED
  BY <1>1, <1>3, <1>4, <1>5 DEF Agents!Running

LEMMA StopKeeps ==
  ASSUME AgentsInv, NEW k \in Agents!Kinds, NEW n \in setting.names \cup {None},
         NEW o \in {"all", "one"}, o = "one" => k = "server", Agents!Stop(k, n, o)
  PROVE  AgentsInv'
<1> DEFINE todo == Agents!Listed(k, n) \cap Agents!Managed(k)
           what == IF o = "one" THEN "stopserver" ELSE "stop"
<1>1. /\ UNCHANGED <<setting, spaces, know, rules, stray, stage, since>>
      /\ stray' \subseteq Names /\ todo \in SUBSET Names /\ what \in {"stop", "stopserver"}
  BY DEF Agents!Stop, Agents!Managed, AgentsInv, Agents!TypeOK
<1>2. CASE Agents!Called(what, k, n, "raised") /\ UNCHANGED workers
  <2>1. Agents!StopsAll' /\ last'.op # "rediscover"
    BY <1>2 DEF Agents!StopsAll, Agents!StopReturned, Agents!Called
  <2>2. QED
    BY <1>1, <1>2, <2>1, EndKeeps DEF AgentsInv, Agents!TypeOK, Agents!Running
<1>3. ASSUME NEW ns \in SUBSET todo, Agents!StopIn(k, ns, o), Agents!Called(what, k, n, "raised")
      PROVE  AgentsInv'
  <2>1. Agents!StopsAll' /\ last'.op # "rediscover"
    BY <1>3 DEF Agents!StopsAll, Agents!StopReturned, Agents!Called
  <2>2. ns \in SUBSET Names
    BY <1>1
  <2>3. QED
    BY <1>1, <1>3, <2>1, <2>2, StopInEnds, EndKeeps
<1>4. CASE /\ Agents!StopIn(k, todo, o) /\ Agents!Called(what, k, n, "ok")
           /\ n = None /\ know[k] = None => Agents!Managed(k) = {}
  <2>1. /\ workers' \in [Agents!Kinds -> [Names -> {"none", "gone", "running", "ended"}]]
        /\ \A j \in Agents!Kinds, m \in Names :
             Agents!Running(j, m)' => Agents!Running(j, m) /\ (j = k => m \notin todo)
    BY <1>1, <1>4, StopInEnds
  <2>2. last'.kind = k /\ last'.ns = n /\ last'.op # "rediscover"
    BY <1>4 DEF Agents!Called
  <2>3. ASSUME NEW m \in Names, Agents!Running(k, m)'
        PROVE  \/ last'.ns \notin {m, None}
               \/ last'.ns = None /\ "remove" \in setting.events /\ m \notin DOMAIN know[k]
    <3>1. m \in Agents!Managed(k) /\ m \notin Agents!Listed(k, n) /\ Agents!Running(k, m)
      BY <2>1, <2>3 DEF Agents!Managed, Agents!Running
    <3>2. CASE n = None
      <4>1. know[k] # None /\ m \notin DOMAIN know[k]
        BY <1>4, <3>1, <3>2 DEF Agents!Listed
      <4>2. "remove" \in setting.events
        BY <3>1, <4>1 DEF AgentsInv, AtHome
      <4>3. QED
        BY <2>2, <3>2, <4>1, <4>2
    <3>3. CASE n # None
      BY <2>2, <3>1, <3>3 DEF Agents!Listed
    <3>4. QED
      BY <3>2, <3>3
  <2>4. Agents!StopsAll'
    BY <1>1, <2>2, <2>3 DEF Agents!StopsAll, Agents!StopReturned
  <2>5. QED
    BY <1>1, <2>1, <2>2, <2>4, EndKeeps
<1>5. QED
  BY <1>2, <1>3, <1>4 DEF Agents!Stop

LEMMA StopClientKeeps ==
  ASSUME AgentsInv, NEW n, Agents!StopClient(n)
  PROVE  AgentsInv'
<1>1. last'.op = "stopclient" /\ UNCHANGED <<setting, spaces, know, rules, workers, stray, stage, since>>
  BY DEF Agents!StopClient, Agents!Called
<1>2. Agents!StopsAll'
  BY <1>1 DEF Agents!StopsAll, Agents!StopReturned
<1>3. QED
  BY <1>1, <1>2, EndKeeps DEF AgentsInv, Agents!TypeOK, Agents!Running

LEMMA DieKeeps ==
  ASSUME AgentsInv, NEW k \in Agents!Kinds, NEW n \in Names, Agents!Die(k, n)
  PROVE  AgentsInv'
<1>1. /\ last'.op = "none" /\ UNCHANGED <<setting, spaces, know, rules, stage, since>>
      /\ workers' = [workers EXCEPT ![k][n] = "ended"] \/ workers' = workers
      /\ stray' \subseteq stray
  BY DEF Agents!Die, Agents!NoCall
<1>2. /\ workers \in [Agents!Kinds -> [Names -> {"none", "gone", "running", "ended"}]]
      /\ stray' \subseteq Names
  BY <1>1 DEF AgentsInv, Agents!TypeOK
<1>3. Agents!StopsAll'
  BY <1>1 DEF Agents!StopsAll, Agents!StopReturned
<1>4. QED
  BY <1>1, <1>2, <1>3, EndKeeps DEF Agents!Running

-----------------------------------------------------------------------------
(* rediscover_namespaces, and the host.                                    *)

LEMMA ForgetKeeps ==
  ASSUME AgentsInv, NEW k \in Agents!Kinds, Agents!Forget(k)
  PROVE  AgentsInv'
<1>1. /\ know' = [know EXCEPT ![k] = None] /\ stage' = k /\ last'.op = "none"
      /\ stage = IF k = "server" THEN "idle" ELSE "between"
      /\ since' = IF k = "server" THEN Agents!Existing ELSE since
      /\ UNCHANGED <<setting, spaces, rules, workers, stray>>
  BY DEF Agents!Forget, Agents!NoCall
<1>2. /\ know'[k] = None /\ \A j \in Agents!Kinds \ {k} : know'[j] = know[j]
      /\ Knows'
  BY <1>1 DEF AgentsInv, Knows
<1>3. Agents!TypeOK'
  BY <1>1, <1>2 DEF AgentsInv, Agents!TypeOK, Agents!Existing
<1>4. AtHome'
  BY <1>1, <1>2 DEF AgentsInv, AtHome, Agents!Running
<1>5. Looked'
  BY <1>1, <1>2 DEF AgentsInv, Looked, Agents!Existing, Agents!Kinds
<1>6. Agents!StopsAll' /\ Agents!RediscoverFinds'
  BY <1>1 DEF Agents!StopsAll, Agents!StopReturned, Agents!RediscoverFinds
<1>7. QED
  BY <1>2, <1>3, <1>4, <1>5, <1>6 DEF AgentsInv

LEMMA LearnKeeps ==
  ASSUME AgentsInv, NEW k \in Agents!Kinds, Agents!Learn(k)
  PROVE  AgentsInv'
<1>1. /\ know' = [know EXCEPT ![k] = Agents!Found] /\ stage = k
      /\ stage' = IF k = "server" THEN "between" ELSE "idle"
      /\ last'.op = IF k = "server" THEN "none" ELSE "rediscover"
      /\ UNCHANGED <<setting, spaces, rules, workers, stray, since>>
  BY DEF Agents!Learn, Agents!NoCall, Agents!Called, Agents!Kinds
<1>2. /\ know'[k] = Agents!Found /\ \A j \in Agents!Kinds \ {k} : know'[j] = know[j]
      /\ Knows'
  BY <1>1 DEF AgentsInv, Knows
<1>3. /\ DOMAIN Agents!Found = Agents!Existing
      /\ \A n \in Agents!Existing : Agents!Found[n] \in {"bare", "up"}
      /\ Agents!Existing \subseteq Names
  BY DEF Agents!Found, Agents!Existing, AgentsInv, Agents!TypeOK
<1>4. since \subseteq Agents!Existing /\ (k = "client" => since \subseteq DOMAIN know["server"])
  BY <1>1 DEF AgentsInv, Looked, Agents!Kinds
<1>5. Agents!TypeOK'
  BY <1>1, <1>2, <1>3 DEF AgentsInv, Agents!TypeOK, Agents!Kinds
<1>6. AtHome'
  BY <1>1, <1>2, <1>3 DEF AgentsInv, AtHome, Agents!Running, Agents!Existing
<1>7. Looked' /\ Agents!RediscoverFinds'
  BY <1>1, <1>2, <1>3, <1>4
     DEF AgentsInv, Looked, Agents!Existing, Agents!Kinds, Agents!RediscoverFinds
<1>8. Agents!StopsAll'
  BY <1>1 DEF Agents!StopsAll, Agents!StopReturned, Agents!Kinds
<1>9. QED
  BY <1>2, <1>5, <1>6, <1>7, <1>8 DEF AgentsInv

LEMMA LearnFailsKeeps ==
  ASSUME AgentsInv, NEW k \in Agents!Kinds, Agents!LearnFails(k)
  PROVE  AgentsInv'
<1>1. PICK n \in Agents!Existing : spaces' = [spaces EXCEPT ![n] = "absent"]
  BY DEF Agents!LearnFails
<1>2. /\ stage' = "idle" /\ last'.op = "rediscover" /\ last'.ret = "raised"
      /\ "remove" \in setting.events /\ UNCHANGED <<setting, know, rules, workers, stray, since>>
  BY DEF Agents!LearnFails, Agents!Called
<1>3. Agents!TypeOK' /\ Knows'
  BY <1>1, <1>2 DEF AgentsInv, Agents!TypeOK, Knows
<1>4. AtHome' /\ Looked' /\ Agents!StopsAll' /\ Agents!RediscoverFinds'
  BY <1>2 DEF AtHome, Looked, Agents!StopsAll, Agents!StopReturned, Agents!RediscoverFinds
<1>5. QED
  BY <1>3, <1>4 DEF AgentsInv

LEMMA ChangeKeeps ==
  ASSUME AgentsInv, NEW n \in setting.names, NEW to \in {"absent", "bare", "up"},
         Agents!Change(n, to)
  PROVE  AgentsInv'
<1>1. /\ to = "absent" => "remove" \in setting.events
      /\ spaces' = [spaces EXCEPT ![n] = to]
      /\ since' = IF to = "absent" THEN since \ {n} ELSE since
      /\ last'.op = "none" /\ UNCHANGED <<setting, know, rules, workers, stray, stage>>
  BY DEF Agents!Change, Agents!NoCall
<1>2. n \in Names /\ spaces \in [Names -> {"absent", "bare", "up"}]
  BY SettingKept DEF AgentsInv, Agents!TypeOK
<1>3. /\ spaces' \in [Names -> {"absent", "bare", "up"}] /\ spaces'[n] = to
      /\ \A m \in Names \ {n} : spaces'[m] = spaces[m]
  BY <1>1, <1>2
<1>4. Agents!TypeOK' /\ Knows'
  BY <1>1, <1>3 DEF AgentsInv, Agents!TypeOK, Knows
<1>5. AtHome'
  BY <1>1, <1>3 DEF AgentsInv, AtHome, Agents!Running
<1>6. Looked'
  BY <1>1, <1>3 DEF AgentsInv, Looked, Agents!Existing
<1>7. Agents!StopsAll' /\ Agents!RediscoverFinds'
  BY <1>1 DEF Agents!StopsAll, Agents!StopReturned, Agents!RediscoverFinds
<1>8. QED
  BY <1>4, <1>5, <1>6, <1>7 DEF AgentsInv

LEMMA AgentsInit == ASSUME Agents!Init PROVE AgentsInv
<1>1. setting \in Hosts /\ setting.names \subseteq Names
  BY PartsAssumption DEF Agents!Init, Agents!NamespaceAssumption
<1>2. \A n \in Names : spaces[n] \in {"absent", "bare", "up"}
  BY DEF Agents!Init
<1>3. Agents!TypeOK
  BY <1>1, <1>2 DEF Agents!Init, Agents!TypeOK, Agents!Found, Agents!Existing
<1>4. Knows /\ AtHome /\ Looked /\ Agents!StopsAll /\ Agents!RediscoverFinds
  BY DEF Agents!Init, Knows, AtHome, Looked, Agents!StopsAll, Agents!StopReturned, Agents!RediscoverFinds,
         Agents!NoCall, Agents!Running
<1>5. QED
  BY <1>3, <1>4 DEF AgentsInv

LEMMA AgentsNext ==
  ASSUME AgentsInv, Agents!Next \/ UNCHANGED agents
  PROVE  AgentsInv'
<1>1. ASSUME NEW k \in Agents!Kinds, NEW n \in setting.names \cup {None},
             Agents!Start(k, n) \/ Agents!Stop(k, n, "all")
      PROVE  AgentsInv'
  BY <1>1, StartKeeps, StopKeeps
<1>2. ASSUME NEW k \in Agents!Kinds, Agents!Forget(k) \/ Agents!Learn(k) \/ Agents!LearnFails(k)
      PROVE  AgentsInv'
  BY <1>2, ForgetKeeps, LearnKeeps, LearnFailsKeeps
<1>3. ASSUME NEW n \in setting.names \cup {None},
             \/ Agents!Stop("server", n, "one") \/ Agents!StopClient(n)
             \/ \E m \in setting.names : Agents!Add(n, m)
      PROVE  AgentsInv'
  BY <1>3, StopKeeps, StopClientKeeps, AddKeeps DEF Agents!Kinds
<1>4. CASE UNCHANGED agents
  BY <1>4 DEF agents, AgentsInv, Agents!TypeOK, Knows, AtHome, Looked, Agents!StopsAll, Agents!StopReturned,
              Agents!RediscoverFinds, Agents!Running, Agents!Existing
<1>5. QED
  BY <1>1, <1>2, <1>3, <1>4, DieKeeps, ChangeKeeps DEF Agents!Next

(***************************************************************************)
(* The installation.                                                       *)
(***************************************************************************)
\* The commands an operation may have left.
Left(o) ==
  CASE o = "pypi" -> {<<"pip">>}
    [] o = "uninstall" -> {<<"remove">>}
    [] o = "sdist" -> {<<"prepare", "trystop", "prepare", "pip">>, <<"trystop", "prepare", "pip">>,
                       <<"prepare", "pip">>, <<"pip">>}
    [] o = "requirements" -> {<<"prepare">>}
    [] o = "distribution" -> {<<"prepare", "dpkg">>, <<"dpkg">>}
    [] o = "start" -> {<<"prepare", "start">>, <<"start">>}
    [] o = "stop" -> {<<"stop">>}
    [] o = "restart" -> {<<"restart">>, <<"query", "stop", "prepare", "start">>,
                         <<"stop", "prepare", "start">>, <<"prepare", "start">>, <<"start">>}
    [] o = "register" -> {<<"create">>}
    [] o = "unregister" -> {<<"query", "stop", "delete">>, <<"stop", "delete">>, <<"delete">>}
    [] OTHER -> {}

InstallTypes ==
  /\ Install!TypeOK
  /\ op \in {"none"} \cup Install!BaseOps \cup Install!LinuxOps \cup Install!WindowsOps
  /\ cmds \in {<<>>} \cup Left(op)
  /\ ret = "ok" => cmds = <<>>
  /\ os = "linux" => op \notin {"register", "unregister"}

\* What was installed last is the package that the host has.
Packaged ==
  /\ want # None => remote.pkg = want
  /\ cmds # <<>> /\ op \in Install!Installs => want = None

\* A Linux host has stopped its service before the package is replaced, and what it
\* has started since is what was installed.
LinuxRuns ==
  os = "linux" =>
    /\ remote.svc # "stopping" /\ remote.unit # "marked"
    /\ remote.unit = "no" => remote.svc = "stopped"
    /\ op = "sdist" /\ cmds \in {<<"prepare", "pip">>, <<"pip">>} /\ ~ kept =>
         remote.svc = "stopped"
    /\ want # None /\ remote.svc = "running" => remote.loaded = want

\* A Windows host starts a service only if none runs.
WindowsRuns ==
  os = "windows" /\ op \in {"start", "restart"} /\ ret = "ok" =>
    (remote.svc = "running" => remote.loaded = remote.pkg)

InstallInv == InstallTypes /\ Packaged /\ LinuxRuns /\ WindowsRuns

LEMMA Tails ==
  /\ \A a : Head(<<a>>) = a /\ Tail(<<a>>) = <<>>
  /\ \A a, b : Head(<<a, b>>) = a /\ Tail(<<a, b>>) = <<b>>
  /\ \A a, b, c : Head(<<a, b, c>>) = a /\ Tail(<<a, b, c>>) = <<b, c>>
  /\ \A a, b, c, d : Head(<<a, b, c, d>>) = a /\ Tail(<<a, b, c, d>>) = <<b, c, d>>
<1>1. \A a : Head(<<a>>) = a /\ Tail(<<a>>) = <<>>
  OBVIOUS
<1>2. \A a, b : Head(<<a, b>>) = a /\ Tail(<<a, b>>) = <<b>>
  OBVIOUS
<1>3. \A a, b, c : Head(<<a, b, c>>) = a /\ Tail(<<a, b, c>>) = <<b, c>>
  OBVIOUS
<1>4. \A a, b, c, d : Head(<<a, b, c, d>>) = a /\ Tail(<<a, b, c, d>>) = <<b, c, d>>
  OBVIOUS
<1> QED BY <1>1, <1>2, <1>3, <1>4

\* What the first command of an operation may be, and what is left after it.
Command(c, left) ==
  /\ left \in {<<>>} \cup Left(op)
  /\ c \in {"pip", "dpkg", "remove"} => op \in Install!Installs
  /\ c \in {"pip", "dpkg", "remove", "start", "restart", "stop", "create", "delete"} =>
       \/ left = <<>>
       \/ c = "stop" /\ left \in {<<"prepare", "start">>, <<"delete">>}
  /\ op = "sdist" =>
       /\ c \in {"pip", "prepare", "trystop"}
       /\ left = <<>> <=> c = "pip"
       /\ c = "pip" => cmds = <<"pip">>
       /\ left = <<"pip">> => cmds = <<"prepare", "pip">>
       /\ left = <<"prepare", "pip">> => c = "trystop"
       /\ c = "trystop" => left = <<"prepare", "pip">>
  /\ op \in {"start", "restart"} /\ left = <<>> => c \in {"start", "restart"}
  /\ c \in {"create", "delete"} => op \in {"register", "unregister"}
  /\ c = "trystop" => op = "sdist"
  /\ c \in {"pip", "dpkg", "remove", "start", "restart", "stop", "create", "delete", "prepare",
            "query", "trystop"}

LEMMA Commands ==
  ASSUME InstallTypes, cmds # <<>>
  PROVE  Command(Head(cmds), Install!Left)
<1> USE Tails DEF Left
<1>1. cmds \in Left(op)
  BY DEF InstallTypes
<1>2. CASE op = "pypi"
  <2>1. cmds = <<"pip">>
    BY <1>1, <1>2
  <2> QED
    BY <1>2, <2>1 DEF Command, Install!Left, Install!Installs
<1>3. CASE op = "uninstall"
  <2>1. cmds = <<"remove">>
    BY <1>1, <1>3
  <2> QED
    BY <1>3, <2>1 DEF Command, Install!Left, Install!Installs
<1>4. CASE op = "sdist"
  <2>1. CASE cmds = <<"prepare", "trystop", "prepare", "pip">>
    BY <1>4, <2>1 DEF Command, Install!Left, Install!Installs
  <2>2. CASE cmds = <<"trystop", "prepare", "pip">>
    BY <1>4, <2>2 DEF Command, Install!Left, Install!Installs
  <2>3. CASE cmds = <<"prepare", "pip">>
    BY <1>4, <2>3 DEF Command, Install!Left, Install!Installs
  <2>4. CASE cmds = <<"pip">>
    BY <1>4, <2>4 DEF Command, Install!Left, Install!Installs
  <2> QED
    BY <1>1, <1>4, <2>1, <2>2, <2>3, <2>4
<1>5. CASE op = "requirements"
  <2>1. cmds = <<"prepare">>
    BY <1>1, <1>5
  <2> QED
    BY <1>5, <2>1 DEF Command, Install!Left, Install!Installs
<1>6. CASE op = "distribution"
  <2>1. CASE cmds = <<"prepare", "dpkg">>
    BY <1>6, <2>1 DEF Command, Install!Left, Install!Installs
  <2>2. CASE cmds = <<"dpkg">>
    BY <1>6, <2>2 DEF Command, Install!Left, Install!Installs
  <2> QED
    BY <1>1, <1>6, <2>1, <2>2
<1>7. CASE op = "start"
  <2>1. CASE cmds = <<"prepare", "start">>
    BY <1>7, <2>1 DEF Command, Install!Left, Install!Installs
  <2>2. CASE cmds = <<"start">>
    BY <1>7, <2>2 DEF Command, Install!Left, Install!Installs
  <2> QED
    BY <1>1, <1>7, <2>1, <2>2
<1>8. CASE op = "stop"
  <2>1. cmds = <<"stop">>
    BY <1>1, <1>8
  <2> QED
    BY <1>8, <2>1 DEF Command, Install!Left, Install!Installs
<1>9. CASE op = "restart"
  <2>1. CASE cmds = <<"restart">>
    BY <1>9, <2>1 DEF Command, Install!Left, Install!Installs
  <2>2. CASE cmds = <<"query", "stop", "prepare", "start">>
    BY <1>9, <2>2 DEF Command, Install!Left, Install!Installs
  <2>3. CASE cmds = <<"stop", "prepare", "start">>
    BY <1>9, <2>3 DEF Command, Install!Left, Install!Installs
  <2>4. CASE cmds = <<"prepare", "start">>
    BY <1>9, <2>4 DEF Command, Install!Left, Install!Installs
  <2>5. CASE cmds = <<"start">>
    BY <1>9, <2>5 DEF Command, Install!Left, Install!Installs
  <2> QED
    BY <1>1, <1>9, <2>1, <2>2, <2>3, <2>4, <2>5
<1>10. CASE op = "register"
  <2>1. cmds = <<"create">>
    BY <1>1, <1>10
  <2> QED
    BY <1>10, <2>1 DEF Command, Install!Left, Install!Installs
<1>11. CASE op = "unregister"
  <2>1. CASE cmds = <<"query", "stop", "delete">>
    BY <1>11, <2>1 DEF Command, Install!Left, Install!Installs
  <2>2. CASE cmds = <<"stop", "delete">>
    BY <1>11, <2>2 DEF Command, Install!Left, Install!Installs
  <2>3. CASE cmds = <<"delete">>
    BY <1>11, <2>3 DEF Command, Install!Left, Install!Installs
  <2> QED
    BY <1>1, <1>11, <2>1, <2>2, <2>3
<1>12. CASE op = "none"
  BY <1>1, <1>12
<1> QED
  BY <1>2, <1>3, <1>4, <1>5, <1>6, <1>7, <1>8, <1>9, <1>10, <1>11, <1>12
  DEF InstallTypes, Install!BaseOps, Install!LinuxOps, Install!WindowsOps

LEMMA InstallInit == Install!Init => InstallInv
<1> SUFFICES ASSUME Install!Init
             PROVE  InstallInv
  OBVIOUS
<1> USE DEF Install!Init
<1>1. Install!TypeOK
  BY DEF Install!TypeOK
<1>2. InstallTypes
  BY <1>1 DEF InstallTypes
<1>3. Packaged /\ LinuxRuns /\ WindowsRuns
  BY DEF Packaged, LinuxRuns, WindowsRuns
<1> QED
  BY <1>2, <1>3 DEF InstallInv

LEMMA Programs ==
  ASSUME NEW o,
         \/ o \in Install!BaseOps
         \/ os = "linux" /\ o \in Install!LinuxOps
         \/ os = "windows" /\ o \in Install!WindowsOps
  PROVE  /\ Install!Program(o) \in Left(o)
         /\ Install!Program(o) \notin {<<"prepare", "pip">>, <<"pip">>} \/ o # "sdist"
<1>1. CASE o \in Install!BaseOps
  <2>1. Install!Program(o) = Install!BaseProgram(o)
    BY <1>1 DEF Install!Program
  <2>2. CASE o = "pypi"
    BY <2>1, <2>2 DEF Install!BaseProgram, Left
  <2>3. CASE o = "uninstall"
    BY <2>1, <2>3 DEF Install!BaseProgram, Left
  <2> QED
    BY <1>1, <2>2, <2>3 DEF Install!BaseOps
<1>2. CASE os = "linux" /\ o \in Install!LinuxOps
  <2>1. o \in {"requirements", "distribution", "start", "stop", "restart"} =>
          Install!Program(o) \in Left(o)
    BY <1>2 DEF Install!Program, Install!LinuxProgram, Install!BaseOps, Left
  <2>2. o = "sdist" => Install!Program(o) = <<"trystop", "prepare", "pip">>
    BY <1>2 DEF Install!Program, Install!LinuxProgram, Install!BaseOps
  <2> QED
    BY <1>2, <2>1, <2>2 DEF Install!LinuxOps, Left
<1>3. CASE os = "windows" /\ o \in Install!WindowsOps
  <2>1. o \in {"requirements", "register", "start", "stop", "restart", "unregister"} =>
          Install!Program(o) \in Left(o)
    BY <1>3 DEF Install!Program, Install!WindowsProgram, Install!BaseOps, Left
  <2>2. o = "sdist" => Install!Program(o) = <<"prepare", "trystop", "prepare", "pip">>
    BY <1>3 DEF Install!Program, Install!WindowsProgram, Install!BaseOps
  <2> QED
    BY <1>3, <2>1, <2>2 DEF Install!WindowsOps, Left
<1> QED
  BY <1>1, <1>2, <1>3

LEMMA BeginKeeps ==
  ASSUME InstallInv, NEW v \in Names, NEW o, Install!Begin(o, v),
         \/ o \in Install!BaseOps
         \/ os = "linux" /\ o \in Install!LinuxOps
         \/ os = "windows" /\ o \in Install!WindowsOps
  PROVE  InstallInv'
<1> USE DEF Install!Begin
<1>1. InstallTypes'
  BY Programs DEF InstallInv, InstallTypes, Install!TypeOK, Install!BaseOps, Install!LinuxOps
<1>2. Packaged'
  BY DEF InstallInv, Packaged
<1>3. LinuxRuns'
  BY Programs DEF InstallInv, LinuxRuns
<1>4. WindowsRuns'
  BY DEF WindowsRuns
<1> QED
  BY <1>1, <1>2, <1>3, <1>4 DEF InstallInv

\* The states that the host may be in.
HostStates ==
  [pkg : Names \cup {None}, unit : {"no", "yes", "marked"},
   svc : {"stopped", "running", "stopping"}, loaded : Names \cup {None}]

LEMMA HostKinds ==
  ASSUME InstallInv, Command(Head(cmds), Install!Left)
  PROVE  /\ remote \in HostStates /\ Install!Stopped \in HostStates
         /\ Install!After(Head(cmds)) \in HostStates
<1>1. remote \in HostStates /\ ver \in Names \cup {None}
  BY DEF InstallInv, InstallTypes, Install!TypeOK, HostStates
<1>2. Install!Stopped \in HostStates
  BY <1>1 DEF HostStates, Install!Stopped
<1>3. \A h \in HostStates : Install!Started(h) \in HostStates
  BY DEF HostStates, Install!Started
<1>4. [remote EXCEPT !.pkg = ver, !.unit = "yes"] \in HostStates
  BY <1>1 DEF HostStates
<1>5. \A p \in Names \cup {None} : [remote EXCEPT !.pkg = p] \in HostStates
  BY <1>1 DEF HostStates
<1>6. \A u \in {"no", "yes", "marked"} : [remote EXCEPT !.unit = u] \in HostStates
  BY <1>1 DEF HostStates
<1>7. [remote EXCEPT !.svc = "stopping"] \in HostStates
  BY <1>1 DEF HostStates
<1>8. Head(cmds) \in {"pip", "dpkg", "remove", "start", "restart", "stop", "create", "delete",
                      "prepare", "query", "trystop"}
  BY DEF Command
<1>9. CASE Head(cmds) \in {"pip", "remove"}
  BY <1>1, <1>2, <1>5, <1>9 DEF Install!After
<1>10. CASE Head(cmds) \in {"dpkg", "start", "restart"}
  BY <1>1, <1>2, <1>3, <1>4, <1>10 DEF Install!After
<1>11. CASE Head(cmds) \in {"create", "delete"}
  BY <1>1, <1>2, <1>6, <1>11 DEF Install!After
<1>12. CASE Head(cmds) \in {"stop", "trystop", "prepare", "query"}
  BY <1>1, <1>2, <1>7, <1>12 DEF Install!After
<1> QED
  BY <1>8, <1>9, <1>10, <1>11, <1>12

LEMMA RunKeeps ==
  ASSUME InstallInv, Install!Run
  PROVE  InstallInv'
<1>1. Command(Head(cmds), Install!Left)
  BY Commands DEF InstallInv, Install!Run
<1> USE DEF Install!Run
<1>2. InstallTypes'
  BY <1>1, HostKinds DEF Command, InstallInv, InstallTypes, Install!TypeOK, HostStates, Left
<1>3. Packaged'
  BY <1>1 DEF Command, InstallInv, InstallTypes, Install!TypeOK, Packaged, Install!After,
     Install!Started, Install!Stopped, Install!Installs
<1>4. LinuxRuns'
  BY <1>1 DEF Command, InstallInv, InstallTypes, Install!TypeOK, Packaged, LinuxRuns,
     Install!After, Install!Started, Install!Stopped, Install!Installs, Install!Can, Install!Known
<1>5. WindowsRuns'
  BY <1>1 DEF Command, InstallInv, InstallTypes, Install!TypeOK, WindowsRuns,
     Install!After, Install!Started, Install!Stopped, Install!Can, Install!Known
<1> QED
  BY <1>2, <1>3, <1>4, <1>5 DEF InstallInv

LEMMA FailKeeps ==
  ASSUME InstallInv, Install!Fail
  PROVE  InstallInv'
<1>1. Command(Head(cmds), Install!Left)
  BY Commands DEF InstallInv, Install!Fail
<1>2. Head(cmds) # "query" => Install!Left = Tail(cmds)
  BY DEF Install!Left
<1> USE DEF Install!Fail
<1>3. InstallTypes'
  <2>1. remote' \in HostStates
    BY <1>1, HostKinds
  <2>2. cmds' \in {<<>>} \cup Left(op) /\ ret' # "ok"
    BY <1>1, <1>2 DEF Command, InstallInv, InstallTypes, Install!TypeOK
  <2>3. kept' \in BOOLEAN
    BY DEF InstallInv, InstallTypes, Install!TypeOK
  <2> QED
    BY <2>1, <2>2, <2>3 DEF InstallInv, InstallTypes, Install!TypeOK, HostStates
<1>4. Packaged'
  BY <1>1, <1>2 DEF Command, InstallInv, InstallTypes, Install!TypeOK, Packaged, Install!After,
     Install!Started, Install!Stopped, Install!Installs
<1>5. LinuxRuns'
  <2> SUFFICES ASSUME os = "linux"
               PROVE  LinuxRuns'
    BY DEF LinuxRuns
  <2> USE DEF Install!Can, Install!Known
  <2>1. \/ remote' \in {remote, Install!Stopped}
        \/ Install!Can(Head(cmds)) /\ remote' = Install!After(Head(cmds))
    OBVIOUS
  <2>2. /\ remote.svc # "stopping" /\ remote.unit # "marked"
        /\ remote.unit = "no" => remote.svc = "stopped"
        /\ want # None => op \notin Install!Installs /\ remote.pkg = want
        /\ want # None /\ remote.svc = "running" => remote.loaded = want
    BY DEF InstallInv, LinuxRuns, Packaged
  <2>3. /\ remote'.svc # "stopping" /\ remote'.unit # "marked"
        /\ remote'.unit = "no" => remote'.svc = "stopped"
        /\ want # None /\ remote'.svc = "running" => remote'.loaded = want
    <3>1. CASE remote' \in {remote, Install!Stopped}
      BY <2>2, <3>1 DEF InstallInv, InstallTypes, Install!TypeOK, Install!Stopped
    <3>2. CASE Install!Can(Head(cmds)) /\ remote' = Install!After(Head(cmds))
      BY <1>1, <2>2, <3>2 DEF Command, InstallInv, InstallTypes, Install!TypeOK, Install!After,
         Install!Started, Install!Stopped
    <3> QED
      BY <2>1, <3>1, <3>2
  <2>4. op = "sdist" /\ cmds' \in {<<"prepare", "pip">>, <<"pip">>} /\ ~ kept' =>
          remote'.svc = "stopped"
    BY <1>1, <1>2, <2>2 DEF Command, InstallInv, InstallTypes, Install!TypeOK
  <2> QED
    BY <2>3, <2>4 DEF LinuxRuns
<1>6. WindowsRuns'
  BY <1>1, <1>2 DEF Command, InstallInv, WindowsRuns
<1> QED
  BY <1>3, <1>4, <1>5, <1>6 DEF InstallInv

LEMMA HostKeeps ==
  ASSUME InstallInv, Install!Gone \/ Install!SetUp
  PROVE  InstallInv'
<1>1. InstallTypes'
  BY DEF Install!Gone, Install!SetUp, Install!Stopped, InstallInv, InstallTypes, Install!TypeOK
<1>2. Packaged' /\ LinuxRuns' /\ WindowsRuns'
  BY DEF Install!Gone, Install!SetUp, Install!Stopped, InstallInv, InstallTypes, Install!TypeOK,
     Packaged, LinuxRuns, WindowsRuns
<1> QED
  BY <1>1, <1>2 DEF InstallInv

LEMMA InstallNext ==
  ASSUME InstallInv, Install!Next \/ UNCHANGED install
  PROVE  InstallInv'
<1>1. CASE UNCHANGED install
  BY <1>1 DEF install, InstallInv, InstallTypes, Install!TypeOK, Packaged, LinuxRuns, WindowsRuns
<1>2. CASE Install!Next
  BY <1>2, BeginKeeps, RunKeeps, FailKeeps, HostKeeps DEF Install!Next
<1> QED
  BY <1>1, <1>2

LEMMA InstallMeans == InstallInv => Install!InstalledRuns
BY DEF InstallInv, InstallTypes, Install!TypeOK, Packaged, LinuxRuns, WindowsRuns,
   Install!InstalledRuns

(***************************************************************************)
(* The whole.                                                              *)
(***************************************************************************)
\* The part whose behaviour it is keeps its invariant.
HostInv ==
  /\ part = "iperf" => Serial!PipesInv
  /\ part = "iperf racing" => Racing!PipesInv
  /\ part = "pcap" => Serial!OneInv
  /\ part = "pcap racing" => Racing!PcapInv
  /\ part = "agents" => AgentsInv
  /\ part = "entering" => NsInv
  /\ part = "install" => InstallInv

LEMMA SerialIsSerial == Serial!OneAtATime
BY PartsAssumption DEF Serial!OneAtATime

LEMMA HostInit == Init => HostInv
<1> SUFFICES ASSUME Init
             PROVE  HostInv
  OBVIOUS
<1>1. part = "iperf" => Serial!PipesInv
  BY SerialIperfInit, SerialIperfAssumed, Serial!PipesInit DEF Init
<1>2. part = "iperf racing" => Racing!PipesInv
  BY RacingIperfInit, RacingIperfAssumed, Racing!PipesInit DEF Init
<1>3. part = "pcap" => Serial!OneInv
  BY SerialPcapInit, Serial!PcapInitKeeps, Serial!OneInit DEF Init
<1>4. part = "pcap racing" => Racing!PcapInv
  BY RacingPcapInit, Racing!PcapInitKeeps DEF Init
<1>5. part = "agents" => AgentsInv
  BY AgentsInit DEF Init
<1>6. part = "entering" => NsInv
  BY NsInitHolds DEF Init
<1>7. part = "install" => InstallInv
  BY InstallInit DEF Init
<1> QED
  BY <1>1, <1>2, <1>3, <1>4, <1>5, <1>6, <1>7 DEF HostInv

\* A step is one of the part, or the part rests.
LEMMA PartSteps ==
  ASSUME [Next]_vars
  PROVE  /\ part' = part
         /\ part = "iperf" => Iperf!Next \/ UNCHANGED iperf
         /\ part = "iperf racing" => IperfRacing!Next \/ UNCHANGED iperf
         /\ part = "pcap" => Pcap!Next \/ UNCHANGED pcap
         /\ part = "pcap racing" => PcapRacing!Next \/ UNCHANGED pcap
         /\ part = "agents" => Agents!Next \/ UNCHANGED agents
         /\ part = "entering" => Entering!Next \/ UNCHANGED entering
         /\ part = "install" => Install!Next \/ UNCHANGED install
BY DEF Next, IperfStep, PcapStep, AgentsStep, EnteringStep, InstallStep, vars

LEMMA HostNext ==
  ASSUME HostInv, [Next]_vars
  PROVE  HostInv'
<1>1. part' = part
  BY PartSteps
<1>2. ASSUME part = "iperf" PROVE Serial!PipesInv'
  BY <1>2, PartSteps, SerialIperfNext, SerialIperfAssumed, Serial!PipesNext DEF HostInv
<1>3. ASSUME part = "iperf racing" PROVE Racing!PipesInv'
  BY <1>3, PartSteps, RacingIperfNext, RacingIperfAssumed, Racing!PipesNext DEF HostInv
<1>4. ASSUME part = "pcap" PROVE Serial!OneInv'
  <2>1. Serial!OneInv /\ [Serial!Pcap!Next]_Serial!Pcap!vars
    BY <1>4, PartSteps, SerialPcapNext DEF HostInv
  <2>2. Serial!PcapInv'
    BY <2>1, SerialPcapAssumed, Serial!PcapNextKeeps DEF Serial!OneInv
  <2> QED
    BY <2>1, <2>2, SerialPcapAssumed, SerialIsSerial, Serial!OneNext
<1>5. ASSUME part = "pcap racing" PROVE Racing!PcapInv'
  BY <1>5, PartSteps, RacingPcapNext, RacingPcapAssumed, Racing!PcapNextKeeps DEF HostInv
<1>6. ASSUME part = "agents" PROVE AgentsInv'
  BY <1>6, PartSteps, AgentsNext DEF HostInv
<1>7. ASSUME part = "entering" PROVE NsInv'
  BY <1>7, PartSteps, NsNextKeeps DEF HostInv, entering, Entering!vars
<1>8. ASSUME part = "install" PROVE InstallInv'
  BY <1>8, PartSteps, InstallNext DEF HostInv
<1> QED
  BY <1>1, <1>2, <1>3, <1>4, <1>5, <1>6, <1>7, <1>8 DEF HostInv

LEMMA HostAlways == Spec => []HostInv
<1>1. HostInv /\ [Next]_vars => HostInv'
  BY HostNext
<1> QED
  BY HostInit, <1>1, PTL DEF Spec

-----------------------------------------------------------------------------
(* stop_pcap never ends a capture that has not written its file, for any   *)
(* callers at a time, files and subprocesses (TCPDump.stop_pcap): it kills *)
(* only what it has seen exit, and nothing revives that. It says nothing of*)
(* stop, which kills what still writes.                                    *)
THEOREM CapturesAreWhole == Spec => []NeverCut
<1>1. HostInv => NeverCut
  BY SerialPcapMeans, RacingPcapMeans
  DEF HostInv, NeverCut, Serial!OneInv, Serial!PcapInv, Racing!PcapInv
<1> QED
  BY <1>1, HostAlways, PTL

(* With calls one at a time no file is written by two captures, for any    *)
(* files and subprocesses: the handle of a file is the capture that writes *)
(* it until that has exited, so that the second start is refused.          *)
THEOREM OneCaptureAFile == Spec => []OneCapture
<1>1. HostInv => OneCapture
  BY SerialPcapMeans, SerialPcapAssumed, SerialIsSerial, Serial!OneMeans DEF HostInv, OneCapture
<1> QED
  BY <1>1, HostAlways, PTL

(* A client job that is reported done has ended and has a result: all that *)
(* its process wrote, or, when calls overlap, either that or nothing. For  *)
(* the app with one call at a time and with overlapping ones, any threads, *)
(* ports and subprocesses (get_client_job_info, _update_client_job_info):  *)
(* the call that marks a job done has seen it exit and saved a result, and *)
(* who reads the pipe after another has nothing to save.                   *)
THEOREM DoneJobsHaveResults == Spec => []DoneHasResult
<1>1. HostInv => DoneHasResult
  BY SerialIperfMeans, SerialIperfAssumed, Serial!IperfInvMeans,
     RacingIperfMeans, RacingIperfAssumed, Racing!IperfInvMeans DEF HostInv, DoneHasResult
<1> QED
  BY <1>1, HostAlways, PTL

(* stop_iperf_client leaves no client of its job running, for any callers  *)
(* at a time of which only one starts a client: the job is that of the     *)
(* subprocess that the call has found and killed, or it was done.          *)
THEOREM StoppedClientsAreGone == Spec => []StopStopsClient
<1>1. HostInv => StopStopsClient
  BY SerialIperfMeans, SerialIperfAssumed, Serial!IperfInvMeans,
     RacingIperfMeans, RacingIperfAssumed, Racing!IperfInvMeans DEF HostInv, StopStopsClient
<1> QED
  BY <1>1, HostAlways, PTL

(* In namespace mode a stop that returns leaves no process running that    *)
(* the agent has a manager of, where it was to stop all, for any namespaces*)
(* and whatever becomes of them: what runs under a manager is in a         *)
(* namespace that the agent knows, unless namespaces are removed. Servers  *)
(* whose manager was never kept, because their call raised, are excepted.  *)
THEOREM StopsReachAll == Spec => []StopsAll
<1>1. HostInv => StopsAll
  BY DEF HostInv, StopsAll, AgentsInv
<1> QED
  BY <1>1, HostAlways, PTL

(* After rediscover_namespaces both agents know every namespace that was   *)
(* there all the while, for any namespaces made and removed meanwhile.     *)
THEOREM RediscoveryFinds == Spec => []RediscoverFinds
<1>1. HostInv => RediscoverFinds
  BY DEF HostInv, RediscoverFinds, AgentsInv
<1> QED
  BY <1>1, HostAlways, PTL

(* Worker processes run, and readings are made, in a namespace of the name *)
(* they were asked for in, and threads that serve nothing are in the       *)
(* host's, for any number of threads and names: the way back that a thread *)
(* opens (nsenter.Namespace) is the main thread's namespace, and that one  *)
(* is at home whenever others enter.                                       *)
THEOREM RunsWhereAsked == Spec => []WhereAsked
<1>1. HostInv => WhereAsked
  BY DEF HostInv, WhereAsked, NsInv, NsKept, NsGood, Entering!WhereAsked, Entering!At
<1> QED
  BY <1>1, HostAlways, PTL

(* What runs after an installation and a start or a restart is what was    *)
(* installed, for any versions and whichever commands fail, but one: a stop*)
(* on Linux that fails although it could be done, which the installation   *)
(* conceals (AxonRemoteOperationLinux, AxonRemoteOperationWindows). Without*)
(* that, the service is stopped on Linux when pip begins, and on Windows it*)
(* is started only when none runs.                                         *)
THEOREM InstalledIsWhatRuns == Spec => []InstalledRuns
<1>1. HostInv => InstalledRuns
  BY InstallMeans DEF HostInv, InstalledRuns
<1> QED
  BY <1>1, HostAlways, PTL
=============================================================================
