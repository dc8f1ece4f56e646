------------------------------- MODULE IperfJobs -------------------------------
(***************************************************************************)
(* The Iperf app: iperf3 servers by port and iperf3 client runs by job id, *)
(* as subprocesses of the node whose standard output is a pipe that the    *)
(* app reads when the subprocess has ended. Threads of the RPC server run  *)
(* the operations; the dictionaries of handles and the last job id are     *)
(* shared, and no lock covers them.                                        *)
(***************************************************************************)
EXTENDS Naturals, FiniteSets

CONSTANTS
  Threads,  \* threads that serve RPC requests
  Ports,    \* port numbers
  Random,   \* those a server without a port may get
  Seen,     \* Seen[q]: the ports whose line of netstat grep finds for q
  Procs,    \* bound: subprocesses that exist at a time
  LastJob,  \* bound: job ids that are given
  Output,   \* the output of an iperf3 client, in blocks
  Pipe,     \* the blocks a pipe holds
  None,     \* no port, no process, no result
  Events    \* "death": subprocesses fail; "slow": a server binds after the last look;
            \* "linger": a killed server still listens for a while; "race": clients are
            \* started by calls that overlap, and so may get the same job id

IperfAssumption ==
  /\ Random \subseteq Ports
  /\ Seen \in [Ports -> SUBSET Ports] /\ \A q \in Ports : q \in Seen[q]
  /\ LastJob \in Nat /\ Output \in Nat /\ Pipe \in Nat
  /\ None \notin Ports \cup Procs \cup (0..Output)
  /\ Events \subseteq {"death", "slow", "linger", "race"}

VARIABLES
  handles,  \* _server_handles[q], or None
  jobs,     \* _client_handles[j]; a result is the number of blocks it has
  jobid,    \* _job_id, 0 before the first
  draws,    \* turns of the loop of _gen_rand_port
  proc,     \* proc[p]: a subprocess
  th        \* th[t]: the call thread t serves, and its local variables

files == <<handles, jobs, jobid, draws>>
vars == <<files, proc, th>>

NoJob == [proc |-> None, state |-> "none", result |-> None]

\* left: the output it has not written yet; buf: what its pipe holds.
Free == [kind |-> "none", port |-> None, st |-> "none", left |-> Output, buf |-> 0,
         closed |-> FALSE, job |-> 0]

\* old: the job id read before the next is assigned; got: the blocks read from the
\* pipe; ports, ids: what stop() has still to kill; ret: how the call ends.
Idle == [pc |-> "idle", op |-> "none", port |-> None, job |-> 0, mine |-> None,
         old |-> 0, got |-> 0, ports |-> {}, ids |-> {}, ret |-> "none"]

JobIds == 1..LastJob

At(t, l) == th[t].pc = l

\* A subprocess nobody has killed, and one that poll() says is alive.
Running(p) == proc[p].st \in {"starting", "up"}
Alive(p) == proc[p].st \in {"starting", "up", "killed"}

Listens(p, q) == proc[p].kind = "server" /\ proc[p].port = q /\ proc[p].st \in {"up", "killed"}

\* is_running: netstat -lnp | grep :q
IsRunning(q) == \E p \in Procs : \E r \in Seen[q] : Listens(p, r)

FreeProcs ==
  {p \in Procs :
     /\ ~ Alive(p)
     /\ \A q \in Ports : handles[q] # p
     /\ \A j \in JobIds : jobs[j].proc # p
     /\ \A t \in Threads : th[t].mine # p}

\* What a call does next, or how it ends.
Goto(t, l) == th' = [th EXCEPT ![t].pc = l]
Returns(t) == th' = [th EXCEPT ![t].pc = "reply", ![t].ret = "ok"]
Raises(t) == th' = [th EXCEPT ![t].pc = "reply", ![t].ret = "raised"]

-----------------------------------------------------------------------------
Init ==
  /\ handles = [q \in Ports |-> None]
  /\ jobs = [j \in JobIds |-> NoJob]
  /\ jobid = 0 /\ draws = 0
  /\ proc = [p \in Procs |-> Free]
  /\ th = [t \in Threads |-> Idle]

Begin(t, call) ==
  /\ At(t, "idle")
  /\ th' = [th EXCEPT ![t] = call]
  /\ UNCHANGED <<files, proc>>

\* Bound: a subprocess is left for the call, and for the others that will start one.
Room ==
  Cardinality({t \in Threads : th[t].op \in {"start", "client"} /\ th[t].mine = None})
    < Cardinality(FreeProcs)

BeginStartServer(t, q) ==
  /\ Room
  /\ Begin(t, [Idle EXCEPT !.op = "start", !.pc = IF q = None THEN "draw" ELSE "look", !.port = q])

BeginStopServer(t, q) == Begin(t, [Idle EXCEPT !.op = "stop", !.pc = "find", !.port = q])

BeginStartClient(t) ==
  /\ Room
  /\ "race" \in Events \/ \A u \in Threads : th[u].op # "client"
  /\ jobid + Cardinality({u \in Threads : th[u].op = "client"}) < LastJob
  /\ Begin(t, [Idle EXCEPT !.op = "client", !.pc = "spawn"])

\* Callers stop the jobs they have the id of.
BeginStopClient(t, j) ==
  /\ \E p \in Procs : proc[p].job = j
  /\ Begin(t, [Idle EXCEPT !.op = "stopclient", !.pc = "find", !.job = j])

BeginInfo(t, j) == Begin(t, [Idle EXCEPT !.op = "info", !.pc = "find", !.job = j])

BeginStopApp(t) ==
  Begin(t, [Idle EXCEPT !.op = "stopapp", !.pc = "sweep",
                        !.ports = {q \in Ports : handles[q] # None},
                        !.ids = {j \in JobIds : jobs[j] # NoJob}])

\* The call returns; a new client is known by the job id it has answered.
Reply(t) ==
  /\ At(t, "reply")
  /\ th' = [th EXCEPT ![t] = Idle]
  /\ UNCHANGED <<files, proc>>

-----------------------------------------------------------------------------
(* Subprocesses are started, found and killed.                             *)

\* _gen_rand_port: its loop has as many turns as there are ports, in all.
Draw(t) ==
  /\ At(t, "draw")
  /\ \/ draws = Cardinality(Random) /\ Raises(t) /\ UNCHANGED draws
     \/ /\ draws < Cardinality(Random)
        /\ draws' = draws + 1
        /\ \E q \in Random :
             IF handles[q] = None
             THEN th' = [th EXCEPT ![t].port = q, ![t].pc = "look"]
             ELSE UNCHANGED th
  /\ UNCHANGED <<handles, jobs, jobid, proc>>

Look(t) ==
  /\ At(t, "look")
  /\ IF IsRunning(th[t].port) THEN Returns(t) ELSE Goto(t, "spawn")
  /\ UNCHANGED <<files, proc>>

Spawn(t) ==
  /\ At(t, "spawn")
  /\ \E p \in FreeProcs :
       /\ proc' = [proc EXCEPT ![p] =
            IF th[t].op = "start"
            THEN [Free EXCEPT !.kind = "server", !.st = "starting", !.port = th[t].port]
            ELSE [Free EXCEPT !.kind = "client", !.st = "starting"]]
       /\ th' = [th EXCEPT ![t].mine = p, ![t].old = jobid,
                           ![t].pc = IF th[t].op = "start" THEN "wait" ELSE "number"]
  /\ UNCHANGED files

\* One of three looks finds a server on the port.
Wait(t) ==
  /\ At(t, "wait") /\ IsRunning(th[t].port)
  /\ handles' = [handles EXCEPT ![th[t].port] = th[t].mine]
  /\ Returns(t)
  /\ UNCHANGED <<jobs, jobid, draws, proc>>

\* None does: a server that is slow to bind is left without a handle.
GiveUp(t) ==
  /\ At(t, "wait") /\ ~ IsRunning(th[t].port)
  /\ "slow" \in Events \/ ~ Alive(th[t].mine)
  /\ Raises(t)
  /\ UNCHANGED <<files, proc>>

\* The handle a call is about.
Handle(t) == IF th[t].op = "stop" THEN handles[th[t].port] ELSE jobs[th[t].job].proc

\* Without a handle there is nothing to do.
Find(t) ==
  /\ At(t, "find")
  /\ IF Handle(t) = None THEN Returns(t)
     ELSE th' = [th EXCEPT ![t].mine = Handle(t),
                           ![t].pc = IF th[t].op = "info" THEN "poll" ELSE "kill"]
  /\ UNCHANGED <<files, proc>>

\* proc.kill(): the subprocess ends some time later, or at once.
Killed(p) ==
  [proc[p] EXCEPT !.st = IF "linger" \in Events /\ Alive(p) THEN "killed" ELSE "dead"]

Kill(t) ==
  /\ At(t, "kill")
  /\ proc' = [proc EXCEPT ![th[t].mine] = Killed(th[t].mine)]
  /\ Goto(t, "pop")
  /\ UNCHANGED files

\* pop() raises KeyError when another call has popped.
Pop(t) ==
  /\ At(t, "pop")
  /\ IF Handle(t) = None THEN Raises(t) ELSE Returns(t)
  /\ handles' = IF th[t].op = "stop" THEN [handles EXCEPT ![th[t].port] = None] ELSE handles
  /\ jobs' = IF th[t].op = "stop" THEN jobs ELSE [jobs EXCEPT ![th[t].job] = NoJob]
  /\ UNCHANGED <<jobid, draws, proc>>

-----------------------------------------------------------------------------
(* The rest of start_iperf_client, and get_client_job_info.                *)

\* The id is computed from one read before, and read again by the next lines.
Number(t) ==
  /\ At(t, "number")
  /\ jobid' = th[t].old + 1
  /\ Goto(t, "file")
  /\ UNCHANGED <<handles, jobs, draws, proc>>

Job(t) == [proc |-> th[t].mine, state |-> "running", result |-> None]

\* Mutant: the job is filed under the id before.
FileOld(t) ==
  /\ At(t, "file")
  /\ jobs' = [jobs EXCEPT ![IF th[t].old = 0 THEN jobid ELSE th[t].old] = Job(t)]
  /\ Goto(t, "answer")
  /\ UNCHANGED <<handles, jobid, draws, proc>>

File(t) ==
  /\ At(t, "file")
  /\ jobs' = [jobs EXCEPT ![jobid] = Job(t)]
  /\ Goto(t, "answer")
  /\ UNCHANGED <<handles, jobid, draws, proc>>

Answer(t) ==
  /\ At(t, "answer")
  /\ proc' = [proc EXCEPT ![th[t].mine].job = jobid]
  /\ Returns(t)
  /\ UNCHANGED files

\* A job that has been popped since raises KeyError, here and below.
Popped(t) == jobs[th[t].job] = NoJob

Poll(t) ==
  /\ At(t, "poll")
  /\ IF Popped(t) THEN Raises(t)
     ELSE IF Alive(th[t].mine) THEN Returns(t)
     ELSE Goto(t, IF jobs[th[t].job].result = None THEN "collect" ELSE "done")
  /\ UNCHANGED <<files, proc>>

\* communicate() reads what the pipe holds, which raises when it is closed.
Collect(t) ==
  /\ At(t, "collect")
  /\ IF proc[th[t].mine].closed THEN Raises(t) /\ UNCHANGED proc
     ELSE /\ th' = [th EXCEPT ![t].got = proc[th[t].mine].buf, ![t].pc = "close"]
          /\ proc' = [proc EXCEPT ![th[t].mine].buf = 0]
  /\ UNCHANGED files

\* Then it closes the pipe: a call that reads before that reads nothing.
Close(t) ==
  /\ At(t, "close")
  /\ proc' = [proc EXCEPT ![th[t].mine].closed = TRUE]
  /\ Goto(t, "save")
  /\ UNCHANGED files

\* Mutant: the state is set, and the result is not.
SaveState(t) ==
  /\ At(t, "save")
  /\ jobs' = [jobs EXCEPT ![th[t].job].state = "done"]
  /\ Goto(t, "done")
  /\ UNCHANGED <<handles, jobid, draws, proc>>

Save(t) ==
  /\ At(t, "save")
  /\ IF Popped(t) THEN Raises(t) /\ UNCHANGED jobs
     ELSE jobs' = [jobs EXCEPT ![th[t].job].result = th[t].got] /\ Goto(t, "done")
  /\ UNCHANGED <<handles, jobid, draws, proc>>

Done(t) ==
  /\ At(t, "done")
  /\ IF Popped(t) THEN Raises(t) /\ UNCHANGED jobs
     ELSE jobs' = [jobs EXCEPT ![th[t].job].state = "done"] /\ Returns(t)
  /\ UNCHANGED <<handles, jobid, draws, proc>>

-----------------------------------------------------------------------------
(* stop(): servers, then clients; the handles stay.                        *)

SweepServer(t) ==
  /\ At(t, "sweep")
  /\ \E q \in th[t].ports :
       /\ th' = [th EXCEPT ![t].ports = @ \ {q}]
       /\ IF handles[q] = None THEN UNCHANGED proc
          ELSE proc' = [proc EXCEPT ![handles[q]] = Killed(handles[q])]
  /\ UNCHANGED files

\* A job that is gone raises KeyError, and the others are not stopped.
SweepJob(t) ==
  /\ At(t, "sweep") /\ th[t].ports = {}
  /\ \/ th[t].ids = {} /\ Returns(t) /\ UNCHANGED proc
     \/ \E j \in th[t].ids :
          IF jobs[j] = NoJob THEN Raises(t) /\ UNCHANGED proc
          ELSE /\ proc' = [proc EXCEPT ![jobs[j].proc] = Killed(jobs[j].proc)]
               /\ th' = [th EXCEPT ![t].ids = @ \ {j}]
  /\ UNCHANGED files

-----------------------------------------------------------------------------
(* The subprocesses.                                                       *)

Becomes(p, st) == proc' = [proc EXCEPT ![p].st = st] /\ UNCHANGED <<files, th>>

\* A port has one listener: the next server on it ends at once.
Up(p) ==
  /\ proc[p].st = "starting"
  /\ Becomes(p, IF proc[p].kind = "server" /\ \E r \in Procs : Listens(r, proc[p].port)
                THEN "dead" ELSE "up")

\* A client writes, and blocks on a full pipe; nobody reads what a server writes.
Write(p) ==
  /\ proc[p].kind = "client" /\ proc[p].st = "up" /\ proc[p].left > 0 /\ proc[p].buf < Pipe
  /\ proc' = [proc EXCEPT ![p].left = @ - 1, ![p].buf = @ + 1]
  /\ UNCHANGED <<files, th>>

Exit(p) ==
  /\ \/ proc[p].st = "killed"
     \/ proc[p].kind = "client" /\ proc[p].st = "up" /\ proc[p].left = 0
  /\ Becomes(p, "dead")

Fails(p) == "death" \in Events /\ Running(p) /\ Becomes(p, "dead")

-----------------------------------------------------------------------------
Calls(t) ==
  \/ \E q \in Ports \cup {None} : BeginStartServer(t, q)
  \/ \E q \in Ports : BeginStopServer(t, q)
  \/ BeginStartClient(t) \/ BeginStopApp(t)
  \/ \E j \in JobIds : BeginStopClient(t, j) \/ BeginInfo(t, j)

Serve(t) ==
  \/ Draw(t) \/ Look(t) \/ Spawn(t) \/ Wait(t) \/ GiveUp(t) \/ Find(t) \/ Kill(t) \/ Pop(t)
  \/ Number(t) \/ File(t) \/ Answer(t) \/ Poll(t) \/ Collect(t) \/ Close(t) \/ Save(t) \/ Done(t)
  \/ SweepServer(t) \/ SweepJob(t) \/ Reply(t)

Live(p) == Up(p) \/ Write(p) \/ Exit(p)

Next ==
  \/ \E t \in Threads : Calls(t) \/ Serve(t)
  \/ \E p \in Procs : Live(p) \/ Fails(p)

Spec == Init /\ [][Next]_vars

-----------------------------------------------------------------------------
TypeOK ==
  /\ handles \in [Ports -> Procs \cup {None}]
  /\ jobs \in [JobIds -> [proc : Procs \cup {None}, state : {"none", "running", "done"},
                          result : 0..Output \cup {None}]]
  /\ jobid \in 0..LastJob /\ draws \in 0..Cardinality(Random)
  /\ proc \in [Procs -> [kind : {"none", "server", "client"}, port : Ports \cup {None},
                         st : {"none", "starting", "up", "killed", "dead"}, left : 0..Output,
                         buf : 0..Pipe, closed : BOOLEAN, job : 0..LastJob]]
  /\ \A t \in Threads : th[t].port \in Ports \cup {None} /\ th[t].mine \in Procs \cup {None}
                         /\ th[t].got \in 0..Output

(* When start_iperf_server has returned a port, the app has a handle of a  *)
(* server it started on that port, which stop_iperf_server can stop.       *)
StartStarts ==
  \A t \in Threads : (At(t, "reply") /\ th[t].op = "start" /\ th[t].ret = "ok") =>
    /\ handles[th[t].port] # None
    /\ proc[handles[th[t].port]].port = th[t].port

(* When stop_iperf_server has returned, no server that was started on the  *)
(* port is left running, unless another call is starting one.              *)
StopStops ==
  \A t \in Threads, p \in Procs :
    ( /\ At(t, "reply") /\ th[t].op = "stop" /\ th[t].ret = "ok"
      /\ proc[p].kind = "server" /\ proc[p].port = th[t].port
      /\ \A u \in Threads : ~ (th[u].op = "start" /\ th[u].port = th[t].port) )
        => ~ Running(p)

(* When stop_iperf_client has returned, no client that was started under   *)
(* that job id is left running.                                            *)
StopStopsClient ==
  \A t \in Threads, p \in Procs :
    (At(t, "reply") /\ th[t].op = "stopclient" /\ th[t].ret = "ok" /\ proc[p].job = th[t].job)
      => ~ Running(p)

\* What an iperf3 client has written.
Written(p) == Output - proc[p].left

(* A job that is reported done has ended and has a result (the test of the *)
(* app asserts it): all that its process wrote, when calls come one at a   *)
(* time. Two overlapping get_client_job_info may both read the pipe before *)
(* it is closed: then the job has the result of either, which is all that  *)
(* was written or nothing, and never a part of it.                         *)
DoneHasResult ==
  \A j \in JobIds : jobs[j].state = "done" =>
    /\ ~ Alive(jobs[j].proc)
    /\ \/ jobs[j].result = Written(jobs[j].proc)
       \/ jobs[j].result = 0 /\ \E t, u \in Threads : t # u

(* A call without a port fails only when the app has a server on each port.*)
OutOfPorts ==
  \A t \in Threads : (At(t, "reply") /\ th[t].op = "start" /\ th[t].mine = None /\ th[t].ret = "raised")
    => \A q \in Random : handles[q] # None
=============================================================================
