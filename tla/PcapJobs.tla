-------------------------------- MODULE PcapJobs --------------------------------
(***************************************************************************)
(* The TCPDump app: one tcpdump subprocess per capture file, started and   *)
(* stopped by the threads of the RPC server, which share the dictionary of *)
(* handles. stop_pcap interrupts tcpdump, waits a second for it to flush   *)
(* its file and exit, and only then kills it and drops the handle.         *)
(***************************************************************************)
EXTENDS Naturals, FiniteSets

CONSTANTS
  Threads,  \* threads that serve RPC requests
  Files,    \* capture files
  Procs,    \* bound: subprocesses that exist at a time
  None,     \* no file, no process
  Events    \* "death": tcpdump fails; "hang": it takes more than a second to exit

PcapAssumption ==
  /\ None \notin Files \cup Procs
  /\ IsFiniteSet(Files)
  /\ Events \subseteq {"death", "hang"}

VARIABLES
  handles,  \* _pcap_handles[f], or None
  proc,     \* proc[p]: a subprocess
  th        \* th[t]: the call thread t serves, and its local variables

vars == <<handles, proc, th>>

Free == [file |-> None, st |-> "none"]

\* seen, size: the files stop() has visited, and how many there were when it began.
NewCall(l, op, f, n) ==
  [pc |-> l, op |-> op, file |-> f, mine |-> None, seen |-> {}, size |-> n, ret |-> "none"]

Idle == NewCall("idle", "none", None, 0)

Handled == {f \in Files : handles[f] # None}

At(t, l) == th[t].pc = l

\* interrupted: it was sent SIGINT, and writes the rest of its file.
Alive(p) == proc[p].st \in {"up", "interrupted"}

\* Bound: subprocesses nothing refers to are used again.
FreeProcs ==
  {p \in Procs :
     ~ Alive(p) /\ (\A f \in Files : handles[f] # p) /\ \A t \in Threads : th[t].mine # p}

Goto(t, l) == th' = [th EXCEPT ![t].pc = l]

Ends(t, how) == th' = [th EXCEPT ![t].pc = "reply", ![t].ret = how]

-----------------------------------------------------------------------------
Init ==
  /\ handles = [f \in Files |-> None]
  /\ proc = [p \in Procs |-> Free]
  /\ th = [t \in Threads |-> Idle]

Begin(t, l, op, f, n) ==
  /\ At(t, "idle")
  /\ th' = [th EXCEPT ![t] = NewCall(l, op, f, n)]
  /\ UNCHANGED <<handles, proc>>

\* Bound: a subprocess is left for the call, and for the others that start one.
BeginStart(t, f) ==
  /\ Cardinality({u \in Threads : th[u].op = "start" /\ th[u].mine = None})
       < Cardinality(FreeProcs)
  /\ Begin(t, "look", "start", f, 0)

BeginStop(t, f) == Begin(t, "find", "stop", f, 0)
BeginIsRunning(t, f) == Begin(t, "ask", "isrunning", f, 0)
BeginStopApp(t) == Begin(t, "sweep", "stopapp", None, Cardinality(Handled))

Reply(t) ==
  /\ At(t, "reply")
  /\ th' = [th EXCEPT ![t] = Idle]
  /\ UNCHANGED <<handles, proc>>

-----------------------------------------------------------------------------
\* Mutant: a handle of a capture that goes on is no reason to refuse.
LookNever(t) ==
  /\ At(t, "look")
  /\ Goto(t, "spawn")
  /\ UNCHANGED <<handles, proc>>

\* Any handle for the file makes start_pcap raise TCPDumpRerunError.
Look(t) ==
  /\ At(t, "look")
  /\ IF handles[th[t].file] = None THEN Goto(t, "spawn") ELSE Ends(t, "rerun")
  /\ UNCHANGED <<handles, proc>>

Spawn(t) ==
  /\ At(t, "spawn")
  /\ \E p \in FreeProcs :
       /\ proc' = [proc EXCEPT ![p] = [file |-> th[t].file, st |-> "up"]]
       /\ th' = [th EXCEPT ![t].mine = p, ![t].pc = "keep"]
  /\ UNCHANGED handles

Keep(t) ==
  /\ At(t, "keep")
  /\ handles' = [handles EXCEPT ![th[t].file] = th[t].mine]
  /\ Ends(t, "ok")
  /\ UNCHANGED proc

-----------------------------------------------------------------------------
Find(t) ==
  /\ At(t, "find")
  /\ IF handles[th[t].file] = None
     THEN Ends(t, "none")
     ELSE th' = [th EXCEPT ![t].mine = handles[th[t].file], ![t].pc = "interrupt"]
  /\ UNCHANGED <<handles, proc>>

\* send_signal(SIGINT)
Interrupt(t) ==
  /\ At(t, "interrupt")
  /\ proc' = [proc EXCEPT ![th[t].mine].st = IF @ = "up" THEN "interrupted" ELSE @]
  /\ Goto(t, "wait")
  /\ UNCHANGED handles

\* Mutant: it does not wait for tcpdump to exit.
WaitNot(t) ==
  /\ At(t, "wait")
  /\ Goto(t, "kill")
  /\ UNCHANGED <<handles, proc>>

\* wait(timeout) returns when tcpdump has exited; a second later it raises
\* TimeoutExpired, and stop_pcap neither kills it nor drops the handle.
Wait(t) ==
  /\ At(t, "wait")
  /\ IF Alive(th[t].mine) THEN "hang" \in Events /\ Ends(t, "timeout") ELSE Goto(t, "kill")
  /\ UNCHANGED <<handles, proc>>

Kill(t) ==
  /\ At(t, "kill")
  /\ proc' = [proc EXCEPT ![th[t].mine].st = IF Alive(th[t].mine) THEN "cut" ELSE @]
  /\ Goto(t, "pop")
  /\ UNCHANGED handles

\* pop() raises KeyError when another call has popped.
Pop(t) ==
  /\ At(t, "pop")
  /\ handles' = [handles EXCEPT ![th[t].file] = None]
  /\ Ends(t, IF handles[th[t].file] = None THEN "raised" ELSE "ok")
  /\ UNCHANGED proc

\* is_running: without a handle, poll() of None raises AttributeError.
Ask(t) ==
  LET p == handles[th[t].file]
  IN /\ At(t, "ask")
     /\ Ends(t, IF p = None THEN "raised" ELSE IF Alive(p) THEN "yes" ELSE "no")
     /\ UNCHANGED <<handles, proc>>

\* stop(): kills each tcpdump and waits for its end, and keeps the handles. A
\* dictionary whose size has changed since it began raises RuntimeError.
Sweep(t) ==
  /\ At(t, "sweep")
  /\ IF Cardinality(Handled) # th[t].size THEN Ends(t, "raised") /\ UNCHANGED proc
     ELSE IF Handled \subseteq th[t].seen THEN Ends(t, "ok") /\ UNCHANGED proc
     ELSE \E f \in Handled \ th[t].seen :
            /\ proc' = [proc EXCEPT ![handles[f]].st = IF Alive(handles[f]) THEN "lost" ELSE @]
            /\ th' = [th EXCEPT ![t].seen = @ \cup {f}]
  /\ UNCHANGED handles

-----------------------------------------------------------------------------
\* tcpdump has written its file and exits.
Flush(p) ==
  /\ proc[p].st = "interrupted"
  /\ proc' = [proc EXCEPT ![p].st = "flushed"]
  /\ UNCHANGED <<handles, th>>

\* The interface does not exist, the disk is full.
Fails(p) ==
  /\ "death" \in Events /\ Alive(p)
  /\ proc' = [proc EXCEPT ![p].st = "failed"]
  /\ UNCHANGED <<handles, th>>

Calls(t) ==
  \/ \E f \in Files : BeginStart(t, f) \/ BeginStop(t, f) \/ BeginIsRunning(t, f)
  \/ BeginStopApp(t)

Serve(t) ==
  \/ Look(t) \/ Spawn(t) \/ Keep(t) \/ Find(t) \/ Interrupt(t) \/ Wait(t) \/ Kill(t)
  \/ Pop(t) \/ Ask(t) \/ Sweep(t) \/ Reply(t)

Next ==
  \/ \E t \in Threads : Calls(t) \/ Serve(t)
  \/ \E p \in Procs : Flush(p) \/ Fails(p)

Spec == Init /\ [][Next]_vars

-----------------------------------------------------------------------------
Process ==
  [file : Files \cup {None},
   st : {"none", "up", "interrupted", "flushed", "failed", "lost", "cut"}]

Call ==
  [pc : {"idle", "look", "spawn", "keep", "find", "interrupt", "wait", "kill", "pop", "ask",
         "sweep", "reply"},
   op : {"none", "start", "stop", "isrunning", "stopapp"},
   file : Files \cup {None}, mine : Procs \cup {None}, seen : SUBSET Files, size : Nat,
   ret : {"none", "ok", "rerun", "timeout", "raised", "yes", "no"}]

TypeOK ==
  /\ handles \in [Files -> Procs \cup {None}]
  /\ proc \in [Procs -> Process]
  /\ th \in [Threads -> Call]

(* Two captures never write the same file at a time (TCPDumpRerunError is  *)
(* there to refuse the second).                                            *)
OneCapture ==
  \A p, q \in Procs : (Alive(p) /\ Alive(q) /\ proc[p].file = proc[q].file) => p = q

(* stop_pcap never cuts a capture short: tcpdump has written its file when *)
(* that call kills it, whoever else stops it (stop kills what still runs). *)
NeverCut == \A p \in Procs : proc[p].st # "cut"

(* start_pcap refuses to start because a capture to the file goes on.      *)
RerunMeansRunning ==
  \A t \in Threads : (At(t, "reply") /\ th[t].ret = "rerun") =>
    \E p \in Procs : Alive(p) /\ proc[p].file = th[t].file

(* is_running answers for a file that has been captured, also when the     *)
(* capture has been stopped.                                               *)
Answers ==
  \A t \in Threads :
    (At(t, "reply") /\ th[t].op = "isrunning" /\ \E p \in Procs : proc[p].file = th[t].file)
      => th[t].ret # "raised"
=============================================================================
