----------------------------- MODULE AppJobsProofs -----------------------------
(***************************************************************************)
(* Proofs about the apps that run tcpdump and iperf3 for their callers     *)
(* (PcapJobs, IperfJobs), for any threads, files, ports, subprocesses and  *)
(* bounds.                                                                 *)
(***************************************************************************)
EXTENDS FiniteSetTheorems, TLAPS, Integers

CONSTANTS
  Threads, Procs, None,                                \* of both apps
  Files, PcapEvents,                                   \* of the tcpdump app
  Ports, Random, Seen, LastJob, Output, Pipe, Events   \* of the iperf3 app

VARIABLES
  captures, dump, rpc,                     \* of the tcpdump app
  handles, jobs, jobid, draws, proc, th    \* of the iperf3 app

Pcap == INSTANCE PcapJobs WITH
  Events <- PcapEvents, handles <- captures, proc <- dump, th <- rpc

Iperf == INSTANCE IperfJobs

(***************************************************************************)
(* The tcpdump app.                                                        *)
(***************************************************************************)
\* What pc says about the local variables of a call.
PcapLocals(t) ==
  /\ rpc[t].pc \in {"look", "spawn", "keep", "find", "interrupt", "wait", "kill", "pop", "ask"}
       => rpc[t].file \in Files
  /\ rpc[t].pc \in {"interrupt", "wait", "kill", "pop", "keep"} => rpc[t].mine \in Procs

\* The call is about to kill a tcpdump that has exited.
PcapExited(t) == rpc[t].pc = "kill" => ~ Pcap!Alive(rpc[t].mine)

PcapInv == Pcap!TypeOK /\ (\A t \in Threads : PcapLocals(t) /\ PcapExited(t)) /\ Pcap!NeverCut

-----------------------------------------------------------------------------
(* What a step does to the calls.                                          *)

\* Only the call of thread t changes.
PcapMoves(t) ==
  /\ rpc' \in [Threads -> Pcap!Call]
  /\ \A u \in Threads \ {t} : rpc'[u] = rpc[u]

\* No subprocess that a call is about to kill comes to life.
PcapStayDead ==
  \A u \in Threads :
    rpc[u].pc = "kill" /\ ~ Pcap!Alive(rpc[u].mine) => dump'[rpc[u].mine].st \notin {"up", "interrupted"}

LEMMA PcapCallsKept ==
  ASSUME PcapInv, NEW t \in Threads, PcapMoves(t), PcapLocals(t)', PcapExited(t)', PcapStayDead
  PROVE  (\A u \in Threads : PcapLocals(u) /\ PcapExited(u))'
<1> SUFFICES ASSUME NEW u \in Threads PROVE PcapLocals(u)' /\ PcapExited(u)'
  OBVIOUS
<1>1. CASE u = t
  BY <1>1
<1>2. CASE u # t
  <2>1. rpc'[u] = rpc[u]
    BY <1>2 DEF PcapMoves
  <2>2. PcapLocals(u) /\ PcapExited(u)
    BY DEF PcapInv
  <2>3. QED
    BY <2>1, <2>2 DEF PcapLocals, PcapExited, Pcap!Alive, PcapStayDead
<1>3. QED
  BY <1>1, <1>2

\* A step that leaves the subprocesses alone.
LEMMA PcapReadStep ==
  ASSUME PcapInv, NEW t \in Threads, PcapMoves(t), PcapLocals(t)', PcapExited(t)',
         captures' \in [Files -> Procs \cup {None}], UNCHANGED dump
  PROVE  PcapInv'
<1>1. Pcap!TypeOK'
  BY DEF PcapInv, Pcap!TypeOK, PcapMoves
<1>2. Pcap!NeverCut'
  BY DEF PcapInv, Pcap!NeverCut
<1>3. PcapStayDead
  BY DEF PcapStayDead, Pcap!Alive
<1>4. QED
  BY <1>1, <1>2, <1>3, PcapCallsKept DEF PcapInv

LEMMA PcapNewCallType ==
  ASSUME NEW l \in {"idle", "look", "find", "ask", "sweep"},
         NEW op \in {"none", "start", "stop", "isrunning", "stopapp"},
         NEW f \in Files \cup {None}, NEW n \in Nat
  PROVE  Pcap!NewCall(l, op, f, n) \in Pcap!Call /\ Pcap!NewCall(l, op, f, n).pc = l
         /\ Pcap!NewCall(l, op, f, n).file = f
BY DEF Pcap!NewCall, Pcap!Call

LEMMA PcapGotoMoves ==
  ASSUME Pcap!TypeOK, NEW t \in Threads, NEW l \in {"spawn", "wait", "kill", "pop"}, Pcap!Goto(t, l)
  PROVE  /\ PcapMoves(t)
         /\ rpc'[t].pc = l /\ rpc'[t].mine = rpc[t].mine /\ rpc'[t].file = rpc[t].file
BY DEF Pcap!TypeOK, PcapMoves, Pcap!Goto, Pcap!Call

LEMMA PcapEndsMoves ==
  ASSUME Pcap!TypeOK, NEW t \in Threads, NEW how, Pcap!Ends(t, how),
         how \in {"ok", "none", "rerun", "timeout", "raised", "yes", "no"}
  PROVE  PcapMoves(t) /\ PcapLocals(t)' /\ PcapExited(t)' /\ rpc'[t].pc = "reply"
<1>1. rpc[t] \in Pcap!Call /\ rpc \in [Threads -> Pcap!Call]
  BY DEF Pcap!TypeOK
<1> DEFINE d == [rpc[t] EXCEPT !.pc = "reply"]
           c == [d EXCEPT !.ret = how]
<1>2. d \in Pcap!Call /\ d.pc = "reply"
  BY <1>1 DEF Pcap!Call
<1>3. c \in Pcap!Call /\ c.pc = "reply"
  <2> HIDE DEF d
  <2> QED BY <1>2 DEF Pcap!Call
<1>4. rpc' = [rpc EXCEPT ![t] = c]
  BY <1>1, Zenon DEF Pcap!Ends
<1> HIDE DEF c
<1>5. rpc'[t] = c
  BY <1>1, <1>4
<1>6. QED
  BY <1>1, <1>3, <1>4, <1>5 DEF PcapMoves, PcapLocals, PcapExited

-----------------------------------------------------------------------------
(* Calls that begin and end, and steps that only look.                     *)

LEMMA PcapBeginKeeps ==
  ASSUME PcapInv, NEW t \in Threads, NEW l \in {"look", "find", "ask", "sweep"},
         NEW op \in {"start", "stop", "isrunning", "stopapp"},
         NEW f \in Files \cup {None}, NEW n \in Nat, l # "sweep" => f \in Files,
         Pcap!Begin(t, l, op, f, n)
  PROVE  PcapInv'
<1> DEFINE c == Pcap!NewCall(l, op, f, n)
<1>1. c \in Pcap!Call /\ c.pc = l /\ c.file = f
  BY PcapNewCallType
<1>2. rpc \in [Threads -> Pcap!Call] /\ rpc' = [rpc EXCEPT ![t] = c]
  BY DEF PcapInv, Pcap!TypeOK, Pcap!Begin
<1> HIDE DEF c
<1>3. PcapMoves(t) /\ rpc'[t] = c
  BY <1>1, <1>2 DEF PcapMoves
<1>4. PcapLocals(t)' /\ PcapExited(t)'
  BY <1>1, <1>3 DEF PcapLocals, PcapExited
<1>5. QED
  BY <1>3, <1>4, PcapReadStep DEF Pcap!Begin, PcapInv, Pcap!TypeOK

LEMMA PcapCallsKeep ==
  ASSUME PcapInv, IsFiniteSet(Files), NEW t \in Threads, Pcap!Calls(t)
  PROVE  PcapInv'
<1>1. Pcap!Cardinality(Pcap!Handled) \in Nat
  <2>1. Cardinality(Pcap!Handled) \in Nat
    BY FS_Subset, FS_CardinalityType DEF Pcap!Handled
  <2>2. QED
    BY <2>1 DEF Pcap!Cardinality, Cardinality
<1>2. ASSUME NEW f \in Files,
             Pcap!BeginStart(t, f) \/ Pcap!BeginStop(t, f) \/ Pcap!BeginIsRunning(t, f)
      PROVE  PcapInv'
  BY <1>2, PcapBeginKeeps DEF Pcap!BeginStart, Pcap!BeginStop, Pcap!BeginIsRunning
<1>3. ASSUME Pcap!BeginStopApp(t) PROVE PcapInv'
  BY <1>1, <1>3, PcapBeginKeeps DEF Pcap!BeginStopApp
<1>4. QED
  BY <1>2, <1>3 DEF Pcap!Calls

\* A step that ends a call and leaves the subprocesses alone.
LEMMA PcapEndKeeps ==
  ASSUME PcapInv, NEW t \in Threads, NEW how, Pcap!Ends(t, how),
         how \in {"ok", "none", "rerun", "timeout", "raised", "yes", "no"},
         captures' \in [Files -> Procs \cup {None}], UNCHANGED dump
  PROVE  PcapInv'
BY PcapEndsMoves, PcapReadStep DEF PcapInv

LEMMA PcapReplyKeeps ==
  ASSUME PcapInv, NEW t \in Threads, Pcap!Reply(t)
  PROVE  PcapInv'
<1>1. Pcap!Idle \in Pcap!Call /\ Pcap!Idle.pc = "idle"
  BY PcapNewCallType DEF Pcap!Idle
<1>2. rpc \in [Threads -> Pcap!Call] /\ rpc' = [rpc EXCEPT ![t] = Pcap!Idle]
  BY DEF PcapInv, Pcap!TypeOK, Pcap!Reply
<1>3. PcapMoves(t) /\ rpc'[t].pc = "idle"
  BY <1>1, <1>2 DEF PcapMoves
<1>4. QED
  BY <1>3, PcapReadStep DEF Pcap!Reply, PcapInv, Pcap!TypeOK, PcapLocals, PcapExited

LEMMA PcapLookKeeps ==
  ASSUME PcapInv, NEW t \in Threads, Pcap!Look(t)
  PROVE  PcapInv'
<1>1. CASE Pcap!Ends(t, "rerun")
  BY <1>1, PcapEndKeeps DEF Pcap!Look, PcapInv, Pcap!TypeOK
<1>2. CASE Pcap!Goto(t, "spawn")
  <2>1. rpc[t].file \in Files
    BY DEF PcapInv, PcapLocals, Pcap!Look, Pcap!At
  <2>2. PcapMoves(t) /\ rpc'[t].pc = "spawn" /\ rpc'[t].file = rpc[t].file
    BY <1>2, PcapGotoMoves DEF PcapInv
  <2>3. QED
    BY <2>1, <2>2, PcapReadStep DEF Pcap!Look, PcapInv, Pcap!TypeOK, PcapLocals, PcapExited
<1>3. QED
  BY <1>1, <1>2 DEF Pcap!Look

LEMMA PcapKeepKeeps ==
  ASSUME PcapInv, NEW t \in Threads, Pcap!Keep(t)
  PROVE  PcapInv'
<1>1. rpc[t].mine \in Procs /\ rpc[t].file \in Files
  BY DEF PcapInv, PcapLocals, Pcap!Keep, Pcap!At
<1>2. QED
  BY <1>1, PcapEndKeeps DEF Pcap!Keep, PcapInv, Pcap!TypeOK

\* A call that holds subprocess p and goes on at label l.
LEMMA PcapHoldsMoves ==
  ASSUME Pcap!TypeOK, NEW t \in Threads, NEW p \in Procs, NEW l \in {"interrupt", "keep"},
         rpc' = [rpc EXCEPT ![t].mine = p, ![t].pc = l]
  PROVE  /\ PcapMoves(t)
         /\ rpc'[t].pc = l /\ rpc'[t].mine = p /\ rpc'[t].file = rpc[t].file
<1>1. rpc[t] \in Pcap!Call /\ rpc \in [Threads -> Pcap!Call]
  BY DEF Pcap!TypeOK
<1> DEFINE d == [rpc[t] EXCEPT !.mine = p]
           c == [d EXCEPT !.pc = l]
<1>2. d \in Pcap!Call /\ d.mine = p /\ d.file = rpc[t].file
  BY <1>1 DEF Pcap!Call
<1>3. c \in Pcap!Call /\ c.pc = l /\ c.mine = p /\ c.file = rpc[t].file
  <2> HIDE DEF d
  <2> QED BY <1>2 DEF Pcap!Call
<1>4. rpc' = [rpc EXCEPT ![t] = c]
  BY <1>1, Zenon
<1> HIDE DEF c
<1>5. QED
  BY <1>1, <1>3, <1>4 DEF PcapMoves

LEMMA PcapFindKeeps ==
  ASSUME PcapInv, NEW t \in Threads, Pcap!Find(t)
  PROVE  PcapInv'
<1>1. rpc[t].file \in Files
  BY DEF PcapInv, PcapLocals, Pcap!Find, Pcap!At
<1>2. CASE captures[rpc[t].file] = None
  BY <1>2, PcapEndKeeps DEF Pcap!Find, PcapInv, Pcap!TypeOK
<1>3. CASE captures[rpc[t].file] # None
  <2>1. captures[rpc[t].file] \in Procs
    BY <1>1, <1>3 DEF PcapInv, Pcap!TypeOK
  <2>2. /\ PcapMoves(t)
        /\ rpc'[t].pc = "interrupt" /\ rpc'[t].mine \in Procs /\ rpc'[t].file \in Files
    BY <1>1, <1>3, <2>1, PcapHoldsMoves DEF Pcap!Find, PcapInv
  <2>3. QED
    BY <2>2, PcapReadStep DEF Pcap!Find, PcapInv, Pcap!TypeOK, PcapLocals, PcapExited
<1>4. QED
  BY <1>2, <1>3

LEMMA PcapWaitKeeps ==
  ASSUME PcapInv, NEW t \in Threads, Pcap!Wait(t)
  PROVE  PcapInv'
<1>1. rpc[t].file \in Files /\ rpc[t].mine \in Procs
  BY DEF PcapInv, PcapLocals, Pcap!Wait, Pcap!At
<1>2. CASE Pcap!Alive(rpc[t].mine)
  BY <1>2, PcapEndKeeps DEF Pcap!Wait, PcapInv, Pcap!TypeOK
<1>3. CASE ~ Pcap!Alive(rpc[t].mine)
  <2>1. /\ PcapMoves(t)
        /\ rpc'[t].pc = "kill" /\ rpc'[t].mine = rpc[t].mine /\ rpc'[t].file = rpc[t].file
    BY <1>3, PcapGotoMoves DEF Pcap!Wait, PcapInv
  <2>2. PcapLocals(t)' /\ PcapExited(t)'
    BY <1>1, <1>3, <2>1 DEF PcapLocals, PcapExited, Pcap!Alive, Pcap!Wait
  <2>3. QED
    BY <2>1, <2>2, PcapReadStep DEF Pcap!Wait, PcapInv, Pcap!TypeOK
<1>4. QED
  BY <1>2, <1>3

LEMMA PcapPopKeeps ==
  ASSUME PcapInv, NEW t \in Threads, Pcap!Pop(t)
  PROVE  PcapInv'
<1>1. captures' \in [Files -> Procs \cup {None}]
  BY DEF Pcap!Pop, PcapInv, Pcap!TypeOK
<1>2. QED
  BY <1>1, PcapEndKeeps DEF Pcap!Pop

LEMMA PcapAskKeeps ==
  ASSUME PcapInv, NEW t \in Threads, Pcap!Ask(t)
  PROVE  PcapInv'
BY PcapEndKeeps DEF Pcap!Ask, PcapInv, Pcap!TypeOK

-----------------------------------------------------------------------------
(* Steps that change a subprocess.                                         *)

LEMMA PcapProcStep ==
  ASSUME PcapInv, NEW p \in Procs,
         NEW s \in {"none", "up", "interrupted", "flushed", "failed", "lost"},
         s \in {"up", "interrupted"} => Pcap!Alive(p),
         dump' = [dump EXCEPT ![p].st = s]
  PROVE  dump' \in [Procs -> Pcap!Process] /\ Pcap!NeverCut' /\ PcapStayDead
<1>1. dump \in [Procs -> Pcap!Process] /\ dump[p] \in Pcap!Process
  BY DEF PcapInv, Pcap!TypeOK
<1>2. /\ dump' \in [Procs -> Pcap!Process] /\ dump'[p].st = s
      /\ \A q \in Procs \ {p} : dump'[q] = dump[q]
  BY <1>1 DEF Pcap!Process
<1>3. Pcap!NeverCut'
  BY <1>2 DEF PcapInv, Pcap!NeverCut
<1>4. PcapStayDead
  BY <1>2 DEF PcapStayDead, Pcap!Alive, PcapInv, PcapLocals
<1>5. QED
  BY <1>2, <1>3, <1>4

\* The calls and the handles are well formed after the step, and the rest is a ProcStep.
LEMMA PcapProcKeeps ==
  ASSUME PcapInv, NEW t \in Threads, PcapMoves(t), PcapLocals(t)', PcapExited(t)',
         dump' \in [Procs -> Pcap!Process], Pcap!NeverCut', PcapStayDead, UNCHANGED captures
  PROVE  PcapInv'
<1>1. Pcap!TypeOK'
  BY DEF PcapInv, Pcap!TypeOK, PcapMoves
<1>2. QED
  BY <1>1, PcapCallsKept DEF PcapInv

LEMMA PcapSpawnKeeps ==
  ASSUME PcapInv, NEW t \in Threads, Pcap!Spawn(t)
  PROVE  PcapInv'
<1>1. PICK p \in Pcap!FreeProcs :
         /\ dump' = [dump EXCEPT ![p] = [file |-> rpc[t].file, st |-> "up"]]
         /\ rpc' = [rpc EXCEPT ![t].mine = p, ![t].pc = "keep"]
  BY DEF Pcap!Spawn
<1>2. p \in Procs /\ \A u \in Threads : rpc[u].mine # p
  BY DEF Pcap!FreeProcs
<1>3. rpc[t].file \in Files
  BY DEF PcapInv, PcapLocals, Pcap!Spawn, Pcap!At
<1>4. PcapMoves(t) /\ rpc'[t].pc = "keep" /\ rpc'[t].mine = p /\ rpc'[t].file = rpc[t].file
  BY <1>1, <1>2, PcapHoldsMoves DEF PcapInv
<1>5. /\ dump' \in [Procs -> Pcap!Process] /\ dump'[p].st = "up"
      /\ \A q \in Procs \ {p} : dump'[q] = dump[q]
  BY <1>1, <1>2, <1>3 DEF PcapInv, Pcap!TypeOK, Pcap!Process
<1>6. Pcap!NeverCut' /\ PcapStayDead
  BY <1>2, <1>5 DEF PcapInv, Pcap!NeverCut, PcapStayDead, Pcap!Alive, PcapLocals
<1>7. PcapLocals(t)' /\ PcapExited(t)'
  BY <1>2, <1>3, <1>4 DEF PcapLocals, PcapExited
<1>8. QED
  BY <1>4, <1>5, <1>6, <1>7, PcapProcKeeps DEF Pcap!Spawn

LEMMA PcapInterruptKeeps ==
  ASSUME PcapInv, NEW t \in Threads, Pcap!Interrupt(t)
  PROVE  PcapInv'
<1> DEFINE p == rpc[t].mine
           s == IF dump[p].st = "up" THEN "interrupted" ELSE dump[p].st
<1>1. p \in Procs /\ rpc[t].file \in Files /\ dump[p] \in Pcap!Process /\ dump[p].st # "cut"
  BY DEF PcapInv, PcapLocals, Pcap!Interrupt, Pcap!At, Pcap!TypeOK, Pcap!NeverCut
<1>2. dump' = [dump EXCEPT ![p].st = s]
  BY DEF Pcap!Interrupt
<1>3. /\ s \in {"none", "up", "interrupted", "flushed", "failed", "lost"}
      /\ s \in {"up", "interrupted"} => Pcap!Alive(p)
  BY <1>1 DEF Pcap!Process, Pcap!Alive
<1>4. dump' \in [Procs -> Pcap!Process] /\ Pcap!NeverCut' /\ PcapStayDead
  <2> HIDE DEF s, p
  <2> QED BY <1>1, <1>2, <1>3, PcapProcStep
<1>5. PcapMoves(t) /\ rpc'[t].pc = "wait" /\ rpc'[t].mine = p /\ rpc'[t].file = rpc[t].file
  BY PcapGotoMoves DEF Pcap!Interrupt, PcapInv
<1>6. PcapLocals(t)' /\ PcapExited(t)'
  BY <1>1, <1>5 DEF PcapLocals, PcapExited
<1>7. QED
  BY <1>4, <1>5, <1>6, PcapProcKeeps DEF Pcap!Interrupt

\* What is killed has exited before.
LEMMA PcapKillKeeps ==
  ASSUME PcapInv, NEW t \in Threads, Pcap!Kill(t)
  PROVE  PcapInv'
<1> DEFINE p == rpc[t].mine
<1>1. p \in Procs /\ rpc[t].file \in Files /\ ~ Pcap!Alive(p)
  BY DEF PcapInv, PcapLocals, PcapExited, Pcap!Kill, Pcap!At
<1>2. dump' = dump
  BY <1>1 DEF Pcap!Kill, PcapInv, Pcap!TypeOK, Pcap!Process
<1>3. PcapMoves(t) /\ rpc'[t].pc = "pop" /\ rpc'[t].mine = p /\ rpc'[t].file = rpc[t].file
  BY PcapGotoMoves DEF Pcap!Kill, PcapInv
<1>4. PcapLocals(t)' /\ PcapExited(t)'
  BY <1>1, <1>3 DEF PcapLocals, PcapExited
<1>5. QED
  BY <1>2, <1>3, <1>4, PcapReadStep DEF Pcap!Kill, PcapInv, Pcap!TypeOK

LEMMA PcapSweepKeeps ==
  ASSUME PcapInv, NEW t \in Threads, Pcap!Sweep(t)
  PROVE  PcapInv'
<1>1. CASE \E how \in {"raised", "ok"} : Pcap!Ends(t, how) /\ UNCHANGED dump
  BY <1>1, PcapEndKeeps DEF Pcap!Sweep, PcapInv, Pcap!TypeOK
<1>2. ASSUME NEW f \in Pcap!Handled \ rpc[t].seen,
             dump' = [dump EXCEPT ![captures[f]].st = IF Pcap!Alive(captures[f]) THEN "lost" ELSE @],
             rpc' = [rpc EXCEPT ![t].seen = @ \cup {f}]
      PROVE  PcapInv'
  <2> DEFINE p == captures[f]
             s == IF Pcap!Alive(p) THEN "lost" ELSE dump[p].st
  <2>1. f \in Files /\ p \in Procs /\ dump[p] \in Pcap!Process /\ dump[p].st # "cut"
    BY DEF PcapInv, Pcap!TypeOK, Pcap!Handled, Pcap!NeverCut
  <2>2. dump' = [dump EXCEPT ![p].st = s]
    BY <1>2
  <2>3. /\ s \in {"none", "up", "interrupted", "flushed", "failed", "lost"}
        /\ s \in {"up", "interrupted"} => Pcap!Alive(p)
    BY <2>1 DEF Pcap!Process, Pcap!Alive
  <2>4. dump' \in [Procs -> Pcap!Process] /\ Pcap!NeverCut' /\ PcapStayDead
    <3> HIDE DEF s, p
    <3> QED BY <2>1, <2>2, <2>3, PcapProcStep
  <2>5. PcapMoves(t) /\ rpc'[t].pc = "sweep"
    <3> DEFINE d == [rpc[t] EXCEPT !.seen = @ \cup {f}]
    <3>1. rpc \in [Threads -> Pcap!Call] /\ rpc[t] \in Pcap!Call /\ rpc[t].pc = "sweep"
      BY DEF PcapInv, Pcap!TypeOK, Pcap!Sweep, Pcap!At
    <3>2. d \in Pcap!Call /\ d.pc = "sweep"
      BY <2>1, <3>1 DEF Pcap!Call
    <3>3. rpc' = [rpc EXCEPT ![t] = d]
      BY <1>2
    <3> HIDE DEF d
    <3> QED BY <3>1, <3>2, <3>3 DEF PcapMoves
  <2>6. PcapLocals(t)' /\ PcapExited(t)'
    BY <2>5 DEF PcapLocals, PcapExited
  <2>7. QED
    BY <2>4, <2>5, <2>6, PcapProcKeeps DEF Pcap!Sweep
<1>3. QED
  BY <1>1, <1>2 DEF Pcap!Sweep

\* The subprocesses by themselves.
LEMMA PcapSubprocessKeeps ==
  ASSUME PcapInv, NEW p \in Procs, Pcap!Flush(p) \/ Pcap!Fails(p)
  PROVE  PcapInv'
<1>1. dump' \in [Procs -> Pcap!Process] /\ Pcap!NeverCut' /\ PcapStayDead
  BY PcapProcStep DEF Pcap!Flush, Pcap!Fails
<1>2. UNCHANGED <<captures, rpc>>
  BY DEF Pcap!Flush, Pcap!Fails
<1>3. Pcap!TypeOK'
  BY <1>1, <1>2 DEF PcapInv, Pcap!TypeOK
<1>4. ASSUME NEW t \in Threads PROVE PcapLocals(t)' /\ PcapExited(t)'
  BY <1>1, <1>2 DEF PcapInv, PcapLocals, PcapExited, PcapStayDead, Pcap!Alive
<1>5. QED
  BY <1>1, <1>3, <1>4 DEF PcapInv

-----------------------------------------------------------------------------
(* Two captures to a file, when calls do not overlap.                      *)

OneAtATime == \A t, u \in Threads : t = u

\* A capture that goes on is the one the handle of its file is of, or the one
\* that start_pcap is about to keep.
PcapKept ==
  \A p \in Procs : Pcap!Alive(p) =>
    /\ dump[p].file \in Files
    /\ \/ captures[dump[p].file] = p
       \/ \E t \in Threads : rpc[t].pc = "keep" /\ rpc[t].mine = p /\ rpc[t].file = dump[p].file

\* What start_pcap has looked up, and stop_pcap has found, is still so.
PcapFresh(t) ==
  /\ rpc[t].pc \in {"spawn", "keep"} => captures[rpc[t].file] = None
  /\ rpc[t].pc = "spawn" => \A p \in Procs : Pcap!Alive(p) => dump[p].file # rpc[t].file
  /\ rpc[t].pc \in {"interrupt", "wait", "kill", "pop"} => captures[rpc[t].file] = rpc[t].mine
  /\ rpc[t].pc = "pop" => ~ Pcap!Alive(rpc[t].mine)

OneInv == PcapInv /\ PcapKept /\ \A t \in Threads : PcapFresh(t)

\* Captures at most end.
PcapOnlyEnd == \A p \in Procs : (Pcap!Alive(p)' => Pcap!Alive(p)) /\ dump'[p].file = dump[p].file

\* A step that leaves the handles alone, and is not about to keep one.
LEMMA PcapStillKept ==
  ASSUME OneAtATime, OneInv, NEW t \in Threads, rpc[t].pc # "keep", UNCHANGED captures, PcapOnlyEnd
  PROVE  PcapKept'
BY DEF OneAtATime, OneInv, PcapKept, PcapOnlyEnd

LEMMA PcapSameEnd == ASSUME UNCHANGED dump PROVE PcapOnlyEnd
BY DEF PcapOnlyEnd, Pcap!Alive

LEMMA OneEnds ==
  ASSUME PcapInv, NEW p \in Procs, NEW s, dump' = [dump EXCEPT ![p].st = s],
         s \in {"up", "interrupted"} => Pcap!Alive(p)
  PROVE  PcapOnlyEnd
BY DEF PcapInv, Pcap!TypeOK, Pcap!Process, PcapOnlyEnd, Pcap!Alive

LEMMA OneStep ==
  ASSUME OneAtATime, OneInv, PcapInv', NEW t \in Threads, PcapKept', PcapFresh(t)'
  PROVE  OneInv'
BY DEF OneAtATime, OneInv

\* A call that is at none of the places Fresh speaks of.
LEMMA PcapRestStep ==
  ASSUME OneAtATime, OneInv, PcapInv', NEW t \in Threads, rpc[t].pc # "keep", UNCHANGED captures,
         PcapOnlyEnd,
         rpc'[t].pc \notin {"spawn", "keep", "interrupt", "wait", "kill", "pop"}
  PROVE  OneInv'
<1>1. PcapFresh(t)'
  BY DEF PcapFresh
<1>2. QED
  BY <1>1, PcapStillKept, OneStep

LEMMA OneBegin ==
  ASSUME OneAtATime, OneInv, PcapInv', NEW t \in Threads,
         NEW l \in {"look", "find", "ask", "sweep"},
         NEW op, NEW f, NEW n, Pcap!Begin(t, l, op, f, n)
  PROVE  OneInv'
<1>1. rpc'[t].pc = l /\ rpc[t].pc = "idle"
  BY DEF OneInv, PcapInv, Pcap!TypeOK, Pcap!Begin, Pcap!NewCall, Pcap!At
<1>2. QED
  BY <1>1, PcapSameEnd, PcapRestStep DEF Pcap!Begin

LEMMA OneCalls ==
  ASSUME OneAtATime, OneInv, PcapInv', NEW t \in Threads, Pcap!Calls(t)
  PROVE  OneInv'
BY OneBegin DEF Pcap!Calls, Pcap!BeginStart, Pcap!BeginStop, Pcap!BeginIsRunning, Pcap!BeginStopApp

LEMMA OneReply ==
  ASSUME OneAtATime, OneInv, PcapInv', NEW t \in Threads, Pcap!Reply(t)
  PROVE  OneInv'
<1>1. rpc'[t].pc = "idle" /\ rpc[t].pc = "reply"
  BY DEF OneInv, PcapInv, Pcap!TypeOK, Pcap!Reply, Pcap!Idle, Pcap!NewCall, Pcap!At
<1>2. QED
  BY <1>1, PcapSameEnd, PcapRestStep DEF Pcap!Reply

LEMMA OneEnd ==
  ASSUME OneAtATime, OneInv, PcapInv', NEW t \in Threads, NEW how, Pcap!Ends(t, how),
         how \in {"ok", "none", "rerun", "timeout", "raised", "yes", "no"},
         rpc[t].pc # "keep", UNCHANGED <<captures, dump>>
  PROVE  OneInv'
<1>1. rpc'[t].pc = "reply"
  BY PcapEndsMoves DEF OneInv, PcapInv
<1>2. QED
  BY <1>1, PcapSameEnd, PcapRestStep

LEMMA OneLook ==
  ASSUME Pcap!PcapAssumption, OneAtATime, OneInv, PcapInv', NEW t \in Threads, Pcap!Look(t)
  PROVE  OneInv'
<1>1. rpc[t].pc = "look" /\ UNCHANGED <<captures, dump>>
  BY DEF Pcap!Look, Pcap!At
<1>2. CASE Pcap!Ends(t, "rerun")
  BY <1>1, <1>2, OneEnd
<1>3. CASE captures[rpc[t].file] = None /\ Pcap!Goto(t, "spawn")
  <2>1. rpc'[t].pc = "spawn" /\ rpc'[t].file = rpc[t].file
    BY <1>3, PcapGotoMoves DEF OneInv, PcapInv
  <2>2. \A p \in Procs : Pcap!Alive(p) => dump[p].file # rpc[t].file
    BY <1>1, <1>3 DEF OneInv, PcapKept, OneAtATime, Pcap!PcapAssumption
  <2>3. PcapFresh(t)'
    BY <1>1, <1>3, <2>1, <2>2 DEF PcapFresh, Pcap!Alive
  <2>4. QED
    BY <1>1, <2>3, PcapSameEnd, PcapStillKept, OneStep
<1>4. QED
  BY <1>2, <1>3 DEF Pcap!Look

LEMMA OneSpawn ==
  ASSUME OneAtATime, OneInv, PcapInv', NEW t \in Threads, Pcap!Spawn(t)
  PROVE  OneInv'
<1>1. PICK p \in Procs :
         /\ dump' = [dump EXCEPT ![p] = [file |-> rpc[t].file, st |-> "up"]]
         /\ rpc' = [rpc EXCEPT ![t].mine = p, ![t].pc = "keep"]
  BY DEF Pcap!Spawn, Pcap!FreeProcs
<1>2. rpc[t].pc = "spawn" /\ rpc[t].file \in Files /\ PcapFresh(t) /\ UNCHANGED captures
  BY DEF OneInv, PcapInv, PcapLocals, Pcap!Spawn, Pcap!At
<1>3. rpc'[t].pc = "keep" /\ rpc'[t].mine = p /\ rpc'[t].file = rpc[t].file
  BY <1>1, PcapHoldsMoves DEF OneInv, PcapInv
<1>4. /\ dump'[p].file = rpc[t].file
      /\ \A q \in Procs \ {p} : dump'[q] = dump[q]
  BY <1>1 DEF OneInv, PcapInv, Pcap!TypeOK
<1>5. PcapKept'
  <2> SUFFICES ASSUME NEW q \in Procs, Pcap!Alive(q)'
               PROVE  /\ dump'[q].file \in Files
                      /\ \/ captures'[dump'[q].file] = q
                         \/ \E u \in Threads :
                              rpc'[u].pc = "keep" /\ rpc'[u].mine = q /\ rpc'[u].file = dump'[q].file
    BY DEF PcapKept
  <2>1. CASE q = p
    BY <1>2, <1>3, <1>4, <2>1
  <2>2. CASE q # p
    BY <1>2, <1>4, <2>2 DEF OneInv, PcapKept, Pcap!Alive, OneAtATime
  <2>3. QED
    BY <2>1, <2>2
<1>6. PcapFresh(t)'
  BY <1>2, <1>3 DEF PcapFresh
<1>7. QED
  BY <1>5, <1>6, OneStep

LEMMA OneKeep ==
  ASSUME Pcap!PcapAssumption, OneAtATime, OneInv, PcapInv', NEW t \in Threads, Pcap!Keep(t)
  PROVE  OneInv'
<1>1. /\ rpc[t].pc = "keep" /\ rpc[t].file \in Files /\ PcapFresh(t) /\ captures[rpc[t].file] = None
      /\ captures' = [captures EXCEPT ![rpc[t].file] = rpc[t].mine]
      /\ captures \in [Files -> Procs \cup {None}] /\ UNCHANGED dump
  BY DEF OneInv, PcapInv, Pcap!TypeOK, PcapLocals, Pcap!Keep, Pcap!At, PcapFresh
<1>2. rpc'[t].pc = "reply"
  BY PcapEndsMoves DEF OneInv, PcapInv, Pcap!Keep
<1>3. PcapKept'
  <2> SUFFICES ASSUME NEW q \in Procs, Pcap!Alive(q)
               PROVE  dump[q].file \in Files /\ captures'[dump[q].file] = q
    BY <1>1 DEF PcapKept, Pcap!Alive
  <2>1. dump[q].file \in Files
    BY DEF OneInv, PcapKept
  <2>2. CASE captures[dump[q].file] = q
    BY <1>1, <2>1, <2>2 DEF Pcap!PcapAssumption
  <2>3. CASE rpc[t].mine = q /\ rpc[t].file = dump[q].file
    BY <1>1, <2>1, <2>3
  <2>4. QED
    BY <2>1, <2>2, <2>3 DEF OneInv, PcapKept, OneAtATime
<1>4. PcapFresh(t)'
  BY <1>2 DEF PcapFresh
<1>5. QED
  BY <1>3, <1>4, OneStep

LEMMA OneFind ==
  ASSUME OneAtATime, OneInv, PcapInv', NEW t \in Threads, Pcap!Find(t)
  PROVE  OneInv'
<1>1. rpc[t].pc = "find" /\ rpc[t].file \in Files /\ UNCHANGED <<captures, dump>>
  BY DEF OneInv, PcapInv, PcapLocals, Pcap!Find, Pcap!At
<1>2. CASE captures[rpc[t].file] = None
  BY <1>1, <1>2, OneEnd DEF Pcap!Find
<1>3. CASE captures[rpc[t].file] # None
  <2>1. captures[rpc[t].file] \in Procs
    BY <1>1, <1>3 DEF OneInv, PcapInv, Pcap!TypeOK
  <2>2. /\ rpc'[t].pc = "interrupt" /\ rpc'[t].mine = captures[rpc[t].file]
        /\ rpc'[t].file = rpc[t].file
    BY <1>3, <2>1, PcapHoldsMoves DEF Pcap!Find, OneInv, PcapInv
  <2>3. PcapFresh(t)'
    BY <1>1, <2>2 DEF PcapFresh
  <2>4. QED
    BY <1>1, <2>3, PcapSameEnd, PcapStillKept, OneStep
<1>4. QED
  BY <1>2, <1>3

\* A call that holds the handle of its file goes on, and it is still of its file.
LEMMA OneGoes ==
  ASSUME OneAtATime, OneInv, PcapInv', NEW t \in Threads, NEW l \in {"wait", "kill", "pop"},
         Pcap!Goto(t, l),
         rpc[t].pc \in {"interrupt", "wait", "kill"}, UNCHANGED captures, PcapOnlyEnd,
         l = "pop" => ~ Pcap!Alive(rpc[t].mine)
  PROVE  OneInv'
<1>1. rpc'[t].pc = l /\ rpc'[t].mine = rpc[t].mine /\ rpc'[t].file = rpc[t].file
  BY PcapGotoMoves DEF OneInv, PcapInv
<1>2. rpc[t].mine \in Procs /\ PcapFresh(t)
  BY DEF OneInv, PcapInv, PcapLocals
<1>3. PcapFresh(t)'
  BY <1>1, <1>2 DEF PcapFresh, PcapOnlyEnd, Pcap!Alive
<1>4. QED
  BY <1>3, PcapStillKept, OneStep

LEMMA OneInterrupt ==
  ASSUME OneAtATime, OneInv, PcapInv', NEW t \in Threads, Pcap!Interrupt(t)
  PROVE  OneInv'
<1> DEFINE p == rpc[t].mine
           s == IF dump[p].st = "up" THEN "interrupted" ELSE dump[p].st
<1>1. p \in Procs /\ rpc[t].pc = "interrupt" /\ UNCHANGED captures /\ Pcap!Goto(t, "wait")
  BY DEF OneInv, PcapInv, PcapLocals, Pcap!Interrupt, Pcap!At
<1>2. dump' = [dump EXCEPT ![p].st = s] /\ (s \in {"up", "interrupted"} => Pcap!Alive(p))
  BY DEF Pcap!Interrupt, Pcap!Alive
<1>3. PcapOnlyEnd
  <2> HIDE DEF s, p
  <2> QED BY <1>1, <1>2, OneEnds DEF OneInv
<1>4. QED
  BY <1>1, <1>3, OneGoes

LEMMA OneWait ==
  ASSUME OneAtATime, OneInv, PcapInv', NEW t \in Threads, Pcap!Wait(t)
  PROVE  OneInv'
<1>1. rpc[t].pc = "wait" /\ UNCHANGED <<captures, dump>>
  BY DEF Pcap!Wait, Pcap!At
<1>2. CASE Pcap!Ends(t, "timeout")
  BY <1>1, <1>2, OneEnd
<1>3. CASE Pcap!Goto(t, "kill")
  BY <1>1, <1>3, PcapSameEnd, OneGoes
<1>4. QED
  BY <1>2, <1>3 DEF Pcap!Wait

LEMMA OneKill ==
  ASSUME OneAtATime, OneInv, PcapInv', NEW t \in Threads, Pcap!Kill(t)
  PROVE  OneInv'
<1>1. rpc[t].pc = "kill" /\ rpc[t].mine \in Procs /\ ~ Pcap!Alive(rpc[t].mine)
  BY DEF OneInv, PcapInv, PcapLocals, PcapExited, Pcap!Kill, Pcap!At
<1>2. UNCHANGED <<captures, dump>> /\ Pcap!Goto(t, "pop")
  BY <1>1 DEF Pcap!Kill, OneInv, PcapInv, Pcap!TypeOK, Pcap!Process
<1>3. QED
  BY <1>1, <1>2, PcapSameEnd, OneGoes

LEMMA OnePop ==
  ASSUME OneAtATime, OneInv, PcapInv', NEW t \in Threads, Pcap!Pop(t)
  PROVE  OneInv'
<1>1. /\ rpc[t].pc = "pop" /\ captures[rpc[t].file] = rpc[t].mine /\ ~ Pcap!Alive(rpc[t].mine)
      /\ captures' = [captures EXCEPT ![rpc[t].file] = None]
      /\ captures \in [Files -> Procs \cup {None}] /\ UNCHANGED dump
  BY DEF OneInv, PcapInv, Pcap!TypeOK, Pcap!Pop, Pcap!At, PcapFresh
<1>2. rpc'[t].pc = "reply"
  BY PcapEndsMoves DEF OneInv, PcapInv, Pcap!Pop
<1>3. PcapKept'
  <2> SUFFICES ASSUME NEW q \in Procs, Pcap!Alive(q)
               PROVE  dump[q].file \in Files /\ captures'[dump[q].file] = q
    BY <1>1 DEF PcapKept, Pcap!Alive
  <2>1. dump[q].file \in Files /\ captures[dump[q].file] = q
    BY <1>1 DEF OneInv, PcapKept, OneAtATime
  <2>2. dump[q].file # rpc[t].file
    BY <1>1, <2>1
  <2>3. QED
    BY <1>1, <2>1, <2>2
<1>4. PcapFresh(t)'
  BY <1>2 DEF PcapFresh
<1>5. QED
  BY <1>3, <1>4, OneStep

LEMMA OneAsk ==
  ASSUME OneAtATime, OneInv, PcapInv', NEW t \in Threads, Pcap!Ask(t)
  PROVE  OneInv'
BY OneEnd DEF Pcap!Ask, Pcap!At

LEMMA OneSweep ==
  ASSUME OneAtATime, OneInv, PcapInv', NEW t \in Threads, Pcap!Sweep(t)
  PROVE  OneInv'
<1>1. rpc[t].pc = "sweep" /\ UNCHANGED captures
  BY DEF Pcap!Sweep, Pcap!At
<1>2. CASE \E how \in {"raised", "ok"} : Pcap!Ends(t, how) /\ UNCHANGED dump
  BY <1>1, <1>2, OneEnd
<1>3. ASSUME NEW f \in Pcap!Handled \ rpc[t].seen,
             dump' = [dump EXCEPT ![captures[f]].st = IF Pcap!Alive(captures[f]) THEN "lost" ELSE @],
             rpc' = [rpc EXCEPT ![t].seen = @ \cup {f}]
      PROVE  OneInv'
  <2> DEFINE p == captures[f]
             s == IF Pcap!Alive(p) THEN "lost" ELSE dump[p].st
  <2>1. p \in Procs
    BY DEF OneInv, PcapInv, Pcap!TypeOK, Pcap!Handled
  <2>2. dump' = [dump EXCEPT ![p].st = s] /\ (s \in {"up", "interrupted"} => Pcap!Alive(p))
    BY <1>3 DEF Pcap!Alive
  <2>3. PcapOnlyEnd
    <3> HIDE DEF s, p
    <3> QED BY <2>1, <2>2, OneEnds DEF OneInv
  <2>4. rpc'[t].pc = "sweep"
    BY <1>1, <1>3 DEF OneInv, PcapInv, Pcap!TypeOK, Pcap!Call
  <2>5. QED
    BY <1>1, <2>3, <2>4, PcapRestStep
<1>4. QED
  BY <1>2, <1>3 DEF Pcap!Sweep

LEMMA OneProc ==
  ASSUME OneAtATime, OneInv, PcapInv', NEW p \in Procs, Pcap!Flush(p) \/ Pcap!Fails(p)
  PROVE  OneInv'
<1>1. PcapOnlyEnd /\ UNCHANGED <<captures, rpc>>
  BY OneEnds DEF OneInv, Pcap!Flush, Pcap!Fails
<1>2. PcapKept'
  BY <1>1 DEF OneInv, PcapKept, PcapOnlyEnd
<1>3. ASSUME NEW t \in Threads PROVE PcapFresh(t)'
  BY <1>1 DEF OneInv, PcapInv, PcapLocals, PcapFresh, PcapOnlyEnd, Pcap!Alive
<1>4. QED
  BY <1>2, <1>3 DEF OneInv

LEMMA OneNext ==
  ASSUME Pcap!PcapAssumption, OneAtATime, OneInv, PcapInv', [Pcap!Next]_Pcap!vars
  PROVE  OneInv'
<1>1. ASSUME NEW t \in Threads, Pcap!Calls(t) \/ Pcap!Serve(t) PROVE OneInv'
  BY <1>1, OneCalls, OneLook, OneSpawn, OneKeep, OneFind, OneInterrupt, OneWait, OneKill,
     OnePop, OneAsk, OneSweep, OneReply DEF Pcap!Serve
<1>2. ASSUME NEW p \in Procs, Pcap!Flush(p) \/ Pcap!Fails(p) PROVE OneInv'
  BY <1>2, OneProc
<1>3. CASE UNCHANGED Pcap!vars
  BY <1>3 DEF Pcap!vars, OneInv, PcapKept, PcapFresh, Pcap!Alive
<1>4. QED
  BY <1>1, <1>2, <1>3 DEF Pcap!Next

LEMMA OneInit == Pcap!Init /\ PcapInv => OneInv
<1> SUFFICES ASSUME Pcap!Init, PcapInv PROVE OneInv
  OBVIOUS
<1>1. \A t \in Threads : rpc[t].pc = "idle"
  BY DEF Pcap!Init, Pcap!Idle, Pcap!NewCall
<1>2. QED
  BY <1>1 DEF Pcap!Init, OneInv, PcapKept, PcapFresh, Pcap!Alive, Pcap!Free

LEMMA OneMeans == ASSUME OneAtATime, Pcap!PcapAssumption, OneInv PROVE Pcap!OneCapture
<1> SUFFICES ASSUME NEW p \in Procs, NEW q \in Procs,
                    Pcap!Alive(p), Pcap!Alive(q), dump[p].file = dump[q].file, p # q
             PROVE  FALSE
  BY DEF Pcap!OneCapture
<1>1. PICK f \in Files : f = dump[p].file
  BY DEF OneInv, PcapKept
<1>2. captures[f] = p \/ \E t \in Threads : rpc[t].pc = "keep" /\ rpc[t].mine = p /\ rpc[t].file = f
  BY <1>1 DEF OneInv, PcapKept
<1>3. captures[f] = q \/ \E t \in Threads : rpc[t].pc = "keep" /\ rpc[t].mine = q /\ rpc[t].file = f
  BY <1>1 DEF OneInv, PcapKept
<1>4. \A t \in Threads : rpc[t].pc = "keep" => captures[rpc[t].file] = None
  BY DEF OneInv, PcapFresh
<1>5. QED
  BY <1>2, <1>3, <1>4 DEF OneAtATime, Pcap!PcapAssumption

-----------------------------------------------------------------------------
LEMMA PcapInitKeeps == Pcap!Init => PcapInv
<1> SUFFICES ASSUME Pcap!Init PROVE PcapInv
  OBVIOUS
<1>1. Pcap!Idle \in Pcap!Call /\ Pcap!Idle.pc = "idle"
  BY PcapNewCallType DEF Pcap!Idle
<1>2. Pcap!TypeOK /\ Pcap!NeverCut
  BY <1>1 DEF Pcap!Init, Pcap!TypeOK, Pcap!NeverCut, Pcap!Free, Pcap!Process
<1>3. ASSUME NEW t \in Threads PROVE PcapLocals(t) /\ PcapExited(t)
  BY <1>1 DEF Pcap!Init, PcapLocals, PcapExited
<1>4. QED
  BY <1>2, <1>3 DEF PcapInv

LEMMA PcapNextKeeps ==
  ASSUME PcapInv, IsFiniteSet(Files), [Pcap!Next]_Pcap!vars
  PROVE  PcapInv'
<1>1. ASSUME NEW t \in Threads, Pcap!Calls(t) PROVE PcapInv'
  BY <1>1, PcapCallsKeep
<1>2. ASSUME NEW t \in Threads, Pcap!Serve(t) PROVE PcapInv'
  BY <1>2, PcapLookKeeps, PcapSpawnKeeps, PcapKeepKeeps, PcapFindKeeps, PcapInterruptKeeps,
     PcapWaitKeeps, PcapKillKeeps,
     PcapPopKeeps, PcapAskKeeps, PcapSweepKeeps, PcapReplyKeeps DEF Pcap!Serve
<1>3. ASSUME NEW p \in Procs, Pcap!Flush(p) \/ Pcap!Fails(p) PROVE PcapInv'
  BY <1>3, PcapSubprocessKeeps
<1>4. CASE UNCHANGED Pcap!vars
  BY <1>4 DEF Pcap!vars, PcapInv, Pcap!TypeOK, PcapLocals, PcapExited, Pcap!Alive, Pcap!NeverCut
<1>5. QED
  BY <1>1, <1>2, <1>3, <1>4 DEF Pcap!Next

LEMMA PcapAlways == Pcap!PcapAssumption => (Pcap!Spec => []PcapInv)
<1> SUFFICES ASSUME Pcap!PcapAssumption PROVE Pcap!Spec => []PcapInv
  OBVIOUS
<1>1. Pcap!Init => PcapInv
  BY PcapInitKeeps
<1>2. PcapInv /\ [Pcap!Next]_Pcap!vars => PcapInv'
  <2>1. IsFiniteSet(Files)
    BY DEF Pcap!PcapAssumption, Pcap!IsFiniteSet, IsFiniteSet
  <2>2. QED
    BY <2>1, PcapNextKeeps
<1>3. QED
  BY <1>1, <1>2, PTL DEF Pcap!Spec

(* stop_pcap never kills a tcpdump that still writes its file, whatever    *)
(* calls overlap and however many: the handle a call holds is of a process *)
(* that has exited when wait returns (Console._ctrl_c), and no new capture *)
(* is given the handle of one that a call holds.                           *)
THEOREM CapturesWhole == Pcap!PcapAssumption => (Pcap!Spec => []Pcap!NeverCut)
<1> SUFFICES ASSUME Pcap!PcapAssumption PROVE Pcap!Spec => []Pcap!NeverCut
  OBVIOUS
<1>1. Pcap!Spec => []PcapInv
  BY PcapAlways
<1>2. PcapInv => Pcap!NeverCut
  BY DEF PcapInv
<1>3. QED
  BY <1>1, <1>2, PTL

(* The variables of the app keep their types.                              *)
THEOREM PcapTypes == Pcap!PcapAssumption => (Pcap!Spec => []Pcap!TypeOK)
<1> SUFFICES ASSUME Pcap!PcapAssumption PROVE Pcap!Spec => []Pcap!TypeOK
  OBVIOUS
<1>1. Pcap!Spec => []PcapInv
  BY PcapAlways
<1>2. PcapInv => Pcap!TypeOK
  BY DEF PcapInv
<1>3. QED
  BY <1>1, <1>2, PTL

(***************************************************************************)
(* The iperf3 app.                                                         *)
(***************************************************************************)
IperfProcess == [kind : {"none", "server", "client"}, port : Ports \cup {None},
            st : {"none", "starting", "up", "killed", "dead"}, left : 0..Output,
            buf : 0..Pipe, closed : BOOLEAN, job : 0..LastJob]

IperfEntry == [proc : Procs \cup {None}, state : {"none", "running", "done"},
               result : 0..Output \cup {None}]

IperfCallRec ==
  [pc : {"idle", "draw", "look", "spawn", "wait", "find", "kill", "pop", "number", "file", "answer",
         "poll", "collect", "close", "save", "done", "sweep", "reply"},
   op : {"none", "start", "stop", "client", "stopclient", "info", "stopapp"},
   port : Ports \cup {None}, job : 0..LastJob, mine : Procs \cup {None}, old : 0..LastJob, got : 0..Output,
   ports : SUBSET Ports, ids : SUBSET Iperf!JobIds, ret : {"none", "ok", "raised"}]

IperfTypes ==
  /\ handles \in [Ports -> Procs \cup {None}]
  /\ jobs \in [Iperf!JobIds -> IperfEntry] /\ jobid \in 0..LastJob
  /\ proc \in [Procs -> IperfProcess] /\ th \in [Threads -> IperfCallRec]

\* What the place of a call says about its operation and its local variables.
IperfShape(t) ==
  /\ th[t].pc \in {"number", "file", "answer"} => th[t].op = "client" /\ th[t].mine \in Procs
  /\ th[t].pc \in {"poll", "collect", "close", "save", "done"} => th[t].op = "info" /\ th[t].mine \in Procs
  /\ th[t].pc \in {"kill", "pop"} => th[t].op \in {"stop", "stopclient"} /\ th[t].mine \in Procs
  /\ th[t].pc = "wait" => th[t].op = "start" /\ th[t].mine \in Procs
  /\ th[t].pc = "find" => th[t].op \in {"stop", "stopclient", "info"}
  /\ th[t].pc = "spawn" => th[t].op \in {"start", "client"}
  /\ th[t].pc \in {"draw", "look"} => th[t].op = "start"
  /\ th[t].pc = "sweep" => th[t].op = "stopapp"
  /\ th[t].op = "stop" => th[t].port \in Ports
  /\ th[t].op \in {"stopclient", "info"} => th[t].job \in Iperf!JobIds

\* One call at a time starts a client, and the id it gives is a new one.
IperfNumbers(t) ==
  /\ \A u \in Threads : th[t].op = "client" /\ th[u].op = "client" => u = t
  /\ th[t].op = "client" /\ th[t].pc \in {"spawn", "number"} => jobid < LastJob
  /\ th[t].pc = "number" => th[t].old = jobid
  /\ th[t].pc \in {"file", "answer"} => jobid \in Iperf!JobIds /\ \A p \in Procs : proc[p].job # jobid
  /\ th[t].pc = "file" => jobs[jobid] = Iperf!NoJob
  /\ th[t].pc = "answer" => jobs[jobid].proc = th[t].mine

\* Nobody stops a job whose id has not been answered, and nobody has found one
\* that has not been filed.
IperfHears(t) ==
  /\ th[t].op = "stopclient" =>
       /\ th[t].job <= jobid
       /\ \A u \in Threads : th[u].pc \in {"file", "answer"} => th[t].job # jobid
  /\ th[t].pc \in {"poll", "collect", "close", "save", "done"} =>
       /\ th[t].job <= jobid
       /\ \A u \in Threads : th[u].pc = "file" => th[t].job # jobid

IperfHolds(t) == jobs[th[t].job] = Iperf!NoJob \/ jobs[th[t].job].proc = th[t].mine

\* A call that reads the output of a job has seen its process ended.
IperfReads(t) ==
  /\ th[t].pc \in {"poll", "collect", "close", "save", "done"} => IperfHolds(t)
  /\ th[t].pc \in {"collect", "close", "save", "done"} => ~ Iperf!Alive(th[t].mine)
  /\ th[t].pc = "done" => jobs[th[t].job] = Iperf!NoJob \/ jobs[th[t].job].result # None

IperfStops(t) ==
  th[t].op = "stopclient" =>
    /\ th[t].pc \in {"find", "kill", "pop", "reply"}
    /\ th[t].pc \in {"kill", "pop"} => IperfHolds(t)
    /\ th[t].pc = "pop" => ~ Iperf!Running(th[t].mine)
    /\ th[t].pc = "reply" /\ th[t].ret = "ok" => jobs[th[t].job] = Iperf!NoJob

IperfSound(t) == IperfShape(t) /\ IperfNumbers(t) /\ IperfHears(t) /\ IperfReads(t) /\ IperfStops(t)

\* Ids that have not been given are not used.
IperfGiven ==
  /\ \A j \in Iperf!JobIds : j > jobid => jobs[j] = Iperf!NoJob
  /\ \A p \in Procs : proc[p].job <= jobid

\* What is filed is a process, and a result is of one that has ended.
IperfFiled ==
  \A j \in Iperf!JobIds : jobs[j] # Iperf!NoJob =>
    /\ jobs[j].proc \in Procs
    /\ jobs[j].result # None => ~ Iperf!Alive(jobs[j].proc)
    /\ jobs[j].state = "done" => jobs[j].result # None

\* A client that runs and has been answered for is the one filed under its id.
IperfAnswered ==
  \A p \in Procs : proc[p].job # 0 /\ Iperf!Running(p) => jobs[proc[p].job].proc = p

IperfInv == IperfTypes /\ IperfGiven /\ IperfFiled /\ IperfAnswered /\ \A t \in Threads : IperfSound(t)
\* Calls that start a client do not overlap.
Orderly == Iperf!IperfAssumption /\ "race" \notin Events

\* The call of thread t alone changes.
IperfMoves(t) ==
  /\ th' \in [Threads -> IperfCallRec]
  /\ \A u \in Threads \ {t} : th'[u] = th[u]

\* Subprocesses at most end.
IperfOnlyEnd ==
  /\ proc' \in [Procs -> IperfProcess]
  /\ \A p \in Procs :
       proc'[p].job = proc[p].job /\ (Iperf!Alive(p)' => Iperf!Alive(p)) /\ (Iperf!Running(p)' => Iperf!Running(p))

-----------------------------------------------------------------------------
LEMMA IperfReturnsMoves ==
  ASSUME IperfInv, NEW t \in Threads, Iperf!Returns(t)
  PROVE  /\ IperfMoves(t)
         /\ th'[t].pc = "reply" /\ th'[t].ret = "ok" /\ th'[t].op = th[t].op
         /\ th'[t].job = th[t].job /\ th'[t].port = th[t].port
         /\ th'[t].mine = th[t].mine
<1>1. th \in [Threads -> IperfCallRec] /\ th[t] \in IperfCallRec
  BY DEF IperfInv, IperfTypes
<1> DEFINE d == [th[t] EXCEPT !.pc = "reply"]
           c == [d EXCEPT !.ret = "ok"]
<1>2. /\ d \in IperfCallRec /\ d.op = th[t].op /\ d.job = th[t].job /\ d.port = th[t].port
      /\ d.pc = "reply" /\ d.mine = th[t].mine
  BY <1>1 DEF IperfCallRec
<1>3. /\ c \in IperfCallRec /\ c.op = th[t].op /\ c.job = th[t].job /\ c.port = th[t].port
      /\ c.pc = "reply" /\ c.mine = th[t].mine /\ c.ret = "ok"
  <2> HIDE DEF d
  <2> QED BY <1>2 DEF IperfCallRec
<1>4. th' = [th EXCEPT ![t] = c]
  BY <1>1, Zenon DEF Iperf!Returns
<1> HIDE DEF c
<1>5. QED
  BY <1>1, <1>3, <1>4 DEF IperfMoves

LEMMA IperfRaisesMoves ==
  ASSUME IperfInv, NEW t \in Threads, Iperf!Raises(t)
  PROVE  /\ IperfMoves(t)
         /\ th'[t].pc = "reply" /\ th'[t].ret = "raised" /\ th'[t].op = th[t].op
         /\ th'[t].job = th[t].job /\ th'[t].port = th[t].port
         /\ th'[t].mine = th[t].mine
<1>1. th \in [Threads -> IperfCallRec] /\ th[t] \in IperfCallRec
  BY DEF IperfInv, IperfTypes
<1> DEFINE d == [th[t] EXCEPT !.pc = "reply"]
           c == [d EXCEPT !.ret = "raised"]
<1>2. /\ d \in IperfCallRec /\ d.op = th[t].op /\ d.job = th[t].job /\ d.port = th[t].port
      /\ d.pc = "reply" /\ d.mine = th[t].mine
  BY <1>1 DEF IperfCallRec
<1>3. /\ c \in IperfCallRec /\ c.op = th[t].op /\ c.job = th[t].job /\ c.port = th[t].port
      /\ c.pc = "reply" /\ c.mine = th[t].mine /\ c.ret = "raised"
  <2> HIDE DEF d
  <2> QED BY <1>2 DEF IperfCallRec
<1>4. th' = [th EXCEPT ![t] = c]
  BY <1>1, Zenon DEF Iperf!Raises
<1> HIDE DEF c
<1>5. QED
  BY <1>1, <1>3, <1>4 DEF IperfMoves

LEMMA IperfGotoMoves ==
  ASSUME IperfInv, NEW t \in Threads, NEW l, Iperf!Goto(t, l),
         l \in {"spawn", "pop", "file", "answer", "collect", "close", "save", "done"}
  PROVE  /\ IperfMoves(t)
         /\ th'[t].pc = l /\ th'[t].op = th[t].op /\ th'[t].job = th[t].job
         /\ th'[t].port = th[t].port /\ th'[t].mine = th[t].mine /\ th'[t].old = th[t].old
BY DEF IperfInv, IperfTypes, IperfMoves, Iperf!Goto, IperfCallRec

-----------------------------------------------------------------------------
(* Steps that leave the jobs alone.                                        *)

LEMMA IperfQuietKeeps ==
  ASSUME IperfInv, NEW t \in Threads, IperfMoves(t), UNCHANGED <<jobs, jobid>>, IperfOnlyEnd,
         handles' \in [Ports -> Procs \cup {None}],
         th'[t].pc \notin {"file", "answer"},
         th'[t].op = "client" => th[t].op = "client" \/ \A u \in Threads : th[u].op # "client",
         IperfShape(t)', IperfNumbers(t)', IperfHears(t)', IperfReads(t)', IperfStops(t)'
  PROVE  IperfInv'
<1>1. IperfTypes'
  BY DEF IperfInv, IperfTypes, IperfMoves, IperfOnlyEnd
<1>2. IperfGiven' /\ IperfAnswered'
  BY DEF IperfInv, IperfGiven, IperfAnswered, IperfOnlyEnd, Iperf!JobIds, Iperf!NoJob
<1>3. IperfFiled'
  BY DEF IperfInv, IperfFiled, IperfOnlyEnd, Iperf!NoJob
<1>4. ASSUME NEW u \in Threads PROVE IperfSound(u)'
  <2>1. CASE u = t
    BY <2>1 DEF IperfSound
  <2>2. CASE u # t
    <3>1. th'[u] = th[u] /\ IperfSound(u) /\ th[u] \in IperfCallRec
      BY <2>2 DEF IperfMoves, IperfInv, IperfTypes
    <3>2. IperfShape(u)'
      BY <3>1 DEF IperfSound, IperfShape
    <3>3. IperfNumbers(u)'
      BY <3>1, <2>2 DEF IperfSound, IperfNumbers, IperfOnlyEnd, IperfMoves, Iperf!NoJob
    <3>4. IperfHears(u)'
      BY <3>1 DEF IperfSound, IperfHears, IperfMoves
    <3>5. IperfReads(u)'
      BY <3>1 DEF IperfSound, IperfReads, IperfHolds, IperfOnlyEnd, IperfShape, Iperf!NoJob
    <3>6. IperfStops(u)'
      BY <3>1 DEF IperfSound, IperfStops, IperfHolds, IperfOnlyEnd, IperfShape, Iperf!NoJob
    <3>7. QED
      BY <3>2, <3>3, <3>4, <3>5, <3>6 DEF IperfSound
  <2>3. QED
    BY <2>1, <2>2
<1>5. QED
  BY <1>1, <1>2, <1>3, <1>4 DEF IperfInv

LEMMA IperfUnchanged ==
  ASSUME IperfInv, UNCHANGED proc
  PROVE  IperfOnlyEnd
BY DEF IperfInv, IperfTypes, IperfOnlyEnd, Iperf!Alive, Iperf!Running

\* A call that ends is sound if it has stopped what it says it has.
LEMMA IperfEndKeeps ==
  ASSUME IperfInv, NEW t \in Threads, Iperf!Returns(t) \/ Iperf!Raises(t),
         UNCHANGED <<jobs, jobid>>, IperfOnlyEnd,
         handles' \in [Ports -> Procs \cup {None}],
         th[t].op = "stopclient" =>
           /\ th[t].pc \in {"find", "kill", "pop", "reply"}
           /\ Iperf!Returns(t) => jobs[th[t].job] = Iperf!NoJob
  PROVE  IperfInv'
<1>1. /\ IperfMoves(t)
      /\ th'[t].pc = "reply" /\ th'[t].op = th[t].op
      /\ th'[t].job = th[t].job /\ th'[t].port = th[t].port
      /\ th'[t].op = "stopclient" /\ th'[t].ret = "ok" => jobs[th[t].job] = Iperf!NoJob
  <2>1. CASE Iperf!Returns(t)
    BY <2>1, IperfReturnsMoves
  <2>2. CASE Iperf!Raises(t)
    BY <2>2, IperfRaisesMoves
  <2>3. QED
    BY <2>1, <2>2
<1>2. IperfSound(t)
  BY DEF IperfInv
<1>3. IperfShape(t)'
  BY <1>1, <1>2 DEF IperfShape, IperfSound
<1>4. IperfNumbers(t)'
  BY <1>1, <1>2 DEF IperfNumbers, IperfSound, IperfMoves
<1>5. IperfHears(t)'
  BY <1>1, <1>2 DEF IperfHears, IperfSound, IperfMoves
<1>6. IperfReads(t)' /\ IperfStops(t)'
  BY <1>1, <1>2 DEF IperfReads, IperfStops, IperfSound, Iperf!NoJob
<1>7. QED
  BY <1>1, <1>3, <1>4, <1>5, <1>6, IperfQuietKeeps

-----------------------------------------------------------------------------
(* Calls begin and end.                                                    *)

LEMMA IperfIdleCall == ASSUME Orderly PROVE Iperf!Idle \in IperfCallRec
BY DEF Iperf!Idle, IperfCallRec, Orderly, Iperf!IperfAssumption

LEMMA IperfNewCall ==
  ASSUME IperfInv, NEW t \in Threads, NEW c \in IperfCallRec, Iperf!Begin(t, c)
  PROVE  /\ IperfMoves(t) /\ th'[t] = c /\ UNCHANGED <<handles, jobs, jobid, draws, proc>>
         /\ IperfOnlyEnd /\ handles' \in [Ports -> Procs \cup {None}]
BY IperfUnchanged DEF IperfInv, IperfTypes, IperfMoves, Iperf!Begin, Iperf!files

LEMMA IperfBeginStartServerKeeps ==
  ASSUME Orderly, IperfInv, NEW t \in Threads, NEW q \in Ports \cup {None},
         Iperf!BeginStartServer(t, q)
  PROVE  IperfInv'
<1> DEFINE l == IF q = None THEN "draw" ELSE "look"
           c == [Iperf!Idle EXCEPT !.op = "start", !.pc = l, !.port = q]
<1>1. l \in {"draw", "look"}
  OBVIOUS
<1>2. c \in IperfCallRec /\ c.op = "start" /\ c.pc \in {"draw", "look"}
  <2> HIDE DEF l
  <2> QED BY <1>1, IperfIdleCall DEF IperfCallRec, Iperf!Idle
<1>3. Iperf!Begin(t, c)
  BY DEF Iperf!BeginStartServer
<1> HIDE DEF c, l
<1>4. QED
  BY <1>2, <1>3, IperfNewCall, IperfQuietKeeps DEF IperfShape, IperfNumbers, IperfHears,
     IperfReads, IperfStops

LEMMA IperfBeginStopServerKeeps ==
  ASSUME Orderly, IperfInv, NEW t \in Threads, NEW q \in Ports, Iperf!BeginStopServer(t, q)
  PROVE  IperfInv'
<1> DEFINE c == [Iperf!Idle EXCEPT !.op = "stop", !.pc = "find", !.port = q]
<1>1. c \in IperfCallRec /\ c.op = "stop" /\ c.pc = "find" /\ c.port = q
  BY IperfIdleCall DEF IperfCallRec, Iperf!Idle
<1>2. Iperf!Begin(t, c)
  BY DEF Iperf!BeginStopServer
<1> HIDE DEF c
<1>3. QED
  BY <1>1, <1>2, IperfNewCall, IperfQuietKeeps DEF IperfShape, IperfNumbers, IperfHears,
     IperfReads, IperfStops

LEMMA IperfBeginStopAppKeeps ==
  ASSUME Orderly, IperfInv, NEW t \in Threads, Iperf!BeginStopApp(t)
  PROVE  IperfInv'
<1> DEFINE qs == {q \in Ports : handles[q] # None}
           js == {j \in Iperf!JobIds : jobs[j] # Iperf!NoJob}
           c == [Iperf!Idle EXCEPT !.op = "stopapp", !.pc = "sweep", !.ports = qs, !.ids = js]
<1>1. qs \in SUBSET Ports /\ js \in SUBSET Iperf!JobIds
  OBVIOUS
<1>2. c \in IperfCallRec /\ c.op = "stopapp" /\ c.pc = "sweep"
  <2> HIDE DEF qs, js
  <2> QED BY <1>1, IperfIdleCall DEF IperfCallRec, Iperf!Idle
<1>3. Iperf!Begin(t, c)
  BY DEF Iperf!BeginStopApp
<1> HIDE DEF c, qs, js
<1>4. QED
  BY <1>2, <1>3, IperfNewCall, IperfQuietKeeps DEF IperfShape, IperfNumbers, IperfHears,
     IperfReads, IperfStops

LEMMA IperfBeginInfoKeeps ==
  ASSUME Orderly, IperfInv, NEW t \in Threads, NEW j \in Iperf!JobIds, Iperf!BeginInfo(t, j)
  PROVE  IperfInv'
<1> DEFINE c == [Iperf!Idle EXCEPT !.op = "info", !.pc = "find", !.job = j]
<1>0. j \in 0..LastJob
  BY DEF Iperf!JobIds, Orderly, Iperf!IperfAssumption
<1>1. c \in IperfCallRec /\ c.op = "info" /\ c.pc = "find" /\ c.job = j
  BY <1>0, IperfIdleCall DEF IperfCallRec, Iperf!Idle
<1>2. Iperf!Begin(t, c)
  BY DEF Iperf!BeginInfo
<1> HIDE DEF c
<1>3. QED
  BY <1>1, <1>2, IperfNewCall, IperfQuietKeeps DEF IperfShape, IperfNumbers, IperfHears,
     IperfReads, IperfStops

LEMMA IperfBeginStopClientKeeps ==
  ASSUME Orderly, IperfInv, NEW t \in Threads, NEW j \in Iperf!JobIds, Iperf!BeginStopClient(t, j)
  PROVE  IperfInv'
<1> DEFINE c == [Iperf!Idle EXCEPT !.op = "stopclient", !.pc = "find", !.job = j]
<1>0. j \in 0..LastJob
  BY DEF Iperf!JobIds, Orderly, Iperf!IperfAssumption
<1>1. c \in IperfCallRec /\ c.op = "stopclient" /\ c.pc = "find" /\ c.job = j
  BY <1>0, IperfIdleCall DEF IperfCallRec, Iperf!Idle
<1>2. Iperf!Begin(t, c)
  BY DEF Iperf!BeginStopClient
<1> HIDE DEF c
<1>3. PICK p \in Procs : proc[p].job = j
  BY DEF Iperf!BeginStopClient
<1>4. j <= jobid /\ \A u \in Threads : th[u].pc \in {"file", "answer"} => j # jobid
  BY <1>3 DEF IperfInv, IperfGiven, IperfSound, IperfNumbers
<1>5. /\ IperfMoves(t) /\ th'[t] = c /\ UNCHANGED <<handles, jobs, jobid, draws, proc>>
      /\ IperfOnlyEnd /\ handles' \in [Ports -> Procs \cup {None}]
  BY <1>1, <1>2, IperfNewCall
<1>6. IperfHears(t)'
  BY <1>1, <1>4, <1>5 DEF IperfHears, IperfMoves
<1>7. QED
  BY <1>1, <1>5, <1>6, IperfQuietKeeps DEF IperfShape, IperfNumbers, IperfReads, IperfStops

\* Nobody else starts a client, so there is an id left.
LEMMA IperfBeginStartClientKeeps ==
  ASSUME Orderly, IperfInv, NEW t \in Threads, Iperf!BeginStartClient(t)
  PROVE  IperfInv'
<1> DEFINE c == [Iperf!Idle EXCEPT !.op = "client", !.pc = "spawn"]
<1>1. c \in IperfCallRec /\ c.op = "client" /\ c.pc = "spawn"
  BY IperfIdleCall DEF IperfCallRec, Iperf!Idle
<1>2. Iperf!Begin(t, c) /\ \A u \in Threads : th[u].op # "client"
  BY DEF Iperf!BeginStartClient, Orderly
<1> HIDE DEF c
<1>3. jobid < LastJob
  <2>1. {u \in Threads : th[u].op = "client"} = {}
    BY <1>2
  <2>2. jobid + 0 < LastJob
    <3>1. Iperf!Cardinality({}) = 0
      BY FS_EmptySet DEF Iperf!Cardinality, Cardinality
    <3>2. QED
      BY <2>1, <3>1 DEF Iperf!BeginStartClient
  <2>3. QED
    BY <2>2 DEF IperfInv, IperfTypes
<1>4. /\ IperfMoves(t) /\ th'[t] = c /\ UNCHANGED <<handles, jobs, jobid, draws, proc>>
      /\ IperfOnlyEnd /\ handles' \in [Ports -> Procs \cup {None}]
  BY <1>1, <1>2, IperfNewCall
<1>5. IperfNumbers(t)'
  BY <1>1, <1>2, <1>3, <1>4 DEF IperfNumbers, IperfMoves
<1>6. QED
  BY <1>1, <1>2, <1>4, <1>5, IperfQuietKeeps DEF IperfShape, IperfHears, IperfReads, IperfStops

LEMMA IperfReplyKeeps ==
  ASSUME Orderly, IperfInv, NEW t \in Threads, Iperf!Reply(t)
  PROVE  IperfInv'
<1>1. Iperf!Idle \in IperfCallRec /\ Iperf!Idle.pc = "idle" /\ Iperf!Idle.op = "none"
  BY IperfIdleCall DEF Iperf!Idle
<1>2. /\ IperfMoves(t) /\ th'[t] = Iperf!Idle /\ UNCHANGED <<jobs, jobid>>
      /\ IperfOnlyEnd /\ handles' \in [Ports -> Procs \cup {None}]
  BY <1>1, IperfUnchanged DEF IperfInv, IperfTypes, IperfMoves, Iperf!Reply, Iperf!files
<1>3. QED
  BY <1>1, <1>2, IperfQuietKeeps DEF IperfShape, IperfNumbers, IperfHears, IperfReads, IperfStops

-----------------------------------------------------------------------------
(* Subprocesses are started, found and killed.                             *)

\* A call goes on to label l with the same operation and job.
LEMMA IperfGoKeeps ==
  ASSUME IperfInv, NEW t \in Threads, IperfMoves(t), UNCHANGED <<handles, jobs, jobid>>,
         IperfOnlyEnd,
         th'[t].pc \in {"draw", "look", "spawn", "sweep"}, th'[t].op = th[t].op,
         th'[t].op \in {"start", "stopapp"}, IperfShape(t)'
  PROVE  IperfInv'
<1>1. handles' \in [Ports -> Procs \cup {None}]
  BY DEF IperfInv, IperfTypes
<1>2. QED
  BY <1>1, IperfQuietKeeps DEF IperfNumbers, IperfHears, IperfReads, IperfStops

LEMMA IperfDrawKeeps ==
  ASSUME Orderly, IperfInv, NEW t \in Threads, Iperf!Draw(t)
  PROVE  IperfInv'
<1>1. th[t].op = "start" /\ th[t].pc = "draw" /\ UNCHANGED <<handles, jobs, jobid>> /\ IperfOnlyEnd
  BY IperfUnchanged DEF IperfInv, IperfSound, IperfShape, Iperf!Draw, Iperf!At
<1>2. CASE Iperf!Raises(t)
  BY <1>1, <1>2, IperfEndKeeps DEF IperfInv, IperfTypes
<1>3. ASSUME NEW q \in Ports, th' = [th EXCEPT ![t].port = q, ![t].pc = "look"]
      PROVE  IperfInv'
  <2>1. th \in [Threads -> IperfCallRec] /\ th[t] \in IperfCallRec
    BY DEF IperfInv, IperfTypes
  <2> DEFINE d == [th[t] EXCEPT !.port = q]
             c == [d EXCEPT !.pc = "look"]
  <2>2. d \in IperfCallRec /\ d.op = "start"
    BY <1>1, <2>1 DEF IperfCallRec
  <2>3. c \in IperfCallRec /\ c.op = "start" /\ c.pc = "look"
    <3> HIDE DEF d
    <3> QED BY <2>2 DEF IperfCallRec
  <2>4. th' = [th EXCEPT ![t] = c]
    BY <1>3, <2>1, Zenon
  <2> HIDE DEF c
  <2>5. IperfMoves(t) /\ th'[t] = c
    BY <2>1, <2>3, <2>4 DEF IperfMoves
  <2>6. QED
    BY <1>1, <2>3, <2>5, IperfGoKeeps DEF IperfShape
<1>4. CASE UNCHANGED th
  <2>1. IperfMoves(t)
    BY <1>4 DEF IperfInv, IperfTypes, IperfMoves
  <2>2. QED
    BY <1>1, <1>4, <2>1, IperfGoKeeps DEF IperfShape
<1>5. QED
  BY <1>2, <1>3, <1>4 DEF Iperf!Draw, Orderly, Iperf!IperfAssumption

LEMMA IperfLookKeeps ==
  ASSUME Orderly, IperfInv, NEW t \in Threads, Iperf!Look(t)
  PROVE  IperfInv'
<1>1. th[t].op = "start" /\ UNCHANGED <<handles, jobs, jobid>> /\ IperfOnlyEnd
  BY IperfUnchanged DEF IperfInv, IperfSound, IperfShape, Iperf!Look, Iperf!At, Iperf!files
<1>2. CASE Iperf!Returns(t)
  BY <1>1, <1>2, IperfEndKeeps DEF IperfInv, IperfTypes
<1>3. CASE Iperf!Goto(t, "spawn")
  <2>1. IperfMoves(t) /\ th'[t].pc = "spawn" /\ th'[t].op = "start"
    BY <1>1, <1>3, IperfGotoMoves
  <2>2. QED
    BY <1>1, <2>1, IperfGoKeeps DEF IperfShape
<1>4. QED
  BY <1>2, <1>3 DEF Iperf!Look

LEMMA IperfWaitKeeps ==
  ASSUME Orderly, IperfInv, NEW t \in Threads, Iperf!Wait(t) \/ Iperf!GiveUp(t)
  PROVE  IperfInv'
<1>1. /\ th[t].op = "start" /\ UNCHANGED <<jobs, jobid>> /\ IperfOnlyEnd
      /\ th[t].mine \in Procs
  BY IperfUnchanged DEF IperfInv, IperfSound, IperfShape, Iperf!Wait, Iperf!GiveUp, Iperf!At,
     Iperf!files
<1>2. handles' \in [Ports -> Procs \cup {None}]
  BY <1>1 DEF IperfInv, IperfTypes, Iperf!Wait, Iperf!GiveUp, Iperf!files
<1>3. QED
  BY <1>1, <1>2, IperfEndKeeps DEF Iperf!Wait, Iperf!GiveUp

\* A call that holds subprocess p and goes on at label l.
LEMMA IperfHoldsMoves ==
  ASSUME IperfInv, NEW t \in Threads, NEW p \in Procs, NEW l \in {"poll", "kill"},
         th' = [th EXCEPT ![t].mine = p, ![t].pc = l]
  PROVE  /\ IperfMoves(t)
         /\ th'[t].pc = l /\ th'[t].mine = p /\ th'[t].op = th[t].op
         /\ th'[t].job = th[t].job /\ th'[t].port = th[t].port
<1>1. th[t] \in IperfCallRec /\ th \in [Threads -> IperfCallRec]
  BY DEF IperfInv, IperfTypes
<1> DEFINE d == [th[t] EXCEPT !.mine = p]
           c == [d EXCEPT !.pc = l]
<1>2. /\ d \in IperfCallRec /\ d.mine = p /\ d.op = th[t].op /\ d.job = th[t].job
      /\ d.port = th[t].port
  BY <1>1 DEF IperfCallRec
<1>3. /\ c \in IperfCallRec /\ c.pc = l /\ c.mine = p /\ c.op = th[t].op /\ c.job = th[t].job
      /\ c.port = th[t].port
  <2> HIDE DEF d
  <2> QED BY <1>2 DEF IperfCallRec
<1>4. th' = [th EXCEPT ![t] = c]
  BY <1>1, Zenon
<1> HIDE DEF c
<1>5. QED
  BY <1>1, <1>3, <1>4 DEF IperfMoves

\* A job without a process is not filed.
LEMMA IperfNoHandle ==
  ASSUME Orderly, IperfInv, NEW j \in Iperf!JobIds, jobs[j].proc = None
  PROVE  jobs[j] = Iperf!NoJob
BY DEF Orderly, Iperf!IperfAssumption, IperfInv, IperfFiled

LEMMA IperfFindKeeps ==
  ASSUME Orderly, IperfInv, NEW t \in Threads, Iperf!Find(t)
  PROVE  IperfInv'
<1>1. /\ th[t].pc = "find" /\ th[t].op \in {"stop", "stopclient", "info"}
      /\ IperfSound(t) /\ IperfShape(t) /\ UNCHANGED <<handles, jobs, jobid>> /\ IperfOnlyEnd
      /\ handles' \in [Ports -> Procs \cup {None}]
  BY IperfUnchanged DEF IperfInv, IperfTypes, IperfSound, IperfShape, Iperf!Find, Iperf!At,
     Iperf!files
<1>2. CASE Iperf!Handle(t) = None
  <2>1. Iperf!Returns(t)
    BY <1>2 DEF Iperf!Find
  <2>2. th[t].op = "stopclient" => jobs[th[t].job] = Iperf!NoJob
    BY <1>1, <1>2, IperfNoHandle DEF Iperf!Handle, IperfShape
  <2>3. QED
    BY <1>1, <2>1, <2>2, IperfEndKeeps
<1>3. CASE Iperf!Handle(t) # None
  <2> DEFINE l == IF th[t].op = "info" THEN "poll" ELSE "kill"
  <2>1. Iperf!Handle(t) \in Procs
    BY <1>1, <1>3 DEF Iperf!Handle, IperfInv, IperfTypes, IperfEntry, IperfShape
  <2>2. th' = [th EXCEPT ![t].mine = Iperf!Handle(t), ![t].pc = l]
    BY <1>3 DEF Iperf!Find
  <2>3. l \in {"poll", "kill"} /\ (l = "poll" <=> th[t].op = "info")
    OBVIOUS
  <2>4. /\ IperfMoves(t)
        /\ th'[t].pc = l /\ th'[t].mine = Iperf!Handle(t) /\ th'[t].op = th[t].op
        /\ th'[t].job = th[t].job /\ th'[t].port = th[t].port
    <3> HIDE DEF l
    <3> QED BY <2>1, <2>2, <2>3, IperfHoldsMoves
  <2> HIDE DEF l
  <2>5. IperfShape(t)'
    BY <1>1, <2>1, <2>3, <2>4 DEF IperfShape
  <2>6. IperfNumbers(t)'
    BY <1>1, <2>3, <2>4 DEF IperfNumbers
  <2>7. IperfHears(t)'
    <3>1. CASE th[t].op = "info"
      <4>1. th[t].job \in Iperf!JobIds /\ jobs[th[t].job].proc # None
        BY <1>1, <1>3, <3>1 DEF Iperf!Handle, IperfShape
      <4>2. jobs[th[t].job] # Iperf!NoJob
        BY <4>1 DEF Iperf!NoJob
      <4>3. th[t].job <= jobid
        BY <4>1, <4>2 DEF IperfInv, IperfGiven, IperfTypes, Iperf!JobIds
      <4>4. \A u \in Threads : th[u].pc = "file" => th[t].job # jobid
        BY <4>2 DEF IperfInv, IperfSound, IperfNumbers
      <4>5. QED
        BY <1>1, <2>3, <2>4, <3>1, <4>3, <4>4 DEF IperfHears, IperfMoves
    <3>2. CASE th[t].op # "info"
      BY <1>1, <2>3, <2>4, <3>2 DEF IperfHears, IperfSound, IperfMoves
    <3>3. QED
      BY <3>1, <3>2
  <2>8. IperfReads(t)' /\ IperfStops(t)'
    BY <1>1, <2>3, <2>4 DEF IperfReads, IperfStops, IperfHolds, Iperf!Handle
  <2>9. QED
    BY <1>1, <2>3, <2>4, <2>5, <2>6, <2>7, <2>8, IperfQuietKeeps
<1>4. QED
  BY <1>2, <1>3

\* What is killed is not running any more, and nothing else is changed.
LEMMA IperfKillEnds ==
  ASSUME IperfInv, NEW p \in Procs, proc' = [proc EXCEPT ![p] = Iperf!Killed(p)]
  PROVE  IperfOnlyEnd /\ ~ Iperf!Running(p)'
<1> DEFINE s == IF "linger" \in Events /\ Iperf!Alive(p) THEN "killed" ELSE "dead"
<1>1. proc \in [Procs -> IperfProcess] /\ proc[p] \in IperfProcess
  BY DEF IperfInv, IperfTypes
<1>2. s \in {"killed", "dead"} /\ (s = "killed" => Iperf!Alive(p)) /\ Iperf!Killed(p) = [proc[p] EXCEPT !.st = s]
  BY DEF Iperf!Killed
<1> HIDE DEF s
<1>3. /\ Iperf!Killed(p) \in IperfProcess /\ Iperf!Killed(p).st = s
      /\ Iperf!Killed(p).job = proc[p].job
  BY <1>1, <1>2 DEF IperfProcess
<1>4. /\ proc' \in [Procs -> IperfProcess] /\ proc'[p] = Iperf!Killed(p)
      /\ \A r \in Procs \ {p} : proc'[r] = proc[r]
  BY <1>1, <1>3
<1>5. QED
  BY <1>2, <1>3, <1>4 DEF IperfOnlyEnd, Iperf!Alive, Iperf!Running

LEMMA IperfKillKeeps ==
  ASSUME Orderly, IperfInv, NEW t \in Threads, Iperf!Kill(t)
  PROVE  IperfInv'
<1>1. /\ th[t].pc = "kill" /\ th[t].op \in {"stop", "stopclient"} /\ th[t].mine \in Procs
      /\ IperfSound(t) /\ UNCHANGED <<handles, jobs, jobid>>
      /\ handles' \in [Ports -> Procs \cup {None}]
  BY DEF IperfInv, IperfTypes, IperfSound, IperfShape, Iperf!Kill, Iperf!At, Iperf!files
<1>2. IperfOnlyEnd /\ ~ Iperf!Running(th[t].mine)'
  <2> DEFINE p == th[t].mine
  <2>1. p \in Procs /\ proc' = [proc EXCEPT ![p] = Iperf!Killed(p)]
    BY <1>1 DEF Iperf!Kill
  <2>2. IperfOnlyEnd /\ ~ (proc'[p].st \in {"starting", "up"})
    <3> HIDE DEF p
    <3> QED BY <2>1, IperfKillEnds DEF Iperf!Running
  <2>3. QED
    BY <1>1, <2>2, IperfGotoMoves DEF Iperf!Running, Iperf!Kill
<1>3. /\ IperfMoves(t)
      /\ th'[t].pc = "pop" /\ th'[t].op = th[t].op /\ th'[t].job = th[t].job
      /\ th'[t].port = th[t].port /\ th'[t].mine = th[t].mine
  BY IperfGotoMoves DEF Iperf!Kill
<1>4. IperfShape(t)' /\ IperfNumbers(t)'
  BY <1>1, <1>3 DEF IperfSound, IperfShape, IperfNumbers
<1>5. IperfHears(t)'
  BY <1>1, <1>3 DEF IperfSound, IperfHears, IperfMoves
<1>6. IperfReads(t)' /\ IperfStops(t)'
  BY <1>1, <1>2, <1>3 DEF IperfSound, IperfReads, IperfStops, IperfHolds, Iperf!NoJob, Iperf!Running
<1>7. QED
  BY <1>1, <1>2, <1>3, <1>4, <1>5, <1>6, IperfQuietKeeps

\* stop(): a server, or a job, is killed, or there is nothing to kill.
LEMMA IperfSweepKeeps ==
  ASSUME Orderly, IperfInv, NEW t \in Threads, Iperf!SweepServer(t) \/ Iperf!SweepJob(t)
  PROVE  IperfInv'
<1>1. /\ th[t].op = "stopapp" /\ th[t].pc = "sweep" /\ UNCHANGED <<handles, jobs, jobid>>
      /\ th[t] \in IperfCallRec /\ th \in [Threads -> IperfCallRec]
  BY DEF IperfInv, IperfTypes, IperfSound, IperfShape, Iperf!SweepServer, Iperf!SweepJob,
     Iperf!At, Iperf!files
<1>2. IperfOnlyEnd
  <2>1. ASSUME NEW p \in Procs, proc' = [proc EXCEPT ![p] = Iperf!Killed(p)] PROVE IperfOnlyEnd
    BY <2>1, IperfKillEnds
  <2>2. ASSUME UNCHANGED proc PROVE IperfOnlyEnd
    BY <2>2, IperfUnchanged
  <2>3. CASE Iperf!SweepServer(t)
    <3>1. PICK q \in th[t].ports :
            IF handles[q] = None THEN UNCHANGED proc
            ELSE proc' = [proc EXCEPT ![handles[q]] = Iperf!Killed(handles[q])]
      BY <2>3 DEF Iperf!SweepServer
    <3>2. q \in Ports
      BY <1>1 DEF IperfCallRec
    <3>3. handles[q] \in Procs \cup {None}
      BY <3>2 DEF IperfInv, IperfTypes
    <3>4. QED
      BY <2>1, <2>2, <3>1, <3>3
  <2>4. CASE Iperf!SweepJob(t) /\ ~ UNCHANGED proc
    <3>1. PICK j \in th[t].ids :
            /\ jobs[j] # Iperf!NoJob
            /\ proc' = [proc EXCEPT ![jobs[j].proc] = Iperf!Killed(jobs[j].proc)]
      BY <2>4 DEF Iperf!SweepJob
    <3>2. j \in Iperf!JobIds
      BY <1>1 DEF IperfCallRec
    <3>3. jobs[j].proc \in Procs
      BY <3>1, <3>2 DEF IperfInv, IperfFiled
    <3>4. QED
      BY <2>1, <3>1, <3>3
  <2>5. QED
    BY <2>2, <2>3, <2>4
<1>3. CASE Iperf!Returns(t) \/ Iperf!Raises(t)
  BY <1>1, <1>2, <1>3, IperfEndKeeps DEF IperfInv, IperfTypes
<1>4. ASSUME NEW q, th' = [th EXCEPT ![t].ports = @ \ {q}] PROVE IperfInv'
  <2>1. th' = [th EXCEPT ![t] = [th[t] EXCEPT !.ports = @ \ {q}]]
    BY <1>1, <1>4
  <2>2. IperfMoves(t) /\ th'[t].pc = "sweep" /\ th'[t].op = "stopapp"
    BY <1>1, <2>1 DEF IperfCallRec, IperfMoves
  <2>3. QED
    BY <1>1, <1>2, <2>2, IperfGoKeeps DEF IperfShape
<1>5. ASSUME NEW j, th' = [th EXCEPT ![t].ids = @ \ {j}] PROVE IperfInv'
  <2>1. th' = [th EXCEPT ![t] = [th[t] EXCEPT !.ids = @ \ {j}]]
    BY <1>1, <1>5
  <2>2. IperfMoves(t) /\ th'[t].pc = "sweep" /\ th'[t].op = "stopapp"
    BY <1>1, <2>1 DEF IperfCallRec, IperfMoves
  <2>3. QED
    BY <1>1, <1>2, <2>2, IperfGoKeeps DEF IperfShape
<1>6. QED
  BY <1>3, <1>4, <1>5 DEF Iperf!SweepServer, Iperf!SweepJob

-----------------------------------------------------------------------------
(* The subprocesses by themselves.                                         *)

\* No call changes.
LEMMA IperfRestKeeps ==
  ASSUME IperfInv, IperfOnlyEnd, UNCHANGED <<handles, jobs, jobid, th>>
  PROVE  IperfInv'
<1>1. IperfTypes'
  BY DEF IperfInv, IperfTypes, IperfOnlyEnd
<1>2. IperfGiven' /\ IperfAnswered'
  BY DEF IperfInv, IperfGiven, IperfAnswered, IperfOnlyEnd, Iperf!JobIds, Iperf!NoJob
<1>3. IperfFiled'
  BY DEF IperfInv, IperfFiled, IperfOnlyEnd, Iperf!NoJob
<1>4. ASSUME NEW u \in Threads PROVE IperfSound(u)'
  <2>1. IperfSound(u)
    BY DEF IperfInv
  <2>2. IperfShape(u)' /\ IperfNumbers(u)' /\ IperfHears(u)'
    BY <2>1 DEF IperfSound, IperfShape, IperfNumbers, IperfHears, IperfOnlyEnd, Iperf!NoJob
  <2>3. IperfReads(u)' /\ IperfStops(u)'
    BY <2>1 DEF IperfSound, IperfShape, IperfReads, IperfStops, IperfHolds, IperfOnlyEnd,
       Iperf!NoJob
  <2>4. QED
    BY <2>2, <2>3 DEF IperfSound
<1>5. QED
  BY <1>1, <1>2, <1>3, <1>4 DEF IperfInv

LEMMA IperfSubprocessKeeps ==
  ASSUME Orderly, IperfInv, NEW p \in Procs, Iperf!Live(p) \/ Iperf!Fails(p)
  PROVE  IperfInv'
<1>1. proc \in [Procs -> IperfProcess] /\ proc[p] \in IperfProcess
  BY DEF IperfInv, IperfTypes
<1>2. UNCHANGED <<handles, jobs, jobid, th>>
  BY DEF Iperf!Live, Iperf!Fails, Iperf!Up, Iperf!Write, Iperf!Exit, Iperf!Becomes, Iperf!files
<1>3. ASSUME NEW s \in {"up", "dead"}, Iperf!Becomes(p, s), s = "up" => Iperf!Running(p)
      PROVE IperfOnlyEnd
  BY <1>1, <1>3 DEF Iperf!Becomes, IperfOnlyEnd, IperfProcess, Iperf!Alive, Iperf!Running
<1>4. ASSUME Iperf!Up(p) PROVE IperfOnlyEnd
  <2>1. Iperf!Becomes(p, "dead") \/ Iperf!Becomes(p, "up")
    BY <1>4 DEF Iperf!Up
  <2>2. Iperf!Running(p)
    BY <1>4 DEF Iperf!Up, Iperf!Running
  <2>3. QED
    BY <1>3, <2>1, <2>2
<1>5. ASSUME Iperf!Write(p) PROVE IperfOnlyEnd
  <2> DEFINE r == [proc[p] EXCEPT !.left = @ - 1, !.buf = @ + 1]
  <2>1. proc[p].left - 1 \in 0..Output /\ proc[p].buf + 1 \in 0..Pipe
    BY <1>1, <1>5 DEF IperfProcess, Iperf!Write, Orderly, Iperf!IperfAssumption
  <2>2. r \in IperfProcess /\ r.job = proc[p].job /\ r.st = proc[p].st
    BY <1>1, <2>1 DEF IperfProcess
  <2>3. proc' = [proc EXCEPT ![p] = r]
    BY <1>1, <1>5 DEF Iperf!Write, IperfProcess
  <2> HIDE DEF r
  <2>4. QED
    BY <1>1, <2>2, <2>3 DEF IperfOnlyEnd, Iperf!Alive, Iperf!Running
<1>6. ASSUME Iperf!Exit(p) \/ Iperf!Fails(p) PROVE IperfOnlyEnd
  <2>1. Iperf!Becomes(p, "dead")
    BY <1>6 DEF Iperf!Exit, Iperf!Fails
  <2>2. QED
    BY <1>3, <2>1
<1>7. IperfOnlyEnd
  BY <1>4, <1>5, <1>6 DEF Iperf!Live
<1>8. QED
  BY <1>2, <1>7, IperfRestKeeps

-----------------------------------------------------------------------------
(* Steps that change the jobs.                                             *)

\* The calls but t are sound when they hold their jobs still.
LEMMA IperfPopKeeps ==
  ASSUME Orderly, IperfInv, NEW t \in Threads, Iperf!Pop(t)
  PROVE  IperfInv'
<1>1. /\ th[t].pc = "pop" /\ th[t].op \in {"stop", "stopclient"} /\ th[t].mine \in Procs
      /\ IperfSound(t) /\ UNCHANGED <<jobid, draws, proc>> /\ IperfOnlyEnd
      /\ Iperf!Returns(t) \/ Iperf!Raises(t)
  BY IperfUnchanged DEF IperfInv, IperfSound, IperfShape, Iperf!Pop, Iperf!At
<1>2. CASE th[t].op = "stop"
  <2>1. UNCHANGED jobs /\ handles' \in [Ports -> Procs \cup {None}]
    BY <1>2 DEF Iperf!Pop, IperfInv, IperfTypes
  <2>2. QED
    BY <1>1, <1>2, <2>1, IperfEndKeeps
<1>3. CASE th[t].op = "stopclient"
  <2> DEFINE i == th[t].job
  <2>1. /\ i \in Iperf!JobIds /\ jobs' = [jobs EXCEPT ![i] = Iperf!NoJob] /\ UNCHANGED handles
        /\ IperfHolds(t) /\ ~ Iperf!Running(th[t].mine)
    BY <1>1, <1>3 DEF Iperf!Pop, IperfSound, IperfShape, IperfStops
  <2>2. Iperf!NoJob \in IperfEntry /\ jobs \in [Iperf!JobIds -> IperfEntry]
    BY DEF Iperf!NoJob, IperfEntry, IperfInv, IperfTypes
  <2>3. jobs' \in [Iperf!JobIds -> IperfEntry] /\ jobs'[i] = Iperf!NoJob /\ \A j \in Iperf!JobIds \ {i} : jobs'[j] = jobs[j]
    BY <2>1, <2>2
  <2>4. /\ IperfMoves(t)
        /\ th'[t].pc = "reply" /\ th'[t].op = th[t].op
        /\ th'[t].job = th[t].job /\ th'[t].port = th[t].port
    <3>1. CASE Iperf!Returns(t)
      BY <3>1, IperfReturnsMoves
    <3>2. CASE Iperf!Raises(t)
      BY <3>2, IperfRaisesMoves
    <3>3. QED
      BY <1>1, <3>1, <3>2
  <2>5. IperfTypes'
    BY <1>1, <2>1, <2>3, <2>4 DEF IperfInv, IperfTypes, IperfMoves
  <2>6. IperfGiven' /\ IperfFiled'
    BY <1>1, <2>1, <2>3 DEF IperfInv, IperfGiven, IperfFiled, Iperf!Alive
  <2>7. IperfAnswered'
    <3> SUFFICES ASSUME NEW p \in Procs, proc[p].job # 0, Iperf!Running(p)
                 PROVE  jobs'[proc[p].job].proc = p
      BY <1>1 DEF IperfAnswered, Iperf!Running
    <3>1. jobs[proc[p].job].proc = p /\ proc[p].job \in Iperf!JobIds
      BY DEF IperfInv, IperfAnswered, IperfTypes, IperfProcess, Iperf!JobIds, Orderly,
         Iperf!IperfAssumption
    <3>2. proc[p].job # i
      <4>1. SUFFICES ASSUME proc[p].job = i PROVE FALSE
        OBVIOUS
      <4>2. jobs[i].proc = p
        BY <3>1, <4>1
      <4>3. p # th[t].mine
        BY <2>1
      <4>4. jobs[i] = Iperf!NoJob
        BY <2>1, <4>2, <4>3 DEF IperfHolds
      <4>5. QED
        BY <4>2, <4>4 DEF Iperf!NoJob, Orderly, Iperf!IperfAssumption
    <3>3. QED
      BY <2>3, <3>1, <3>2
  <2>8. ASSUME NEW u \in Threads PROVE IperfSound(u)'
    <3>1. IperfSound(u)
      BY DEF IperfInv
    <3>2. CASE u = t
      <4>1. IperfShape(t)' /\ IperfNumbers(t)' /\ IperfHears(t)'
        BY <1>1, <1>3, <2>1, <2>4 DEF IperfSound, IperfShape, IperfNumbers, IperfHears, IperfMoves
      <4>2. IperfReads(t)' /\ IperfStops(t)'
        BY <1>1, <1>3, <2>3, <2>4 DEF IperfReads, IperfStops
      <4>3. QED
        BY <3>2, <4>1, <4>2 DEF IperfSound
    <3>3. CASE u # t
      <4>1. th'[u] = th[u]
        BY <2>4, <3>3 DEF IperfMoves
      <4>2. IperfShape(u)'
        BY <3>1, <4>1 DEF IperfSound, IperfShape
      <4>3. IperfHears(u)'
        BY <1>1, <2>4, <3>1, <4>1 DEF IperfSound, IperfHears, IperfMoves
      <4>4. IperfNumbers(u)'
        <5>1. th[u].pc \in {"file", "answer"} => jobid # i
          BY <1>1, <1>3 DEF IperfSound, IperfHears
        <5>2. th[u].pc \in {"file", "answer"} => jobs'[jobid] = jobs[jobid]
          BY <2>3, <3>1, <5>1 DEF IperfSound, IperfNumbers
        <5>3. QED
          BY <1>1, <2>4, <3>1, <4>1, <5>2 DEF IperfSound, IperfNumbers, IperfMoves
      <4>5. IperfReads(u)'
        <5>1. th[u].pc \in {"poll", "collect", "close", "save", "done"} => th[u].job \in Iperf!JobIds
          BY <3>1 DEF IperfSound, IperfShape
        <5>2. QED
          BY <1>1, <2>3, <3>1, <4>1, <5>1 DEF IperfSound, IperfReads, IperfHolds, Iperf!Alive,
             Iperf!NoJob
      <4>6. IperfStops(u)'
        <5>1. th[u].op = "stopclient" => th[u].job \in Iperf!JobIds
          BY <3>1 DEF IperfSound, IperfShape
        <5>2. QED
          BY <1>1, <2>3, <3>1, <4>1, <5>1 DEF IperfSound, IperfStops, IperfHolds, Iperf!Running,
             Iperf!NoJob
      <4>7. QED
        BY <4>2, <4>3, <4>4, <4>5, <4>6 DEF IperfSound
    <3>4. QED
      BY <3>2, <3>3
  <2>9. QED
    BY <2>5, <2>6, <2>7, <2>8 DEF IperfInv
<1>4. QED
  BY <1>1, <1>2, <1>3

LEMMA IperfPollKeeps ==
  ASSUME Orderly, IperfInv, NEW t \in Threads, Iperf!Poll(t)
  PROVE  IperfInv'
<1>1. /\ th[t].pc = "poll" /\ th[t].op = "info" /\ th[t].mine \in Procs
      /\ th[t].job \in Iperf!JobIds
      /\ IperfSound(t) /\ UNCHANGED <<handles, jobs, jobid>> /\ IperfOnlyEnd
      /\ handles' \in [Ports -> Procs \cup {None}]
  BY IperfUnchanged DEF IperfInv, IperfTypes, IperfSound, IperfShape, Iperf!Poll, Iperf!At,
     Iperf!files
<1>2. CASE Iperf!Raises(t) \/ Iperf!Returns(t)
  BY <1>1, <1>2, IperfEndKeeps
<1>3. CASE ~ Iperf!Popped(t) /\ ~ Iperf!Alive(th[t].mine)
  <2> DEFINE l == IF jobs[th[t].job].result = None THEN "collect" ELSE "done"
  <2>1. l \in {"collect", "done"} /\ (l = "done" => jobs[th[t].job].result # None)
    OBVIOUS
  <2>2. Iperf!Goto(t, l) /\ UNCHANGED proc
    BY <1>3 DEF Iperf!Poll
  <2> HIDE DEF l
  <2>3. /\ IperfMoves(t)
        /\ th'[t].pc = l /\ th'[t].op = th[t].op /\ th'[t].job = th[t].job
        /\ th'[t].port = th[t].port /\ th'[t].mine = th[t].mine
    BY <2>1, <2>2, IperfGotoMoves
  <2>4. IperfShape(t)' /\ IperfNumbers(t)' /\ IperfStops(t)'
    BY <1>1, <2>1, <2>3 DEF IperfShape, IperfNumbers, IperfStops
  <2>5. IperfHears(t)'
    BY <1>1, <2>1, <2>3 DEF IperfSound, IperfHears, IperfMoves
  <2>6. IperfReads(t)'
    BY <1>1, <1>3, <2>1, <2>2, <2>3 DEF IperfSound, IperfReads, IperfHolds, Iperf!Alive, Iperf!NoJob
  <2>7. QED
    BY <1>1, <2>1, <2>3, <2>4, <2>5, <2>6, IperfQuietKeeps
<1>4. QED
  BY <1>2, <1>3 DEF Iperf!Poll

\* communicate(): the process keeps its state, and the call goes on.
LEMMA IperfReadKeeps ==
  ASSUME Orderly, IperfInv, NEW t \in Threads, NEW r \in IperfProcess, NEW l \in {"close", "save"},
         th[t].pc \in {"collect", "close"}, IperfMoves(t),
         th'[t].pc = l, th'[t].op = th[t].op, th'[t].job = th[t].job,
         th'[t].port = th[t].port, th'[t].mine = th[t].mine,
         r.job = proc[th[t].mine].job, r.st = proc[th[t].mine].st,
         proc' = [proc EXCEPT ![th[t].mine] = r], UNCHANGED <<handles, jobs, jobid>>
  PROVE  IperfInv'
<1>1. /\ th[t].op = "info" /\ th[t].mine \in Procs /\ th[t].job \in Iperf!JobIds
      /\ IperfSound(t) /\ handles' \in [Ports -> Procs \cup {None}]
      /\ proc \in [Procs -> IperfProcess]
  BY DEF IperfInv, IperfTypes, IperfSound, IperfShape
<1>2. IperfOnlyEnd
  BY <1>1 DEF IperfOnlyEnd, Iperf!Alive, Iperf!Running
<1>3. IperfShape(t)' /\ IperfNumbers(t)' /\ IperfStops(t)'
  BY <1>1 DEF IperfShape, IperfNumbers, IperfStops
<1>4. IperfHears(t)'
  BY <1>1 DEF IperfSound, IperfHears, IperfMoves
<1>5. IperfReads(t)'
  BY <1>1 DEF IperfSound, IperfReads, IperfHolds, Iperf!Alive, Iperf!NoJob
<1>6. QED
  BY <1>1, <1>2, <1>3, <1>4, <1>5, IperfQuietKeeps

LEMMA IperfCollectMoves ==
  ASSUME Orderly, IperfInv, NEW t \in Threads, th[t].mine \in Procs, NEW n \in 0..Output,
         th' = [th EXCEPT ![t].got = n, ![t].pc = "close"]
  PROVE  /\ IperfMoves(t)
         /\ th'[t].pc = "close" /\ th'[t].got = n /\ th'[t].op = th[t].op
         /\ th'[t].job = th[t].job /\ th'[t].port = th[t].port /\ th'[t].mine = th[t].mine
<1>1. th \in [Threads -> IperfCallRec] /\ th[t] \in IperfCallRec
  BY DEF IperfInv, IperfTypes
<1> DEFINE d == [th[t] EXCEPT !.got = n]
           c == [d EXCEPT !.pc = "close"]
<1>2. /\ d \in IperfCallRec /\ d.got = n /\ d.op = th[t].op /\ d.job = th[t].job
      /\ d.port = th[t].port /\ d.mine = th[t].mine
  BY <1>1 DEF IperfCallRec
<1>3. /\ c \in IperfCallRec /\ c.got = n /\ c.op = th[t].op /\ c.job = th[t].job
      /\ c.port = th[t].port /\ c.mine = th[t].mine /\ c.pc = "close"
  <2> HIDE DEF d
  <2> QED BY <1>2 DEF IperfCallRec
<1>4. th' = [th EXCEPT ![t] = c]
  BY <1>1, Zenon
<1> HIDE DEF c
<1>5. QED
  BY <1>1, <1>3, <1>4 DEF IperfMoves

\* The pipe holds at most what has been written.
IperfFits(p) == proc[p].buf \in 0..Output

LEMMA IperfCollectKeeps ==
  ASSUME Orderly, IperfInv, NEW t \in Threads, Iperf!Collect(t), IperfFits(th[t].mine)
  PROVE  IperfInv'
<1> DEFINE p == th[t].mine
           r == [proc[p] EXCEPT !.buf = 0]
<1>1. /\ th[t].pc = "collect" /\ th[t].op = "info" /\ p \in Procs
      /\ IperfSound(t) /\ UNCHANGED <<handles, jobs, jobid>>
      /\ handles' \in [Ports -> Procs \cup {None}]
  BY DEF IperfInv, IperfTypes, IperfSound, IperfShape, Iperf!Collect, Iperf!At, Iperf!files
<1>2. CASE proc[p].closed
  BY <1>1, <1>2, IperfUnchanged, IperfEndKeeps DEF Iperf!Collect
<1>3. CASE ~ proc[p].closed
  <2>1. r \in IperfProcess /\ r.job = proc[p].job /\ r.st = proc[p].st
    BY <1>1 DEF IperfInv, IperfTypes, IperfProcess, Orderly, Iperf!IperfAssumption
  <2>2. proc' = [proc EXCEPT ![p] = r]
    BY <1>1, <1>3 DEF Iperf!Collect
  <2>3. th' = [th EXCEPT ![t].got = proc[p].buf, ![t].pc = "close"]
    BY <1>3 DEF Iperf!Collect
  <2> HIDE DEF r
  <2>4. QED
    BY <1>1, <2>1, <2>2, <2>3, IperfCollectMoves, IperfReadKeeps DEF IperfFits
<1>4. QED
  BY <1>2, <1>3

LEMMA IperfCloseKeeps ==
  ASSUME Orderly, IperfInv, NEW t \in Threads, Iperf!Close(t)
  PROVE  IperfInv'
<1> DEFINE p == th[t].mine
           r == [proc[p] EXCEPT !.closed = TRUE]
<1>1. th[t].pc = "close" /\ p \in Procs /\ UNCHANGED <<handles, jobs, jobid>>
  BY DEF IperfInv, IperfSound, IperfShape, Iperf!Close, Iperf!At, Iperf!files
<1>2. proc[p] \in IperfProcess /\ proc' = [proc EXCEPT ![p].closed = TRUE]
  BY <1>1 DEF IperfInv, IperfTypes, Iperf!Close
<1>3. /\ r \in IperfProcess /\ r.job = proc[p].job /\ r.st = proc[p].st
      /\ proc' = [proc EXCEPT ![p] = r]
  BY <1>2 DEF IperfProcess
<1> HIDE DEF r
<1>4. QED
  BY <1>1, <1>3, IperfGotoMoves, IperfReadKeeps DEF Iperf!Close

\* The entry of a filed job is changed: the process stays, and the result is of
\* one that has ended.
LEMMA IperfEntryKeeps ==
  ASSUME Orderly, IperfInv, NEW t \in Threads, NEW e \in IperfEntry, NEW i \in Iperf!JobIds,
         IperfMoves(t), th'[t].pc \in {"done", "reply"}, th'[t].op = "info", th[t].op = "info",
         th'[t].job = i, th[t].job = i,
         th'[t].mine = th[t].mine, th[t].pc \in {"save", "done"},
         jobs[i] # Iperf!NoJob, e.proc = jobs[i].proc, e # Iperf!NoJob, e.result # None, th'[t].port = th[t].port,
         jobs' = [jobs EXCEPT ![i] = e],
         UNCHANGED <<handles, jobid, proc>>
  PROVE  IperfInv'
<1>1. /\ jobs' \in [Iperf!JobIds -> IperfEntry] /\ jobs'[i] = e
      /\ \A j \in Iperf!JobIds \ {i} : jobs'[j] = jobs[j]
      /\ IperfSound(t) /\ IperfHolds(t) /\ ~ Iperf!Alive(th[t].mine)
  BY DEF IperfInv, IperfTypes, IperfSound, IperfReads
<1>2. IperfTypes'
  BY <1>1 DEF IperfInv, IperfTypes, IperfMoves
<1>3. IperfGiven'
  BY <1>1 DEF IperfInv, IperfGiven
<1>4. IperfFiled'
  BY <1>1 DEF IperfInv, IperfFiled, Iperf!Alive, IperfHolds
<1>5. IperfAnswered'
  <2>1. \A p \in Procs : proc[p].job # 0 => proc[p].job \in Iperf!JobIds
    BY DEF IperfInv, IperfTypes, IperfProcess, Iperf!JobIds, Orderly, Iperf!IperfAssumption
  <2>2. QED
    BY <1>1, <2>1 DEF IperfInv, IperfAnswered, Iperf!Running
<1>6. ASSUME NEW u \in Threads PROVE IperfSound(u)'
  <2>1. IperfSound(u)
    BY DEF IperfInv
  <2>2. CASE u = t
    <3>1. IperfShape(t)' /\ IperfNumbers(t)' /\ IperfStops(t)'
      BY <1>1 DEF IperfSound, IperfShape, IperfNumbers, IperfStops
    <3>2. IperfHears(t)'
      BY <1>1 DEF IperfSound, IperfHears, IperfMoves
    <3>3. IperfReads(t)'
      BY <1>1 DEF IperfSound, IperfReads, IperfHolds, Iperf!Alive
    <3>4. QED
      BY <2>2, <3>1, <3>2, <3>3 DEF IperfSound
  <2>3. CASE u # t
    <3>1. th'[u] = th[u]
      BY <2>3 DEF IperfMoves
    <3>2. IperfShape(u)'
      BY <2>1, <3>1 DEF IperfSound, IperfShape
    <3>3. IperfHears(u)'
      BY <2>1, <3>1 DEF IperfSound, IperfHears, IperfMoves
    <3>4. IperfNumbers(u)'
      <4>1. th[u].pc = "file" => jobid # i
        BY DEF IperfInv, IperfSound, IperfNumbers
      <4>2. QED
        BY <1>1, <2>1, <3>1, <4>1 DEF IperfSound, IperfNumbers, IperfMoves
    <3>5. IperfReads(u)'
      <4>1. th[u].pc \in {"poll", "collect", "close", "save", "done"} => th[u].job \in Iperf!JobIds
        BY <2>1 DEF IperfSound, IperfShape
      <4>2. QED
        BY <1>1, <2>1, <3>1, <4>1 DEF IperfSound, IperfReads, IperfHolds, Iperf!Alive
    <3>6. IperfStops(u)'
      <4>1. th[u].op = "stopclient" => th[u].job \in Iperf!JobIds
        BY <2>1 DEF IperfSound, IperfShape
      <4>2. QED
        BY <1>1, <2>1, <3>1, <4>1 DEF IperfSound, IperfStops, IperfHolds, Iperf!Running
    <3>7. QED
      BY <3>2, <3>3, <3>4, <3>5, <3>6 DEF IperfSound
  <2>4. QED
    BY <2>2, <2>3
<1>7. QED
  BY <1>2, <1>3, <1>4, <1>5, <1>6 DEF IperfInv

LEMMA IperfSaveKeeps ==
  ASSUME Orderly, IperfInv, NEW t \in Threads, Iperf!Save(t)
  PROVE  IperfInv'
<1> DEFINE i == th[t].job
           e == [jobs[i] EXCEPT !.result = th[t].got]
<1>1. /\ th[t].pc = "save" /\ th[t].op = "info" /\ th[t].mine \in Procs /\ i \in Iperf!JobIds
      /\ IperfSound(t) /\ UNCHANGED <<handles, jobid, proc>> /\ IperfOnlyEnd
  BY IperfUnchanged DEF IperfInv, IperfSound, IperfShape, Iperf!Save, Iperf!At
<1>2. CASE Iperf!Popped(t)
  BY <1>1, <1>2, IperfEndKeeps DEF Iperf!Save, IperfInv, IperfTypes
<1>3. CASE ~ Iperf!Popped(t)
  <2>1. /\ jobs \in [Iperf!JobIds -> IperfEntry] /\ jobs[i] \in IperfEntry /\ jobs[i] # Iperf!NoJob
        /\ jobs' = [jobs EXCEPT ![i].result = th[t].got] /\ Iperf!Goto(t, "done")
    BY <1>1, <1>3 DEF IperfInv, IperfTypes, Iperf!Save, Iperf!Popped
  <2>2. /\ e \in IperfEntry /\ e.proc = jobs[i].proc /\ e.result # None /\ e # Iperf!NoJob
        /\ jobs' = [jobs EXCEPT ![i] = e]
    <3>1. th[t].got \in 0..Output /\ None \notin 0..Output
      BY DEF IperfInv, IperfTypes, IperfCallRec, Orderly, Iperf!IperfAssumption
    <3>2. QED
      BY <1>1, <2>1, <3>1 DEF IperfEntry, Iperf!NoJob
  <2>3. /\ IperfMoves(t)
        /\ th'[t].pc = "done" /\ th'[t].op = th[t].op /\ th'[t].job = th[t].job
        /\ th'[t].port = th[t].port /\ th'[t].mine = th[t].mine
    BY <2>1, IperfGotoMoves
  <2> HIDE DEF i, e
  <2>4. QED
    <3>1. i \in Iperf!JobIds /\ th[t].job = i
      BY <1>1 DEF i
    <3>2. e \in IperfEntry
      BY <2>2
    <3>3. th'[t].pc \in {"done", "reply"} /\ th'[t].op = "info" /\ th'[t].job = i
      BY <1>1, <2>3, <3>1
    <3>4. QED
      BY <1>1, <2>1, <2>2, <2>3, <3>1, <3>2, <3>3, IperfEntryKeeps, Zenon
<1>4. QED
  BY <1>2, <1>3

LEMMA IperfDoneKeeps ==
  ASSUME Orderly, IperfInv, NEW t \in Threads, Iperf!Done(t)
  PROVE  IperfInv'
<1> DEFINE i == th[t].job
           e == [jobs[i] EXCEPT !.state = "done"]
<1>1. /\ th[t].pc = "done" /\ th[t].op = "info" /\ th[t].mine \in Procs /\ i \in Iperf!JobIds
      /\ IperfSound(t) /\ UNCHANGED <<handles, jobid, proc>> /\ IperfOnlyEnd
  BY IperfUnchanged DEF IperfInv, IperfSound, IperfShape, Iperf!Done, Iperf!At
<1>2. CASE Iperf!Popped(t)
  BY <1>1, <1>2, IperfEndKeeps DEF Iperf!Done, IperfInv, IperfTypes
<1>3. CASE ~ Iperf!Popped(t)
  <2>1. /\ jobs \in [Iperf!JobIds -> IperfEntry] /\ jobs[i] \in IperfEntry
        /\ jobs[i] # Iperf!NoJob /\ jobs[i].result # None
        /\ jobs' = [jobs EXCEPT ![i].state = "done"] /\ Iperf!Returns(t)
    BY <1>1, <1>3 DEF IperfInv, IperfTypes, Iperf!Done, Iperf!Popped, IperfSound, IperfReads
  <2>2. /\ e \in IperfEntry /\ e.proc = jobs[i].proc /\ e.result # None /\ e # Iperf!NoJob
        /\ jobs' = [jobs EXCEPT ![i] = e]
    BY <1>1, <2>1 DEF IperfEntry, Iperf!NoJob
  <2>3. /\ IperfMoves(t)
        /\ th'[t].pc = "reply" /\ th'[t].op = th[t].op /\ th'[t].job = th[t].job
        /\ th'[t].port = th[t].port /\ th'[t].mine = th[t].mine
    BY <2>1, IperfReturnsMoves
  <2> HIDE DEF i, e
  <2>4. QED
    <3>1. i \in Iperf!JobIds /\ th[t].job = i
      BY <1>1 DEF i
    <3>2. e \in IperfEntry
      BY <2>2
    <3>3. th'[t].pc \in {"done", "reply"} /\ th'[t].op = "info" /\ th'[t].job = i
      BY <1>1, <2>3, <3>1
    <3>4. QED
      BY <1>1, <2>1, <2>2, <2>3, <3>1, <3>2, <3>3, IperfEntryKeeps, Zenon
<1>4. QED
  BY <1>2, <1>3

-----------------------------------------------------------------------------
(* A client is started, numbered, filed and answered for.                  *)

\* The subprocess that is started is one that nothing refers to.
LEMMA IperfSpawnKeeps ==
  ASSUME Orderly, IperfInv, NEW t \in Threads, Iperf!Spawn(t)
  PROVE  IperfInv'
<1> DEFINE s == th[t].op = "start"
           l == IF s THEN "wait" ELSE "number"
<1>1. PICK p \in Iperf!FreeProcs :
        /\ proc' = [proc EXCEPT ![p] =
             IF s THEN [Iperf!Free EXCEPT !.kind = "server", !.st = "starting", !.port = th[t].port]
             ELSE [Iperf!Free EXCEPT !.kind = "client", !.st = "starting"]]
        /\ th' = [th EXCEPT ![t].mine = p, ![t].old = jobid, ![t].pc = l]
  BY DEF Iperf!Spawn
<1>2. /\ th[t].pc = "spawn" /\ th[t].op \in {"start", "client"} /\ IperfSound(t)
      /\ UNCHANGED <<handles, jobs, jobid>>
      /\ th[t] \in IperfCallRec /\ th \in [Threads -> IperfCallRec]
  BY DEF IperfInv, IperfTypes, IperfSound, IperfShape, Iperf!Spawn, Iperf!At, Iperf!files
<1>3. /\ p \in Procs /\ ~ Iperf!Alive(p) /\ \A j \in Iperf!JobIds : jobs[j].proc # p
      /\ \A u \in Threads : th[u].mine # p
  BY DEF Iperf!FreeProcs
<1> DEFINE r == IF s THEN [Iperf!Free EXCEPT !.kind = "server", !.st = "starting", !.port = th[t].port]
                ELSE [Iperf!Free EXCEPT !.kind = "client", !.st = "starting"]
<1>4. r \in IperfProcess /\ r.job = 0
  <2>1. 0 \in 0..LastJob /\ 0 \in 0..Output /\ Output \in 0..Output /\ 0 \in 0..Pipe
    BY DEF Orderly, Iperf!IperfAssumption
  <2>2. th[t].port \in Ports \cup {None}
    BY <1>2 DEF IperfCallRec
  <2>3. CASE s
    BY <2>1, <2>2, <2>3 DEF Iperf!Free, IperfProcess
  <2>4. CASE ~ s
    BY <2>1, <2>4 DEF Iperf!Free, IperfProcess
  <2>5. QED
    BY <2>3, <2>4
<1>5. /\ proc' \in [Procs -> IperfProcess] /\ proc'[p].job = 0
      /\ \A q \in Procs \ {p} : proc'[q] = proc[q]
  <2>1. proc' = [proc EXCEPT ![p] = r]
    BY <1>1
  <2>2. QED
    <3> HIDE DEF r, s
    <3> QED BY <1>3, <1>4, <2>1 DEF IperfInv, IperfTypes
<1>6. l \in {"wait", "number"} /\ (l = "wait" <=> th[t].op = "start")
  OBVIOUS
<1> HIDE DEF l, s
<1>7. /\ IperfMoves(t)
      /\ th'[t].pc = l /\ th'[t].mine = p /\ th'[t].old = jobid /\ th'[t].op = th[t].op
      /\ th'[t].job = th[t].job /\ th'[t].port = th[t].port
  <2> DEFINE d == [th[t] EXCEPT !.mine = p]
             e == [d EXCEPT !.old = jobid]
             c == [e EXCEPT !.pc = l]
  <2>1. /\ d \in IperfCallRec /\ d.mine = p /\ d.op = th[t].op /\ d.job = th[t].job
        /\ d.port = th[t].port
    BY <1>2, <1>3 DEF IperfCallRec
  <2>2. /\ e \in IperfCallRec /\ e.mine = p /\ e.op = th[t].op /\ e.job = th[t].job
        /\ e.port = th[t].port /\ e.old = jobid
    <3>1. jobid \in 0..LastJob
      BY DEF IperfInv, IperfTypes
    <3> HIDE DEF d
    <3> QED BY <2>1, <3>1 DEF IperfCallRec
  <2>3. /\ c \in IperfCallRec /\ c.mine = p /\ c.op = th[t].op /\ c.job = th[t].job
        /\ c.port = th[t].port /\ c.old = jobid /\ c.pc = l
    <3> HIDE DEF e
    <3> QED BY <1>6, <2>2 DEF IperfCallRec
  <2>4. th' = [th EXCEPT ![t] = c]
    BY <1>1, <1>2, Zenon
  <2> HIDE DEF c
  <2>5. QED
    BY <1>2, <2>3, <2>4 DEF IperfMoves
<1>8. IperfTypes'
  BY <1>2, <1>5, <1>7 DEF IperfInv, IperfTypes, IperfMoves
<1>9. IperfGiven' /\ IperfAnswered'
  BY <1>2, <1>5 DEF IperfInv, IperfGiven, IperfAnswered, IperfTypes, IperfProcess, Iperf!Running
<1>10. IperfFiled'
  BY <1>2, <1>3, <1>5 DEF IperfInv, IperfFiled, Iperf!Alive
<1>11. ASSUME NEW u \in Threads PROVE IperfSound(u)'
  <2>1. IperfSound(u)
    BY DEF IperfInv
  <2>2. CASE u = t
    <3>1. IperfShape(t)'
      BY <1>2, <1>3, <1>6, <1>7 DEF IperfSound, IperfShape
    <3>2. IperfNumbers(t)'
      BY <1>2, <1>6, <1>7 DEF IperfSound, IperfNumbers, IperfMoves
    <3>3. IperfHears(t)' /\ IperfReads(t)' /\ IperfStops(t)'
      BY <1>2, <1>6, <1>7 DEF IperfHears, IperfReads, IperfStops
    <3>4. QED
      BY <2>2, <3>1, <3>2, <3>3 DEF IperfSound
  <2>3. CASE u # t
    <3>1. th'[u] = th[u]
      BY <1>7, <2>3 DEF IperfMoves
    <3>2. IperfShape(u)'
      BY <2>1, <3>1 DEF IperfSound, IperfShape
    <3>3. IperfNumbers(u)'
      <4>1. th[u].pc \in {"file", "answer"} => jobid # 0
        BY <2>1 DEF IperfSound, IperfNumbers, Iperf!JobIds
      <4>2. QED
        BY <1>2, <1>5, <1>7, <2>1, <3>1, <4>1 DEF IperfSound, IperfNumbers, IperfMoves
    <3>4. IperfHears(u)'
      BY <1>2, <1>6, <1>7, <2>1, <3>1 DEF IperfSound, IperfHears, IperfMoves
    <3>5. IperfReads(u)'
      BY <1>2, <1>3, <1>5, <2>1, <3>1 DEF IperfSound, IperfShape, IperfReads, IperfHolds,
         Iperf!Alive
    <3>6. IperfStops(u)'
      BY <1>2, <1>3, <1>5, <2>1, <3>1 DEF IperfSound, IperfShape, IperfStops, IperfHolds,
         Iperf!Running
    <3>7. QED
      BY <3>2, <3>3, <3>4, <3>5, <3>6 DEF IperfSound
  <2>4. QED
    BY <2>2, <2>3
<1>12. QED
  BY <1>8, <1>9, <1>10, <1>11 DEF IperfInv

\* The id is one more than the one read before the spawn, which is the last one still.
LEMMA IperfNumberKeeps ==
  ASSUME Orderly, IperfInv, NEW t \in Threads, Iperf!Number(t)
  PROVE  IperfInv'
<1>1. /\ th[t].pc = "number" /\ th[t].op = "client" /\ th[t].mine \in Procs /\ IperfSound(t)
      /\ th[t].old = jobid /\ jobid < LastJob /\ jobid \in 0..LastJob /\ jobid' = jobid + 1
      /\ UNCHANGED <<handles, jobs, proc>>
  BY DEF IperfInv, IperfTypes, IperfSound, IperfShape, IperfNumbers, Iperf!Number, Iperf!At
<1>2. jobid' \in Iperf!JobIds /\ jobid' > jobid /\ jobid' \in 0..LastJob
  BY <1>1 DEF Iperf!JobIds, Orderly, Iperf!IperfAssumption
<1>3. /\ IperfMoves(t)
      /\ th'[t].pc = "file" /\ th'[t].op = th[t].op /\ th'[t].job = th[t].job
      /\ th'[t].port = th[t].port /\ th'[t].mine = th[t].mine
  BY IperfGotoMoves DEF Iperf!Number
<1>4. IperfTypes'
  BY <1>1, <1>2, <1>3 DEF IperfInv, IperfTypes, IperfMoves
<1>5. \A p \in Procs : proc[p].job \in Nat /\ proc[p].job <= jobid
  BY DEF IperfInv, IperfTypes, IperfProcess, IperfGiven
<1>6. IperfGiven'
  <2>1. \A j \in Iperf!JobIds : j > jobid' => jobs[j] = Iperf!NoJob
    BY <1>1, <1>2 DEF IperfInv, IperfGiven, Iperf!JobIds
  <2>2. \A p \in Procs : proc[p].job <= jobid'
    BY <1>1, <1>5
  <2>3. QED
    BY <1>1, <2>1, <2>2 DEF IperfGiven
<1>7. IperfFiled' /\ IperfAnswered'
  BY <1>1 DEF IperfInv, IperfFiled, IperfAnswered, Iperf!Alive, Iperf!Running
<1>8. jobs[jobid'] = Iperf!NoJob /\ \A p \in Procs : proc[p].job # jobid'
  BY <1>1, <1>2, <1>5 DEF IperfInv, IperfGiven
<1>9. ASSUME NEW u \in Threads PROVE IperfSound(u)'
  <2>1. IperfSound(u) /\ th[u] \in IperfCallRec
    BY DEF IperfInv, IperfTypes
  <2>2. CASE u = t
    <3>1. IperfShape(t)' /\ IperfHears(t)' /\ IperfReads(t)' /\ IperfStops(t)'
      BY <1>1, <1>3 DEF IperfSound, IperfShape, IperfHears, IperfReads, IperfStops
    <3>2. IperfNumbers(t)'
      BY <1>1, <1>2, <1>3, <1>8 DEF IperfSound, IperfNumbers, IperfMoves
    <3>3. QED
      BY <2>2, <3>1, <3>2 DEF IperfSound
  <2>3. CASE u # t
    <3>1. th'[u] = th[u] /\ th[u].op # "client"
      BY <1>1, <1>3, <2>3 DEF IperfMoves, IperfSound, IperfNumbers
    <3>2. IperfShape(u)'
      BY <2>1, <3>1 DEF IperfSound, IperfShape
    <3>3. IperfNumbers(u)'
      BY <2>1, <3>1 DEF IperfSound, IperfNumbers, IperfShape
    <3>4. IperfHears(u)'
      <4>1. th[u].job \in Nat
        BY <2>1 DEF IperfCallRec
      <4>2. QED
        BY <1>1, <2>1, <3>1, <4>1 DEF IperfSound, IperfHears
    <3>5. IperfReads(u)' /\ IperfStops(u)'
      BY <1>1, <2>1, <3>1 DEF IperfSound, IperfReads, IperfStops, IperfHolds, Iperf!Alive,
         Iperf!Running
    <3>6. QED
      BY <3>2, <3>3, <3>4, <3>5 DEF IperfSound
  <2>4. QED
    BY <2>2, <2>3
<1>10. QED
  BY <1>4, <1>6, <1>7, <1>9 DEF IperfInv

LEMMA IperfFileKeeps ==
  ASSUME Orderly, IperfInv, NEW t \in Threads, Iperf!File(t)
  PROVE  IperfInv'
<1>1. /\ th[t].pc = "file" /\ th[t].op = "client" /\ th[t].mine \in Procs /\ IperfSound(t)
      /\ jobid \in Iperf!JobIds /\ jobs[jobid] = Iperf!NoJob
      /\ jobs' = [jobs EXCEPT ![jobid] = Iperf!Job(t)] /\ jobs \in [Iperf!JobIds -> IperfEntry]
      /\ UNCHANGED <<handles, jobid, proc>>
  BY DEF IperfInv, IperfTypes, IperfSound, IperfShape, IperfNumbers, Iperf!File, Iperf!At
<1>2. /\ Iperf!Job(t) \in IperfEntry /\ Iperf!Job(t).proc = th[t].mine
      /\ Iperf!Job(t).result = None /\ Iperf!Job(t).state # "done"
  BY <1>1 DEF Iperf!Job, IperfEntry
<1>3. /\ jobs' \in [Iperf!JobIds -> IperfEntry] /\ jobs'[jobid] = Iperf!Job(t)
      /\ \A j \in Iperf!JobIds \ {jobid} : jobs'[j] = jobs[j]
  BY <1>1, <1>2
<1>4. /\ IperfMoves(t)
      /\ th'[t].pc = "answer" /\ th'[t].op = th[t].op /\ th'[t].job = th[t].job
      /\ th'[t].port = th[t].port /\ th'[t].mine = th[t].mine
  BY IperfGotoMoves DEF Iperf!File
<1>5. IperfTypes'
  BY <1>1, <1>3, <1>4 DEF IperfInv, IperfTypes, IperfMoves
<1>6. IperfGiven'
  BY <1>1, <1>3 DEF IperfInv, IperfGiven, Iperf!JobIds
<1>7. IperfFiled'
  BY <1>1, <1>2, <1>3 DEF IperfInv, IperfFiled, Iperf!Alive
<1>8. IperfAnswered'
  <2>1. \A p \in Procs : proc[p].job # 0 => proc[p].job \in Iperf!JobIds \ {jobid}
    BY <1>1 DEF IperfInv, IperfTypes, IperfProcess, Iperf!JobIds, Orderly, Iperf!IperfAssumption,
       IperfSound, IperfNumbers
  <2>2. QED
    BY <1>1, <1>3, <2>1 DEF IperfInv, IperfAnswered, Iperf!Running
<1>9. ASSUME NEW u \in Threads PROVE IperfSound(u)'
  <2>1. IperfSound(u)
    BY DEF IperfInv
  <2>2. CASE u = t
    <3>1. IperfShape(t)' /\ IperfHears(t)' /\ IperfReads(t)' /\ IperfStops(t)'
      BY <1>1, <1>4 DEF IperfSound, IperfShape, IperfHears, IperfReads, IperfStops
    <3>2. IperfNumbers(t)'
      BY <1>1, <1>2, <1>3, <1>4 DEF IperfSound, IperfNumbers, IperfMoves
    <3>3. QED
      BY <2>2, <3>1, <3>2 DEF IperfSound
  <2>3. CASE u # t
    <3>1. th'[u] = th[u] /\ th[u].op # "client"
      BY <1>1, <1>4, <2>3 DEF IperfMoves, IperfSound, IperfNumbers
    <3>2. IperfShape(u)' /\ IperfNumbers(u)'
      BY <2>1, <3>1 DEF IperfSound, IperfShape, IperfNumbers
    <3>3. IperfHears(u)'
      BY <1>1, <1>4, <2>1, <3>1 DEF IperfSound, IperfHears, IperfMoves
    <3>4. (th[u].op = "stopclient" \/ th[u].pc \in {"poll", "collect", "close", "save", "done"})
            => jobs'[th[u].job] = jobs[th[u].job]
      BY <1>1, <1>3, <2>1 DEF IperfSound, IperfShape, IperfHears
    <3>5. IperfReads(u)' /\ IperfStops(u)'
      BY <1>1, <2>1, <3>1, <3>4 DEF IperfSound, IperfReads, IperfStops, IperfHolds, Iperf!Alive,
         Iperf!Running
    <3>6. QED
      BY <3>2, <3>3, <3>5 DEF IperfSound
  <2>4. QED
    BY <2>2, <2>3
<1>10. QED
  BY <1>5, <1>6, <1>7, <1>8, <1>9 DEF IperfInv

LEMMA IperfAnswerKeeps ==
  ASSUME Orderly, IperfInv, NEW t \in Threads, Iperf!Answer(t)
  PROVE  IperfInv'
<1> DEFINE p == th[t].mine
<1>1. /\ th[t].pc = "answer" /\ th[t].op = "client" /\ p \in Procs /\ IperfSound(t)
      /\ jobid \in Iperf!JobIds /\ jobs[jobid].proc = p
      /\ proc' = [proc EXCEPT ![p].job = jobid] /\ proc \in [Procs -> IperfProcess]
      /\ UNCHANGED <<handles, jobs, jobid>> /\ jobid \in 0..LastJob
  BY DEF IperfInv, IperfTypes, IperfSound, IperfShape, IperfNumbers, Iperf!Answer, Iperf!At,
     Iperf!files
<1>2. /\ proc' \in [Procs -> IperfProcess] /\ proc'[p].job = jobid /\ proc'[p].st = proc[p].st
      /\ \A q \in Procs \ {p} : proc'[q] = proc[q]
  BY <1>1 DEF IperfProcess
<1>3. /\ IperfMoves(t)
      /\ th'[t].pc = "reply" /\ th'[t].op = th[t].op /\ th'[t].job = th[t].job
      /\ th'[t].port = th[t].port /\ th'[t].mine = th[t].mine
  BY IperfReturnsMoves DEF Iperf!Answer
<1>4. IperfTypes'
  BY <1>1, <1>2, <1>3 DEF IperfInv, IperfTypes, IperfMoves
<1>5. IperfGiven' /\ IperfAnswered'
  BY <1>1, <1>2 DEF IperfInv, IperfGiven, IperfAnswered, Iperf!Running
<1>6. IperfFiled'
  BY <1>1, <1>2 DEF IperfInv, IperfFiled, Iperf!Alive
<1>7. ASSUME NEW u \in Threads PROVE IperfSound(u)'
  <2>1. IperfSound(u)
    BY DEF IperfInv
  <2>2. CASE u = t
    <3>1. IperfShape(t)' /\ IperfHears(t)' /\ IperfReads(t)' /\ IperfStops(t)'
      BY <1>1, <1>3 DEF IperfSound, IperfShape, IperfHears, IperfReads, IperfStops
    <3>2. IperfNumbers(t)'
      BY <1>1, <1>3 DEF IperfSound, IperfNumbers, IperfMoves
    <3>3. QED
      BY <2>2, <3>1, <3>2 DEF IperfSound
  <2>3. CASE u # t
    <3>1. th'[u] = th[u] /\ th[u].op # "client"
      BY <1>1, <1>3, <2>3 DEF IperfMoves, IperfSound, IperfNumbers
    <3>2. IperfShape(u)' /\ IperfNumbers(u)'
      BY <2>1, <3>1 DEF IperfSound, IperfShape, IperfNumbers
    <3>3. IperfHears(u)'
      BY <1>1, <1>3, <2>1, <3>1 DEF IperfSound, IperfHears, IperfMoves
    <3>4. IperfReads(u)' /\ IperfStops(u)'
      BY <1>1, <1>2, <2>1, <3>1 DEF IperfSound, IperfShape, IperfReads, IperfStops, IperfHolds,
         Iperf!Alive, Iperf!Running
    <3>5. QED
      BY <3>2, <3>3, <3>4 DEF IperfSound
  <2>4. QED
    BY <2>2, <2>3
<1>8. QED
  BY <1>4, <1>5, <1>6, <1>7 DEF IperfInv

-----------------------------------------------------------------------------
LEMMA IperfInitKeeps == Orderly /\ Iperf!Init => IperfInv
<1> SUFFICES ASSUME Orderly, Iperf!Init PROVE IperfInv
  OBVIOUS
<1>1. 0 \in 0..LastJob /\ Output \in 0..Output /\ 0 \in 0..Pipe
  BY DEF Orderly, Iperf!IperfAssumption
<1>2. IperfTypes
  <2>1. th \in [Threads -> IperfCallRec]
    BY IperfIdleCall DEF Iperf!Init
  <2>2. Iperf!NoJob \in IperfEntry /\ Iperf!Free \in IperfProcess
    BY <1>1 DEF Iperf!NoJob, IperfEntry, Iperf!Free, IperfProcess
  <2>3. QED
    BY <1>1, <2>1, <2>2 DEF Iperf!Init, IperfTypes
<1>3. IperfGiven /\ IperfFiled /\ IperfAnswered
  BY DEF Iperf!Init, IperfGiven, IperfFiled, IperfAnswered, Iperf!Free
<1>4. ASSUME NEW t \in Threads PROVE IperfSound(t)
  <2>1. \A u \in Threads : th[u].pc = "idle" /\ th[u].op = "none"
    BY DEF Iperf!Init, Iperf!Idle
  <2>2. QED
    BY <2>1 DEF IperfSound, IperfShape, IperfNumbers, IperfHears, IperfReads, IperfStops
<1>5. QED
  BY <1>2, <1>3, <1>4 DEF IperfInv

LEMMA IperfCallsKeep ==
  ASSUME Orderly, IperfInv, NEW t \in Threads, Iperf!Calls(t)
  PROVE  IperfInv'
BY IperfBeginStartServerKeeps, IperfBeginStopServerKeeps, IperfBeginStartClientKeeps,
   IperfBeginStopAppKeeps,
   IperfBeginStopClientKeeps, IperfBeginInfoKeeps DEF Iperf!Calls

LEMMA IperfCollects ==
  ASSUME Orderly, IperfInv, NEW t \in Threads, Iperf!Collect(t), \A p \in Procs : IperfFits(p)
  PROVE  IperfInv'
<1>1. th[t].mine \in Procs
  BY DEF IperfInv, IperfSound, IperfShape, Iperf!Collect, Iperf!At
<1>2. QED
  BY <1>1, IperfCollectKeeps

LEMMA IperfServeKeeps ==
  ASSUME Orderly, IperfInv, NEW t \in Threads, Iperf!Serve(t), \A p \in Procs : IperfFits(p)
  PROVE  IperfInv'
BY IperfDrawKeeps, IperfLookKeeps, IperfSpawnKeeps, IperfWaitKeeps, IperfFindKeeps,
   IperfKillKeeps, IperfPopKeeps, IperfNumberKeeps,
   IperfFileKeeps, IperfAnswerKeeps, IperfPollKeeps, IperfCollects, IperfCloseKeeps,
   IperfSaveKeeps, IperfDoneKeeps, IperfSweepKeeps, IperfReplyKeeps
   DEF Iperf!Serve

LEMMA IperfNextKeeps ==
  ASSUME Orderly, IperfInv, \A p \in Procs : IperfFits(p), [Iperf!Next]_Iperf!vars
  PROVE  IperfInv'
<1>1. CASE UNCHANGED Iperf!vars
  BY <1>1, IperfUnchanged, IperfRestKeeps DEF Iperf!vars, Iperf!files
<1>2. QED
  BY <1>1, IperfCallsKeep, IperfServeKeeps, IperfSubprocessKeeps DEF Iperf!Next

-----------------------------------------------------------------------------
(* What is read from the pipes.                                            *)

Overlap == \E t, u \in Threads : t # u

\* n blocks are all that p has written, or nothing.
Whole(p, n) == n = Iperf!Written(p) \/ (n = 0 /\ Overlap)

\* A call has read the pipe of p, and has closed it or is about to.
IperfRead(p) ==
  /\ proc[p].buf = 0 /\ ~ Iperf!Alive(p)
  /\ proc[p].closed \/ \E t \in Threads : th[t].pc = "close" /\ th[t].mine = p

IperfPipe(p) == proc[p].buf = Iperf!Written(p) \/ IperfRead(p)

IperfGot(t) == th[t].pc \in {"close", "save"} => Whole(th[t].mine, th[t].got)

IperfResult(j) == jobs[j].result # None => Whole(jobs[j].proc, jobs[j].result)

IperfWhole ==
  /\ \A p \in Procs : IperfPipe(p)
  /\ \A t \in Threads : IperfGot(t)
  /\ \A j \in Iperf!JobIds : IperfResult(j)

PipesInv == IperfInv /\ IperfWhole

\* The pipes are left alone, and so are the results that stay.
PipesRest ==
  /\ \A p \in Procs :
       /\ proc'[p].left = proc[p].left /\ proc'[p].buf = proc[p].buf
       /\ proc'[p].closed = proc[p].closed
       /\ Iperf!Alive(p)' => Iperf!Alive(p)
  /\ \A j \in Iperf!JobIds : jobs'[j].result # None =>
       jobs'[j].result = jobs[j].result /\ jobs'[j].proc = jobs[j].proc

\* A call goes from one place to another, neither of which is about the pipe.
PipesPass(t) ==
  /\ \A u \in Threads \ {t} : th'[u] = th[u]
  /\ th[t].pc # "close" /\ th'[t].pc \notin {"close", "save"}

LEMMA PipesMean ==
  ASSUME Orderly, PipesInv
  PROVE  \A p \in Procs : IperfFits(p)
BY DEF PipesInv, IperfWhole, IperfPipe, IperfRead, Iperf!Written, IperfFits, IperfInv, IperfTypes,
   IperfProcess, Orderly, Iperf!IperfAssumption

\* Who has a job, or holds one's process, has one of the processes.
LEMMA PipesHeld ==
  ASSUME IperfInv
  PROVE  /\ \A t \in Threads : th[t].pc \in {"collect", "close", "save"} =>
               th[t].mine \in Procs /\ ~ Iperf!Alive(th[t].mine)
         /\ \A j \in Iperf!JobIds : jobs[j].result # None =>
               jobs[j].proc \in Procs /\ ~ Iperf!Alive(jobs[j].proc)
BY DEF IperfInv, IperfSound, IperfShape, IperfReads, IperfFiled, Iperf!NoJob

LEMMA PipesQuiet ==
  ASSUME PipesInv, NEW t \in Threads, PipesPass(t), PipesRest
  PROVE  IperfWhole'
<1>1. \A p \in Procs : Iperf!Written(p)' = Iperf!Written(p)
  BY DEF PipesRest, Iperf!Written
<1>2. ASSUME NEW p \in Procs PROVE IperfPipe(p)'
  <2>1. CASE proc[p].buf = Iperf!Written(p)
    BY <1>1, <2>1 DEF PipesRest, IperfPipe
  <2>2. CASE IperfRead(p)
    BY <2>2 DEF PipesRest, PipesPass, IperfRead, IperfPipe
  <2>3. QED
    BY <2>1, <2>2 DEF PipesInv, IperfWhole, IperfPipe
<1>3. ASSUME NEW u \in Threads PROVE IperfGot(u)'
  BY <1>1, PipesHeld DEF PipesInv, IperfWhole, PipesPass, IperfGot, Whole, Overlap
<1>4. ASSUME NEW j \in Iperf!JobIds PROVE IperfResult(j)'
  BY <1>1, PipesHeld DEF PipesInv, IperfWhole, PipesRest, IperfResult, Whole, Overlap
<1>5. QED
  BY <1>2, <1>3, <1>4 DEF IperfWhole, Iperf!JobIds

LEMMA PipesUnchanged == ASSUME UNCHANGED <<proc, jobs>> PROVE PipesRest
BY DEF PipesRest, Iperf!Alive

LEMMA PipesKilled ==
  ASSUME IperfInv, UNCHANGED jobs, NEW p \in Procs, proc' = [proc EXCEPT ![p] = Iperf!Killed(p)]
  PROVE  PipesRest
<1>1. proc \in [Procs -> IperfProcess] /\ proc[p] \in IperfProcess
  BY DEF IperfInv, IperfTypes
<1>2. IperfOnlyEnd
  BY IperfKillEnds
<1>3. /\ Iperf!Killed(p).left = proc[p].left /\ Iperf!Killed(p).buf = proc[p].buf
      /\ Iperf!Killed(p).closed = proc[p].closed
  BY <1>1 DEF Iperf!Killed, IperfProcess
<1>4. QED
  BY <1>1, <1>2, <1>3 DEF PipesRest, IperfOnlyEnd

LEMMA PipesGoto ==
  ASSUME IperfInv, NEW t \in Threads, NEW l,
         Iperf!Goto(t, l) \/ Iperf!Returns(t) \/ Iperf!Raises(t), th[t].pc # "close",
         l \notin {"close", "save"}
  PROVE  PipesPass(t)
<1>1. th \in [Threads -> IperfCallRec]
  BY DEF IperfInv, IperfTypes
<1>2. CASE Iperf!Goto(t, l)
  BY <1>1, <1>2 DEF PipesPass, Iperf!Goto, IperfCallRec
<1>3. CASE Iperf!Returns(t)
  BY <1>3, IperfReturnsMoves DEF PipesPass, IperfMoves
<1>4. CASE Iperf!Raises(t)
  BY <1>4, IperfRaisesMoves DEF PipesPass, IperfMoves
<1>5. QED
  BY <1>2, <1>3, <1>4

LEMMA PipesBegin ==
  ASSUME PipesInv, NEW t \in Threads, NEW c, Iperf!Begin(t, c), c.pc \notin {"close", "save"}
  PROVE  IperfWhole'
<1>1. PipesPass(t)
  BY DEF PipesInv, IperfInv, IperfTypes, Iperf!Begin, Iperf!At, PipesPass
<1>2. QED
  BY <1>1, PipesUnchanged, PipesQuiet DEF Iperf!Begin, Iperf!files

LEMMA PipesCalls ==
  ASSUME PipesInv, NEW t \in Threads, Iperf!Calls(t)
  PROVE  IperfWhole'
<1>1. ASSUME NEW q, Iperf!BeginStartServer(t, q) PROVE IperfWhole'
  BY <1>1, PipesBegin DEF Iperf!BeginStartServer, Iperf!Idle
<1>2. ASSUME NEW q, Iperf!BeginStopServer(t, q) PROVE IperfWhole'
  BY <1>2, PipesBegin DEF Iperf!BeginStopServer, Iperf!Idle
<1>3. CASE Iperf!BeginStartClient(t)
  BY <1>3, PipesBegin DEF Iperf!BeginStartClient, Iperf!Idle
<1>4. CASE Iperf!BeginStopApp(t)
  BY <1>4, PipesBegin DEF Iperf!BeginStopApp, Iperf!Idle
<1>5. ASSUME NEW j, Iperf!BeginStopClient(t, j) PROVE IperfWhole'
  BY <1>5, PipesBegin DEF Iperf!BeginStopClient, Iperf!Idle
<1>6. ASSUME NEW j, Iperf!BeginInfo(t, j) PROVE IperfWhole'
  BY <1>6, PipesBegin DEF Iperf!BeginInfo, Iperf!Idle
<1>7. QED
  BY <1>1, <1>2, <1>3, <1>4, <1>5, <1>6 DEF Iperf!Calls

\* Steps of a call that look, or change the handles and the jobs.
LEMMA PipesLooks ==
  ASSUME PipesInv, NEW t \in Threads,
         Iperf!Draw(t) \/ Iperf!Look(t) \/ Iperf!Wait(t) \/ Iperf!GiveUp(t) \/ Iperf!Find(t)
         \/ Iperf!Number(t) \/ Iperf!Poll(t) \/ Iperf!Reply(t)
  PROVE  IperfWhole'
<1>0. th \in [Threads -> IperfCallRec] /\ IperfInv
  BY DEF PipesInv, IperfInv, IperfTypes
<1>1. UNCHANGED <<proc, jobs>> /\ th[t].pc # "close"
  BY DEF Iperf!Draw, Iperf!Look, Iperf!Wait, Iperf!GiveUp, Iperf!Find, Iperf!Number, Iperf!Poll,
     Iperf!Reply, Iperf!At, Iperf!files
<1>2. CASE Iperf!Draw(t)
  <2>1. ASSUME Iperf!Raises(t) PROVE PipesPass(t)
    BY <1>0, <1>1, <2>1, PipesGoto
  <2>2. ASSUME UNCHANGED th PROVE PipesPass(t)
    BY <1>1, <1>2, <2>2 DEF PipesPass, Iperf!Draw, Iperf!At
  <2>3. ASSUME NEW q, th' = [th EXCEPT ![t].port = q, ![t].pc = "look"] PROVE PipesPass(t)
    BY <1>0, <1>1, <2>3 DEF PipesPass, IperfCallRec
  <2>4. PipesPass(t)
    BY <1>2, <2>1, <2>2, <2>3 DEF Iperf!Draw
  <2>5. QED
    BY <1>1, <2>4, PipesUnchanged, PipesQuiet
<1>3. CASE Iperf!Find(t)
  <2>1. ASSUME NEW p, NEW l \in {"poll", "kill"}, th' = [th EXCEPT ![t].mine = p, ![t].pc = l]
        PROVE  PipesPass(t)
    BY <1>0, <1>1, <2>1 DEF PipesPass, IperfCallRec
  <2>2. PipesPass(t)
    BY <1>0, <1>1, <1>3, <2>1, PipesGoto DEF Iperf!Find
  <2>3. QED
    BY <1>1, <2>2, PipesUnchanged, PipesQuiet
<1>4. CASE Iperf!Reply(t)
  <2>1. PipesPass(t)
    BY <1>0, <1>1, <1>4 DEF PipesPass, Iperf!Reply, Iperf!Idle
  <2>2. QED
    BY <1>1, <2>1, PipesUnchanged, PipesQuiet
<1>5. CASE Iperf!Poll(t)
  <2>1. PipesPass(t)
    BY <1>0, <1>1, <1>5, PipesGoto DEF Iperf!Poll
  <2>2. QED
    BY <1>1, <2>1, PipesUnchanged, PipesQuiet
<1>6. CASE Iperf!Look(t) \/ Iperf!Wait(t) \/ Iperf!GiveUp(t) \/ Iperf!Number(t)
  <2>1. PipesPass(t)
    BY <1>0, <1>1, <1>6, PipesGoto DEF Iperf!Look, Iperf!Wait, Iperf!GiveUp, Iperf!Number
  <2>2. QED
    BY <1>1, <2>1, PipesUnchanged, PipesQuiet
<1>7. QED
  BY <1>2, <1>3, <1>4, <1>5, <1>6

LEMMA PipesFiles ==
  ASSUME Orderly, PipesInv, NEW t \in Threads,
         Iperf!Pop(t) \/ Iperf!File(t) \/ Iperf!Done(t) \/ Iperf!Answer(t)
  PROVE  IperfWhole'
<1>0. /\ IperfInv /\ jobs \in [Iperf!JobIds -> IperfEntry] /\ proc \in [Procs -> IperfProcess]
      /\ IperfSound(t)
  BY DEF PipesInv, IperfInv, IperfTypes
<1>1. th[t].pc # "close"
  BY DEF Iperf!Pop, Iperf!File, Iperf!Done, Iperf!Answer, Iperf!At
<1>2. PipesPass(t)
  BY <1>0, <1>1, PipesGoto DEF Iperf!Pop, Iperf!File, Iperf!Done, Iperf!Answer
<1>3. CASE Iperf!Pop(t)
  BY <1>0, <1>2, <1>3, PipesQuiet DEF Iperf!Pop, PipesRest, Iperf!NoJob, Iperf!Alive
<1>4. CASE Iperf!File(t)
  BY <1>0, <1>2, <1>4, PipesQuiet DEF Iperf!File, PipesRest, Iperf!Job, Iperf!Alive
<1>5. CASE Iperf!Done(t)
  BY <1>0, <1>2, <1>5, PipesQuiet DEF Iperf!Done, PipesRest, IperfEntry, Iperf!Alive
<1>6. CASE Iperf!Answer(t)
  BY <1>0, <1>2, <1>6, PipesQuiet DEF Iperf!Answer, PipesRest, IperfProcess, Iperf!Alive, Iperf!files
<1>7. QED
  BY <1>3, <1>4, <1>5, <1>6

LEMMA PipesKills ==
  ASSUME PipesInv, NEW t \in Threads,
         Iperf!Kill(t) \/ Iperf!SweepServer(t) \/ Iperf!SweepJob(t)
  PROVE  IperfWhole'
<1>0. /\ IperfInv /\ th \in [Threads -> IperfCallRec] /\ th[t] \in IperfCallRec /\ IperfSound(t)
      /\ handles \in [Ports -> Procs \cup {None}] /\ UNCHANGED jobs
  BY DEF PipesInv, IperfInv, IperfTypes, Iperf!Kill, Iperf!SweepServer, Iperf!SweepJob, Iperf!files
<1>1. th[t].pc \in {"kill", "sweep"}
  BY DEF Iperf!Kill, Iperf!SweepServer, Iperf!SweepJob, Iperf!At
<1>2. PipesPass(t)
  <2>1. ASSUME NEW q, th' = [th EXCEPT ![t].ports = @ \ {q}] PROVE PipesPass(t)
    BY <1>0, <1>1, <2>1 DEF PipesPass, IperfCallRec
  <2>2. ASSUME NEW j, th' = [th EXCEPT ![t].ids = @ \ {j}] PROVE PipesPass(t)
    BY <1>0, <1>1, <2>2 DEF PipesPass, IperfCallRec
  <2>3. QED
    BY <1>0, <1>1, <2>1, <2>2, PipesGoto DEF Iperf!Kill, Iperf!SweepServer, Iperf!SweepJob
<1>3. UNCHANGED proc \/ \E p \in Procs : proc' = [proc EXCEPT ![p] = Iperf!Killed(p)]
  <2>1. CASE Iperf!Kill(t)
    BY <1>0, <2>1 DEF Iperf!Kill, Iperf!At, IperfSound, IperfShape
  <2>2. CASE Iperf!SweepServer(t)
    <3>1. PICK q \in th[t].ports : IF handles[q] = None THEN UNCHANGED proc
                                   ELSE proc' = [proc EXCEPT ![handles[q]] = Iperf!Killed(handles[q])]
      BY <2>2 DEF Iperf!SweepServer
    <3>2. handles[q] \in Procs \cup {None}
      BY <1>0 DEF IperfCallRec
    <3>3. QED
      BY <3>1, <3>2
  <2>3. CASE Iperf!SweepJob(t) /\ ~ UNCHANGED proc
    <3>1. PICK j \in th[t].ids : /\ jobs[j] # Iperf!NoJob
                                 /\ proc' = [proc EXCEPT ![jobs[j].proc] = Iperf!Killed(jobs[j].proc)]
      BY <2>3 DEF Iperf!SweepJob
    <3>2. jobs[j].proc \in Procs
      BY <1>0, <3>1 DEF IperfCallRec, IperfInv, IperfFiled
    <3>3. QED
      BY <3>1, <3>2
  <2>4. QED
    BY <2>1, <2>2, <2>3
<1>4. PipesRest
  BY <1>0, <1>3, PipesUnchanged, PipesKilled
<1>5. QED
  BY <1>2, <1>4, PipesQuiet

\* A new subprocess has written nothing, and nobody has a part in it.
LEMMA PipesSpawn ==
  ASSUME Orderly, PipesInv, NEW t \in Threads, Iperf!Spawn(t)
  PROVE  IperfWhole'
<1>0. /\ IperfInv /\ th \in [Threads -> IperfCallRec] /\ proc \in [Procs -> IperfProcess]
      /\ th[t].pc = "spawn" /\ UNCHANGED jobs /\ Output \in Nat
  BY DEF PipesInv, IperfInv, IperfTypes, Iperf!Spawn, Iperf!At, Iperf!files, Orderly,
     Iperf!IperfAssumption
<1> DEFINE s == th[t].op = "start"
           l == IF s THEN "wait" ELSE "number"
           r == IF s THEN [Iperf!Free EXCEPT !.kind = "server", !.st = "starting", !.port = th[t].port]
                ELSE [Iperf!Free EXCEPT !.kind = "client", !.st = "starting"]
<1>1. PICK p \in Iperf!FreeProcs :
        proc' = [proc EXCEPT ![p] = r] /\ th' = [th EXCEPT ![t].mine = p, ![t].old = jobid, ![t].pc = l]
  BY DEF Iperf!Spawn
<1>2. /\ p \in Procs /\ \A j \in Iperf!JobIds : jobs[j].proc # p
      /\ \A u \in Threads : th[u].mine # p
  BY DEF Iperf!FreeProcs
<1>3. r.left = Output /\ r.buf = 0
  BY DEF Iperf!Free
<1>4. l \notin {"close", "save"}
  OBVIOUS
<1> HIDE DEF r, l, s
<1>5. \A u \in Threads \ {t} : th'[u] = th[u]
  BY <1>0, <1>1
<1>6. th'[t].pc = l
  BY <1>0, <1>1 DEF IperfCallRec
<1>7. proc'[p] = r /\ \A q \in Procs \ {p} : proc'[q] = proc[q]
  BY <1>0, <1>1, <1>2
<1>8. ASSUME NEW q \in Procs PROVE IperfPipe(q)'
  <2>1. CASE q = p
    BY <1>0, <1>3, <1>7, <2>1 DEF IperfPipe, Iperf!Written
  <2>2. CASE q # p
    BY <1>0, <1>5, <1>7, <2>2 DEF PipesInv, IperfWhole, IperfPipe, IperfRead, Iperf!Written, Iperf!Alive
  <2>3. QED
    BY <2>1, <2>2
<1>9. ASSUME NEW u \in Threads PROVE IperfGot(u)'
  <2>1. CASE u = t
    BY <1>4, <1>6, <2>1 DEF IperfGot
  <2>2. CASE u # t
    BY <1>0, <1>2, <1>5, <1>7, <2>2, PipesHeld DEF PipesInv, IperfWhole, IperfGot, Whole, Overlap,
       Iperf!Written
  <2>3. QED
    BY <2>1, <2>2
<1>10. ASSUME NEW j \in Iperf!JobIds PROVE IperfResult(j)'
  BY <1>0, <1>2, <1>7, PipesHeld DEF PipesInv, IperfWhole, IperfResult, Whole, Overlap, Iperf!Written
<1>11. QED
  BY <1>8, <1>9, <1>10 DEF IperfWhole, Iperf!JobIds

\* What is read is all, unless another call has read it and not yet closed the pipe.
LEMMA PipesCollect ==
  ASSUME Orderly, PipesInv, NEW t \in Threads, Iperf!Collect(t)
  PROVE  IperfWhole'
<1> DEFINE p == th[t].mine
<1>0. /\ IperfInv /\ th \in [Threads -> IperfCallRec] /\ proc \in [Procs -> IperfProcess]
      /\ th[t].pc = "collect" /\ UNCHANGED jobs /\ p \in Procs /\ ~ Iperf!Alive(p)
      /\ proc[p] \in IperfProcess
  <2>1. IperfInv /\ th[t].pc = "collect" /\ UNCHANGED jobs
    BY DEF PipesInv, Iperf!Collect, Iperf!At, Iperf!files
  <2>2. th \in [Threads -> IperfCallRec] /\ proc \in [Procs -> IperfProcess]
    BY <2>1 DEF IperfInv, IperfTypes
  <2>3. QED
    BY <2>1, <2>2, PipesHeld
<1>1. CASE proc[p].closed
  <2>1. Iperf!Raises(t) /\ UNCHANGED proc
    BY <1>1 DEF Iperf!Collect
  <2>2. PipesPass(t) /\ PipesRest
    BY <1>0, <2>1, PipesGoto, PipesUnchanged
  <2>3. QED
    BY <2>2, PipesQuiet
<1>2. CASE ~ proc[p].closed
  <2>1. /\ th' = [th EXCEPT ![t].got = proc[p].buf, ![t].pc = "close"]
        /\ proc' = [proc EXCEPT ![p].buf = 0]
    BY <1>2 DEF Iperf!Collect
  <2>2. /\ \A u \in Threads \ {t} : th'[u] = th[u]
        /\ th'[t].pc = "close" /\ th'[t].got = proc[p].buf /\ th'[t].mine = p
    <3>1. proc[p].buf \in 0..Output
      BY <1>0, PipesMean DEF IperfFits
    <3> HIDE DEF p
    <3>2. QED
      BY <1>0, <2>1, <3>1, IperfCollectMoves DEF IperfMoves, p
  <2>3. /\ proc'[p].buf = 0 /\ proc'[p].left = proc[p].left /\ proc'[p].st = proc[p].st
        /\ \A q \in Procs \ {p} : proc'[q] = proc[q]
    BY <1>0, <2>1 DEF IperfProcess
  <2> HIDE DEF p
  <2>4. \A q \in Procs : Iperf!Written(q)' = Iperf!Written(q)
    BY <2>3 DEF Iperf!Written
  <2>5. Whole(p, proc[p].buf)
    <3>1. CASE proc[p].buf = Iperf!Written(p)
      BY <3>1 DEF Whole
    <3>2. CASE IperfRead(p)
      BY <1>0, <1>2, <3>2 DEF IperfRead, Whole, Overlap
    <3>3. QED
      BY <1>0, <3>1, <3>2 DEF PipesInv, IperfWhole, IperfPipe
  <2>6. ASSUME NEW q \in Procs PROVE IperfPipe(q)'
    <3>1. CASE q = p
      BY <1>0, <2>2, <2>3, <3>1 DEF IperfPipe, IperfRead, Iperf!Alive
    <3>2. CASE q # p
      BY <1>0, <2>2, <2>3, <2>4, <3>2 DEF PipesInv, IperfWhole, IperfPipe, IperfRead, Iperf!Alive
    <3>3. QED
      BY <3>1, <3>2
  <2>7. ASSUME NEW u \in Threads PROVE IperfGot(u)'
    <3>1. CASE u = t
      BY <1>0, <2>2, <2>4, <2>5, <3>1 DEF IperfGot, Whole, Overlap
    <3>2. CASE u # t
      BY <1>0, <2>2, <2>4, <3>2, PipesHeld DEF PipesInv, IperfWhole, IperfGot, Whole, Overlap
    <3>3. QED
      BY <3>1, <3>2
  <2>8. ASSUME NEW j \in Iperf!JobIds PROVE IperfResult(j)'
    BY <1>0, <2>4, PipesHeld DEF PipesInv, IperfWhole, IperfResult, Whole, Overlap
  <2>9. QED
    BY <2>6, <2>7, <2>8 DEF IperfWhole, Iperf!JobIds
<1>3. QED
  BY <1>1, <1>2

LEMMA PipesClose ==
  ASSUME PipesInv, NEW t \in Threads, Iperf!Close(t)
  PROVE  IperfWhole'
<1> DEFINE p == th[t].mine
<1>0. /\ IperfInv /\ th[t].pc = "close" /\ UNCHANGED jobs /\ Iperf!Goto(t, "save")
      /\ proc' = [proc EXCEPT ![p].closed = TRUE]
  BY DEF PipesInv, Iperf!Close, Iperf!At, Iperf!files
<1>1. p \in Procs /\ ~ Iperf!Alive(p) /\ th \in [Threads -> IperfCallRec]
      /\ proc \in [Procs -> IperfProcess] /\ proc[p] \in IperfProcess
  BY <1>0, PipesHeld DEF IperfInv, IperfTypes
<1>2. /\ \A u \in Threads \ {t} : th'[u] = th[u]
      /\ th'[t].pc = "save" /\ th'[t].got = th[t].got /\ th'[t].mine = p
  BY <1>0, <1>1 DEF Iperf!Goto, IperfCallRec
<1>3. /\ proc'[p].buf = proc[p].buf /\ proc'[p].left = proc[p].left /\ proc'[p].st = proc[p].st
      /\ proc'[p].closed /\ \A q \in Procs \ {p} : proc'[q] = proc[q]
  BY <1>0, <1>1 DEF IperfProcess
<1> HIDE DEF p
<1>4. \A q \in Procs : Iperf!Written(q)' = Iperf!Written(q)
  BY <1>3 DEF Iperf!Written
<1>5. ASSUME NEW q \in Procs PROVE IperfPipe(q)'
  <2>1. CASE q = p
    BY <1>1, <1>3, <1>4, <2>1 DEF PipesInv, IperfWhole, IperfPipe, IperfRead, Iperf!Alive
  <2>2. CASE q # p
    <3>1. \A u \in Threads : th[u].pc = "close" /\ th[u].mine = q => th'[u] = th[u]
      BY <1>2, <2>2 DEF p
    <3>2. QED
      BY <1>3, <1>4, <2>2, <3>1 DEF PipesInv, IperfWhole, IperfPipe, IperfRead, Iperf!Alive
  <2>3. QED
    BY <2>1, <2>2
<1>6. ASSUME NEW u \in Threads PROVE IperfGot(u)'
  <2>1. th'[u].mine = th[u].mine /\ th'[u].got = th[u].got
    BY <1>2 DEF p
  <2>2. th'[u].pc \in {"close", "save"} => th[u].pc \in {"close", "save"}
    BY <1>0, <1>2
  <2>3. QED
    BY <1>0, <1>4, <2>1, <2>2, PipesHeld DEF PipesInv, IperfWhole, IperfGot, Whole, Overlap
<1>7. ASSUME NEW j \in Iperf!JobIds PROVE IperfResult(j)'
  BY <1>0, <1>4, PipesHeld DEF PipesInv, IperfWhole, IperfResult, Whole, Overlap
<1>8. QED
  BY <1>5, <1>6, <1>7 DEF IperfWhole, Iperf!JobIds

LEMMA PipesSave ==
  ASSUME PipesInv, NEW t \in Threads, Iperf!Save(t)
  PROVE  IperfWhole'
<1> DEFINE i == th[t].job
<1>0. /\ IperfInv /\ th[t].pc = "save" /\ UNCHANGED proc /\ IperfSound(t)
      /\ jobs \in [Iperf!JobIds -> IperfEntry]
  BY DEF PipesInv, Iperf!Save, Iperf!At, IperfInv, IperfTypes
<1>1. CASE Iperf!Popped(t)
  <2>1. PipesPass(t) /\ PipesRest
    BY <1>0, <1>1, PipesGoto, PipesUnchanged DEF Iperf!Save
  <2>2. QED
    BY <2>1, PipesQuiet
<1>2. CASE ~ Iperf!Popped(t)
  <2>1. /\ PipesPass(t) /\ jobs' = [jobs EXCEPT ![i].result = th[t].got]
    BY <1>0, <1>2, PipesGoto DEF Iperf!Save
  <2>2. i \in Iperf!JobIds /\ jobs[i].proc = th[t].mine
    BY <1>0, <1>2 DEF IperfSound, IperfShape, IperfReads, IperfHolds, Iperf!Popped
  <2>3. /\ jobs'[i].proc = th[t].mine /\ jobs'[i].result = th[t].got
        /\ \A j \in Iperf!JobIds \ {i} : jobs'[j] = jobs[j]
    BY <1>0, <2>1, <2>2 DEF IperfEntry
  <2> HIDE DEF i
  <2>4. Whole(th[t].mine, th[t].got)
    BY <1>0 DEF PipesInv, IperfWhole, IperfGot
  <2>5. \A q : Iperf!Written(q)' = Iperf!Written(q)
    BY <1>0 DEF Iperf!Written
  <2>6. ASSUME NEW q \in Procs PROVE IperfPipe(q)'
    BY <1>0, <2>1, <2>5 DEF PipesInv, IperfWhole, IperfPipe, IperfRead, Iperf!Alive, PipesPass
  <2>7. ASSUME NEW u \in Threads PROVE IperfGot(u)'
    BY <1>0, <2>1, <2>5 DEF PipesInv, IperfWhole, IperfGot, Whole, Overlap, PipesPass
  <2>8. ASSUME NEW j \in Iperf!JobIds PROVE IperfResult(j)'
    <3>1. CASE j = i
      BY <2>3, <2>4, <2>5, <3>1 DEF IperfResult, Whole, Overlap
    <3>2. CASE j # i
      BY <2>3, <2>5, <3>2 DEF PipesInv, IperfWhole, IperfResult, Whole, Overlap
    <3>3. QED
      BY <3>1, <3>2
  <2>9. QED
    BY <2>6, <2>7, <2>8 DEF IperfWhole, Iperf!JobIds
<1>3. QED
  BY <1>1, <1>2

\* A process writes while it runs, and nobody has read its pipe yet.
LEMMA PipesSubprocess ==
  ASSUME Orderly, PipesInv, NEW p \in Procs, Iperf!Live(p) \/ Iperf!Fails(p)
  PROVE  IperfWhole'
<1>0. /\ IperfInv /\ UNCHANGED <<jobs, th>> /\ proc \in [Procs -> IperfProcess]
      /\ proc[p] \in IperfProcess /\ Output \in Nat
  BY DEF PipesInv, IperfInv, IperfTypes, Iperf!Live, Iperf!Fails, Iperf!Up, Iperf!Write,
     Iperf!Exit, Iperf!Becomes, Iperf!files, Orderly, Iperf!IperfAssumption
<1>1. CASE Iperf!Write(p)
  <2>1. /\ proc'[p].left = proc[p].left - 1 /\ proc'[p].buf = proc[p].buf + 1
        /\ Iperf!Alive(p) /\ \A q \in Procs \ {p} : proc'[q] = proc[q]
    BY <1>0, <1>1 DEF Iperf!Write, IperfProcess, Iperf!Alive
  <2>2. ASSUME NEW q \in Procs PROVE IperfPipe(q)'
    <3>1. CASE q = p
      <4>1. proc[p].buf = Iperf!Written(p)
        BY <2>1 DEF PipesInv, IperfWhole, IperfPipe, IperfRead
      <4>2. QED
        BY <1>0, <2>1, <3>1, <4>1 DEF IperfPipe, Iperf!Written, IperfProcess
    <3>2. CASE q # p
      BY <1>0, <2>1, <3>2 DEF PipesInv, IperfWhole, IperfPipe, IperfRead, Iperf!Written, Iperf!Alive
    <3>3. QED
      BY <3>1, <3>2
  <2>3. ASSUME NEW u \in Threads PROVE IperfGot(u)'
    BY <1>0, <2>1, PipesHeld DEF PipesInv, IperfWhole, IperfGot, Whole, Overlap, Iperf!Written
  <2>4. ASSUME NEW j \in Iperf!JobIds PROVE IperfResult(j)'
    BY <1>0, <2>1, PipesHeld DEF PipesInv, IperfWhole, IperfResult, Whole, Overlap, Iperf!Written
  <2>5. QED
    BY <2>2, <2>3, <2>4 DEF IperfWhole, Iperf!JobIds
<1>2. CASE Iperf!Up(p) \/ Iperf!Exit(p) \/ Iperf!Fails(p)
  <2>1. PICK s : Iperf!Becomes(p, s)
    BY <1>2 DEF Iperf!Up, Iperf!Exit, Iperf!Fails
  <2>2. Iperf!Alive(p)
    BY <1>2 DEF Iperf!Up, Iperf!Exit, Iperf!Fails, Iperf!Running, Iperf!Alive
  <2>3. /\ proc'[p].left = proc[p].left /\ proc'[p].buf = proc[p].buf
        /\ proc'[p].closed = proc[p].closed /\ \A q \in Procs \ {p} : proc'[q] = proc[q]
    BY <1>0, <2>1 DEF Iperf!Becomes, IperfProcess
  <2>4. \A q \in Procs : Iperf!Written(q)' = Iperf!Written(q)
    BY <2>3 DEF Iperf!Written
  <2>5. ASSUME NEW q \in Procs PROVE IperfPipe(q)'
    <3>1. CASE q = p
      BY <2>2, <2>3, <2>4, <3>1 DEF PipesInv, IperfWhole, IperfPipe, IperfRead
    <3>2. CASE q # p
      BY <1>0, <2>3, <2>4, <3>2 DEF PipesInv, IperfWhole, IperfPipe, IperfRead, Iperf!Alive
    <3>3. QED
      BY <3>1, <3>2
  <2>6. ASSUME NEW u \in Threads PROVE IperfGot(u)'
    BY <1>0, <2>4, PipesHeld DEF PipesInv, IperfWhole, IperfGot, Whole, Overlap
  <2>7. ASSUME NEW j \in Iperf!JobIds PROVE IperfResult(j)'
    BY <1>0, <2>4, PipesHeld DEF PipesInv, IperfWhole, IperfResult, Whole, Overlap
  <2>8. QED
    BY <2>5, <2>6, <2>7 DEF IperfWhole, Iperf!JobIds
<1>3. QED
  BY <1>1, <1>2 DEF Iperf!Live

LEMMA PipesNext ==
  ASSUME Orderly, PipesInv, [Iperf!Next]_Iperf!vars
  PROVE  PipesInv'
<1>1. IperfInv'
  BY PipesMean, IperfNextKeeps DEF PipesInv
<1>2. CASE UNCHANGED Iperf!vars
  <2>1. UNCHANGED <<jobs, proc, th>>
    BY <1>2 DEF Iperf!vars, Iperf!files
  <2>2. IperfWhole'
    BY <2>1 DEF PipesInv, IperfWhole, IperfPipe, IperfRead, IperfGot, IperfResult, Whole, Overlap,
       Iperf!Written, Iperf!Alive, Iperf!JobIds
  <2>3. QED
    BY <1>1, <2>2 DEF PipesInv
<1>3. ASSUME NEW t \in Threads, Iperf!Serve(t) PROVE IperfWhole'
  BY <1>3, PipesLooks, PipesFiles, PipesKills, PipesSpawn, PipesCollect, PipesClose, PipesSave
     DEF Iperf!Serve
<1>4. QED
  BY <1>1, <1>2, <1>3, PipesCalls, PipesSubprocess DEF Iperf!Next, PipesInv

LEMMA PipesInit == Orderly /\ Iperf!Init => PipesInv
<1> SUFFICES ASSUME Orderly, Iperf!Init PROVE PipesInv
  OBVIOUS
<1>1. \A p \in Procs : IperfPipe(p)
  BY DEF Iperf!Init, Iperf!Free, IperfPipe, Iperf!Written, Orderly, Iperf!IperfAssumption
<1>2. (\A t \in Threads : IperfGot(t)) /\ \A j \in Iperf!JobIds : IperfResult(j)
  BY DEF Iperf!Init, Iperf!Idle, Iperf!NoJob, IperfGot, IperfResult
<1>3. QED
  BY <1>1, <1>2, IperfInitKeeps DEF PipesInv, IperfWhole

-----------------------------------------------------------------------------
LEMMA IperfInvMeans == ASSUME PipesInv, Orderly PROVE Iperf!StopStopsClient /\ Iperf!DoneHasResult
<1>0. IperfInv
  BY DEF PipesInv
<1>1. Iperf!DoneHasResult
  <2> SUFFICES ASSUME NEW j \in Iperf!JobIds, jobs[j].state = "done"
               PROVE  /\ ~ Iperf!Alive(jobs[j].proc)
                      /\ \/ jobs[j].result = Iperf!Written(jobs[j].proc)
                         \/ jobs[j].result = 0 /\ \E t, u \in Threads : t # u
    BY DEF Iperf!DoneHasResult
  <2>1. jobs[j].result # None /\ ~ Iperf!Alive(jobs[j].proc)
    BY <1>0 DEF IperfInv, IperfFiled, Iperf!NoJob
  <2>2. QED
    BY <2>1 DEF PipesInv, IperfWhole, IperfResult, Whole, Overlap
<1>2. Iperf!StopStopsClient
  <2> SUFFICES ASSUME NEW t \in Threads, NEW p \in Procs,
                      Iperf!At(t, "reply"), th[t].op = "stopclient", th[t].ret = "ok",
                      proc[p].job = th[t].job, Iperf!Running(p)
               PROVE  FALSE
    BY DEF Iperf!StopStopsClient
  <2>1. th[t].job \in Iperf!JobIds /\ jobs[th[t].job] = Iperf!NoJob
    BY <1>0 DEF IperfInv, IperfSound, IperfShape, IperfStops, Iperf!At
  <2>2. jobs[proc[p].job].proc = p
    BY <1>0, <2>1 DEF IperfInv, IperfAnswered, Iperf!JobIds
  <2>3. QED
    BY <2>1, <2>2 DEF Iperf!NoJob, Orderly, Iperf!IperfAssumption
<1>3. QED
  BY <1>1, <1>2

(* When stop_iperf_client has returned, no client that was started under   *)
(* that job id is left running. A job that is reported done has ended and  *)
(* has all that its process wrote, when calls come one at a time; when     *)
(* they overlap, as get_client_job_info may, it has that or nothing. Calls *)
(* that start clients do not overlap, for they may get the same id.        *)
THEOREM JobsAreKept == Orderly => (Iperf!Spec => [](Iperf!StopStopsClient /\ Iperf!DoneHasResult))
<1> SUFFICES ASSUME Orderly PROVE Iperf!Spec => [](Iperf!StopStopsClient /\ Iperf!DoneHasResult)
  OBVIOUS
<1>1. Iperf!Init => PipesInv
  BY PipesInit
<1>2. PipesInv /\ [Iperf!Next]_Iperf!vars => PipesInv'
  BY PipesNext
<1>3. PipesInv => Iperf!StopStopsClient /\ Iperf!DoneHasResult
  BY IperfInvMeans
<1>4. QED
  BY <1>1, <1>2, <1>3, PTL DEF Iperf!Spec
=============================================================================
