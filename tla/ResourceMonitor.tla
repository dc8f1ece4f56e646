---------------------------- MODULE ResourceMonitor ----------------------------
(***************************************************************************)
(* ResourceMonitor: a thread that puts a resource record on the record     *)
(* queue in every interval, started and stopped by the controller and by   *)
(* RPCs. The event _switch tells the thread to go on; _thread is the       *)
(* thread the monitor knows. Nothing locks the two.                        *)
(***************************************************************************)
EXTENDS Naturals, FiniteSets

CONSTANTS
  Callers,  \* threads that call start and stop
  Monitors, \* bound: monitoring threads that exist at a time
  None,     \* no thread
  MayDie,   \* can a sample raise (psutil is denied access, say)?
  OneCall   \* do callers wait for one another?

MonitorAssumption ==
  None \notin Monitors /\ MayDie \in BOOLEAN /\ OneCall \in BOOLEAN

VARIABLES
  switch,   \* _switch.is_set()
  thread,   \* _thread
  monitor,  \* monitor[m]: "off", "new", or the next thing the thread does
  caller    \* caller[c]: what c does next, and the thread it has made or joins

vars == <<switch, thread, monitor, caller>>

Idle == [pc |-> "idle", mine |-> None]

Init ==
  /\ switch = FALSE
  /\ thread = None
  /\ monitor = [m \in Monitors |-> "off"]
  /\ caller = [c \in Callers |-> Idle]

Alive(m) == monitor[m] \notin {"off", "new"}

At(c, l) == caller[c].pc = l

\* A call can begin.
Ready(c) == At(c, "idle") /\ (OneCall => \A d \in Callers : At(d, "idle"))

Goto(c, l) == caller' = [caller EXCEPT ![c].pc = l]

-----------------------------------------------------------------------------
(* start                                                                   *)

StartSet(c) ==
  /\ Ready(c)
  /\ switch' = TRUE
  /\ Goto(c, "look")
  /\ UNCHANGED <<thread, monitor>>

\* A thread that is known is left alone, alive or not.
StartLook(c) ==
  /\ At(c, "look")
  /\ caller' = [caller EXCEPT ![c] = IF thread = None THEN [@ EXCEPT !.pc = "make"] ELSE Idle]
  /\ UNCHANGED <<switch, thread, monitor>>

\* Threads nobody refers to can be used again.
Free == {m \in Monitors : ~ Alive(m) /\ thread # m /\ \A c \in Callers : caller[c].mine # m}

StartMake(c) ==
  /\ At(c, "make")
  /\ \E m \in Free :
       /\ thread' = m
       /\ monitor' = [monitor EXCEPT ![m] = "new"]
       /\ Goto(c, "run")
  /\ UNCHANGED switch

\* self._thread.start(): whatever thread that is by now. For None, and for a
\* thread that was started before, it raises.
StartRun(c) ==
  /\ At(c, "run")
  /\ monitor' = IF thread # None /\ monitor[thread] = "new" THEN [monitor EXCEPT ![thread] = "check"]
                ELSE monitor
  /\ caller' = [caller EXCEPT ![c] = Idle]
  /\ UNCHANGED <<switch, thread>>

-----------------------------------------------------------------------------
(* stop                                                                    *)

\* Mutant: stop joins the thread without telling it to end.
StopUntold(c) ==
  /\ Ready(c)
  /\ Goto(c, "running")
  /\ UNCHANGED <<switch, thread, monitor>>

StopClear(c) ==
  /\ Ready(c)
  /\ switch' = FALSE
  /\ Goto(c, "running")
  /\ UNCHANGED <<thread, monitor>>

\* is_running(): only then is there anything to join.
StopLook(c) ==
  /\ At(c, "running")
  /\ caller' = [caller EXCEPT ![c] = IF thread # None /\ Alive(thread)
                                     THEN [@ EXCEPT !.pc = "grab"] ELSE Idle]
  /\ UNCHANGED <<switch, thread, monitor>>

\* self._thread is read again; join raises for None and for a new thread.
StopGrab(c) ==
  /\ At(c, "grab")
  /\ caller' = [caller EXCEPT ![c] = IF thread # None /\ monitor[thread] # "new"
                                     THEN [pc |-> "join", mine |-> thread] ELSE Idle]
  /\ UNCHANGED <<switch, thread, monitor>>

StopJoin(c) ==
  /\ At(c, "join") /\ ~ Alive(caller[c].mine)
  /\ thread' = None
  /\ caller' = [caller EXCEPT ![c] = Idle]
  /\ UNCHANGED <<switch, monitor>>

-----------------------------------------------------------------------------
(* The monitoring thread: _run.                                            *)

\* Mutant: only the thread the monitor knows looks at the switch.
CheckKnown(m) ==
  /\ monitor[m] = "check"
  /\ monitor' = [monitor EXCEPT ![m] = IF switch \/ thread # m THEN "sample" ELSE "off"]
  /\ UNCHANGED <<switch, thread, caller>>

CheckSwitch(m) ==
  /\ monitor[m] = "check"
  /\ monitor' = [monitor EXCEPT ![m] = IF switch THEN "sample" ELSE "off"]
  /\ UNCHANGED <<switch, thread, caller>>

\* A record is put on the queue, or dropped when the queue is full.
Sample(m) ==
  /\ monitor[m] = "sample"
  /\ monitor' = [monitor EXCEPT ![m] = "sleep"]
  /\ UNCHANGED <<switch, thread, caller>>

\* Nothing but a full queue is caught: any other exception ends the thread.
SampleRaises(m) ==
  /\ MayDie /\ monitor[m] = "sample"
  /\ monitor' = [monitor EXCEPT ![m] = "off"]
  /\ UNCHANGED <<switch, thread, caller>>

Wake(m) ==
  /\ monitor[m] = "sleep"
  /\ monitor' = [monitor EXCEPT ![m] = "check"]
  /\ UNCHANGED <<switch, thread, caller>>

-----------------------------------------------------------------------------
CallerStep(c) ==
  StartLook(c) \/ StartMake(c) \/ StartRun(c) \/ StopLook(c) \/ StopGrab(c) \/ StopJoin(c)

MonitorStep(m) == CheckSwitch(m) \/ Sample(m) \/ Wake(m)

Next ==
  \/ \E c \in Callers : StartSet(c) \/ StopClear(c) \/ CallerStep(c)
  \/ \E m \in Monitors : MonitorStep(m) \/ SampleRaises(m)

Spec == Init /\ [][Next]_vars

\* Calls in progress and monitoring threads run on; nobody has to call.
Fairness ==
  /\ \A c \in Callers : WF_vars(CallerStep(c))
  /\ \A m \in Monitors : WF_vars(MonitorStep(m))

FairSpec == Spec /\ Fairness

-----------------------------------------------------------------------------
TypeOK ==
  /\ switch \in BOOLEAN
  /\ thread \in Monitors \cup {None}
  /\ monitor \in [Monitors -> {"off", "new", "check", "sample", "sleep"}]
  /\ caller \in [Callers -> [pc : {"idle", "look", "make", "run", "running", "grab", "join"},
                             mine : Monitors \cup {None}]]

(* stop returns.                                                           *)
StopReturns == \A c \in Callers : At(c, "running") ~> At(c, "idle")

(* A thread that start lost track of ends too once the monitor is told to  *)
(* stop, unless somebody starts it again.                                  *)
SwitchOffEnds == \A m \in Monitors : (Alive(m) /\ ~ switch) ~> (switch \/ ~ Alive(m))

(* start starts the monitoring: resources are sampled, unless somebody     *)
(* calls stop.                                                             *)
StartMonitors ==
  \A c \in Callers :
    At(c, "look") ~> (~ switch \/ \E m \in Monitors : monitor[m] = "sample")
=============================================================================
