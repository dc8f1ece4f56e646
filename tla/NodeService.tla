------------------------------ MODULE NodeService ------------------------------
(***************************************************************************)
(* The life of an Axon node and of the calls made to it: AxonController,   *)
(* which starts the parts of a node before it serves and stops them before *)
(* it closes, AxonClient, which retries to connect, and the pool of        *)
(* threads that serves the calls.                                          *)
(*                                                                         *)
(* start() runs on the main thread and stop() on one of the Windows        *)
(* service manager, at any moment after the service has begun. Neither     *)
(* keeps the pool from serving calls that start and stop the same parts.   *)
(* A process ends when all its children and threads have ended.            *)
(***************************************************************************)
EXTENDS Naturals, FiniteSets

CONSTANTS
  Conns,   \* connections of clients, for one call at a time
  Tries,   \* retry_count of _connect
  Pool,    \* threads that serve calls
  Calls,   \* Calls[c]: what c may be used for: pairs of "start" or "stop" and a part
  Events   \* what may go wrong

Parts == {"servers", "clients", "monitor"}

ServiceAssumption ==
  /\ Tries \in Nat \ {0} /\ Pool \in Nat \ {0}
  /\ Calls \in [Conns -> SUBSET ({"start", "stop"} \X Parts)]
  /\ Events \subseteq {"fail", "network", "slow", "kill"}

VARIABLES
  main,    \* what the main thread does: "down", "exited", a part it starts, ...
  stopper, \* what the thread in stop() does: "none", a part it stops, ...
  closed,  \* close() has been called
  runs,    \* the parts that run
  spared,  \* parts that stop() is not to blame for: failed, skipped, or started since
  conn     \* conn[c]: a connection, and what the node does with its call

vars == <<main, stopper, closed, runs, spared, conn>>

node == <<main, stopper, closed, runs, spared>>

\* st: what the client does; fails: failure_count; call: what it calls;
\* job: where the call is on the node.
Idle == [st |-> "idle", fails |-> 0, call |-> <<>>, job |-> "none"]

Connecting(c) == conn[c].st \in {"connecting", "sleeping"}

Listening == main = "serving" /\ ~ closed

\* The client has its answer or an exception; the node may still be at the call.
Over(s) == IF s.job = "none" THEN Idle ELSE [s EXCEPT !.st = "idle", !.fails = 0]

Failed == "fail" \in Events

-----------------------------------------------------------------------------
Init ==
  /\ main = "down" /\ stopper = "none" /\ closed = FALSE
  /\ runs = {} /\ spared = {}
  /\ conn = [c \in Conns |-> Idle]

\* The service is started: AxonController() binds the port and does not listen yet.
Boot ==
  /\ main \in {"down", "exited"}
  /\ main' = "servers" /\ stopper' = "none" /\ closed' = FALSE /\ spared' = {}
  /\ UNCHANGED <<runs, conn>>

\* A part that has nothing to do stays away; one that raises may have begun.
Begin(p) ==
  /\ runs' \in {runs, runs \cup {p}}
  /\ spared' = IF stopper = "none" THEN spared ELSE spared \cup {p}

\* Servers and clients share a try, the monitor has its own.
NextStart(p, raised) ==
  CASE p = "servers" -> IF raised THEN "monitor" ELSE "clients"
    [] p = "clients" -> "monitor"
    [] p = "monitor" -> "listen"

Start(p) ==
  /\ main = p
  /\ Begin(p)
  /\ \E raised \in {FALSE, Failed} : main' = NextStart(p, raised)
  /\ UNCHANGED <<stopper, closed, conn>>

\* axon_service.start(): listens, which fails on a socket that was closed.
Listen ==
  /\ main = "listen"
  /\ main' = IF closed THEN "ended" ELSE "serving"
  /\ UNCHANGED <<stopper, closed, runs, spared, conn>>

\* The loop of axon_service.start() ends.
Return ==
  /\ main = "serving" /\ closed
  /\ main' = "ended"
  /\ UNCHANGED <<stopper, closed, runs, spared, conn>>

\* Python waits for its threads and child processes before it exits.
Exit ==
  /\ main = "ended" /\ stopper = "done" /\ runs = {}
  /\ main' = "exited"
  /\ UNCHANGED <<stopper, closed, runs, spared, conn>>

-----------------------------------------------------------------------------
(* SvcStop of the Windows service, and stop() of the controller.           *)

SvcStop ==
  /\ main \notin {"down", "exited"} /\ stopper = "none"
  /\ stopper' = "clients"
  /\ UNCHANGED <<main, closed, runs, spared, conn>>

\* Mutant: all three parts share a try.
NextStopOneTry(p, raised) ==
  CASE raised \/ p = "monitor" -> "close"
    [] p = "clients" /\ ~ raised -> "servers"
    [] p = "servers" /\ ~ raised -> "monitor"

\* Clients and servers share a try, the monitor has its own.
NextStop(p, raised) ==
  CASE p = "clients" -> IF raised THEN "monitor" ELSE "servers"
    [] p = "servers" -> "monitor"
    [] p = "monitor" -> "close"

Stop(p) ==
  /\ stopper = p
  /\ \/ /\ runs' = runs \ {p} /\ spared' = spared \ {p}
        /\ stopper' = NextStop(p, FALSE)
     \/ /\ Failed
        /\ runs' \in {runs, runs \ {p}}
        /\ spared' = spared \cup {p} \cup (IF p = "clients" THEN {"servers"} ELSE {})
        /\ stopper' = NextStop(p, TRUE)
  /\ UNCHANGED <<main, closed, conn>>

\* Connections end, with them the calls that no thread serves yet.
Cut(s) ==
  LET left == IF s.job = "queued" THEN [s EXCEPT !.job = "none"] ELSE s
  IN IF s.st = "waiting" THEN Over(left) ELSE left

Close ==
  /\ stopper = "close"
  /\ closed' = TRUE /\ stopper' = "join"
  /\ conn' = [c \in Conns |-> Cut(conn[c])]
  /\ UNCHANGED <<main, runs, spared>>

\* close() joins the threads of the pool.
Join ==
  /\ stopper = "join" /\ \A c \in Conns : conn[c].job = "none"
  /\ stopper' = "done"
  /\ UNCHANGED <<main, closed, runs, spared, conn>>

\* The process is killed, with its children (systemctl stop has no handler to run).
Kill ==
  /\ "kill" \in Events /\ main \notin {"down", "exited"}
  /\ main' = "down" /\ stopper' = "none" /\ closed' = FALSE
  /\ runs' = {} /\ spared' = {}
  /\ conn' = [c \in Conns |-> IF Connecting(c) THEN conn[c] ELSE Idle]

-----------------------------------------------------------------------------
(* Calls: connect, wait for the answer or for request_timeout.             *)

Call(c, call) ==
  /\ conn[c] = Idle
  /\ conn' = [conn EXCEPT ![c] = [st |-> "connecting", fails |-> 0, call |-> call, job |-> "none"]]
  /\ UNCHANGED node

Connect(c) ==
  /\ conn[c].st = "connecting" /\ Listening
  /\ conn' = [conn EXCEPT ![c].st = "waiting", ![c].fails = 0, ![c].job = "queued"]
  /\ UNCHANGED node

\* Mutant: only refusals are counted.
FailsRefused(c) == IF Listening THEN conn[c].fails ELSE conn[c].fails + 1

Fails(c) == conn[c].fails + 1

\* Refused, reset or timed out: sleeps, and tries again so many times.
Retry(c) ==
  /\ conn[c].st = "connecting" /\ (~ Listening \/ "network" \in Events)
  /\ conn' = [conn EXCEPT ![c].st = "sleeping", ![c].fails = Fails(c)]
  /\ UNCHANGED node

Wake(c) ==
  /\ conn[c].st = "sleeping"
  /\ conn' = [conn EXCEPT ![c] = IF @.fails < Tries THEN [@ EXCEPT !.st = "connecting"] ELSE Idle]
  /\ UNCHANGED node

\* Any other error is the caller's at once.
Raise(c) ==
  /\ conn[c].st = "connecting" /\ "network" \in Events
  /\ conn' = [conn EXCEPT ![c] = Idle]
  /\ UNCHANGED node

\* request_timeout: the node knows nothing of it and goes on.
TimeOut(c) ==
  /\ conn[c].st = "waiting" /\ "slow" \in Events
  /\ conn' = [conn EXCEPT ![c] = Over(@)]
  /\ UNCHANGED node

Serve(c) ==
  /\ conn[c].job = "queued" /\ Cardinality({d \in Conns : conn[d].job = "served"}) < Pool
  /\ conn' = [conn EXCEPT ![c].job = "served"]
  /\ UNCHANGED node

Served(c) ==
  LET p == conn[c].call[2]
  IN /\ conn[c].job = "served"
     /\ IF conn[c].call[1] = "start"
        THEN Begin(p)
        ELSE runs' \in {runs \ {p}} \cup {r \in {runs} : Failed} /\ UNCHANGED spared
     /\ conn' = [conn EXCEPT ![c] = Idle]
     /\ UNCHANGED <<main, stopper, closed>>

Main == (\E p \in Parts : Start(p)) \/ Listen \/ Return \/ Exit
Stopping == (\E p \in Parts : Stop(p)) \/ Close \/ Join
Client(c) == Connect(c) \/ Retry(c) \/ Wake(c) \/ Raise(c) \/ TimeOut(c)
Thread(c) == Serve(c) \/ Served(c)

Next ==
  \/ Boot \/ SvcStop \/ Kill \/ Main \/ Stopping
  \/ \E c \in Conns : Client(c) \/ Thread(c) \/ \E call \in Calls[c] : Call(c, call)

Spec == Init /\ [][Next]_vars

\* Threads go on, clients have a time limit, and nobody has to boot, call or stop.
Fairness ==
  /\ WF_vars(Main) /\ WF_vars(Stopping)
  /\ \A c \in Conns : WF_vars(Client(c)) /\ WF_vars(Thread(c))

FairSpec == Spec /\ Fairness

-----------------------------------------------------------------------------
TypeOK ==
  /\ main \in Parts \cup {"down", "listen", "serving", "ended", "exited"}
  /\ stopper \in Parts \cup {"none", "close", "join", "done"}
  /\ closed \in BOOLEAN /\ runs \subseteq Parts /\ spared \subseteq Parts
  /\ conn \in [Conns -> [st : {"idle", "connecting", "sleeping", "waiting"}, fails : 0 .. Tries,
                         call : UNION {Calls[c] : c \in Conns} \cup {<<>>}, job : {"none", "queued", "served"}]]

(* stop() of the service ends the process: calls that are being served     *)
(* end, and no part is left that keeps it alive, but one that raised in    *)
(* its stop, was skipped for that, or was started again since.             *)
StopExits == stopper # "none" ~> (main \in {"exited", "down"} \/ runs \cap spared # {})

(* A client that begins to connect ends, with an answer or an exception,   *)
(* however its node starts, stops, dies or is slow.                        *)
CallEnds == \A c \in Conns : Connecting(c) ~> conn[c].st = "idle"

(* The process ends whoever calls while it stops.                          *)
StopExitsCalled == stopper # "none" ~> main \in {"exited", "down"}
=============================================================================
