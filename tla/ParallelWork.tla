----------------------------- MODULE ParallelWork -----------------------------
(***************************************************************************)
(* ParallelWork and the WorkManager in it, with which the traffic          *)
(* controller calls many Axon nodes at the same time.                      *)
(*                                                                         *)
(* The constructor puts all jobs on the work queue, Start starts the       *)
(* worker threads, and get calls stop and collects the results, one from   *)
(* the result queue of each job. stop puts one sentinel per worker behind  *)
(* the jobs and joins the queue: it waits until task_done was called for   *)
(* every element. Other threads may call work_done or stop in between;     *)
(* start, work_done and stop hold the lock of the manager, stop while it   *)
(* joins too.                                                              *)
(*                                                                         *)
(* WorkInit, WorkNext and the like are named so that a module about the    *)
(* runner machine can extend this one beside TrafficController.            *)
(***************************************************************************)
EXTENDS Naturals, Sequences, FiniteSets, Functions

CONSTANTS
  Jobs,      \* the jobs of the work list, in this order on the queue
  Workers,   \* worker threads: count of them
  Owner,     \* the thread that made the ParallelWork and gets the results
  Others,    \* threads that call work_done or stop beside it
  Sentinel,  \* the element that ends a worker
  Nothing,   \* no job, no thread
  Aborts     \* the values of abort callers pass to stop and work_done

ASSUME WorkAssumption ==
  /\ IsFiniteSet(Jobs) /\ IsFiniteSet(Workers)
  /\ Jobs # {} => Workers # {}
  /\ Sentinel \notin Jobs /\ Nothing \notin Jobs \cup {Sentinel} \cup Others \cup {Owner}
  /\ Nothing \notin Seq(Jobs \cup {Sentinel}) /\ Owner \notin Others
  /\ Aborts \subseteq BOOLEAN

Callers == Others \cup {Owner}

VARIABLES
  queue,       \* work_queue; Nothing once it is deleted
  unfinished,  \* unfinished tasks of the queue
  workDone,    \* _work_done
  abort,       \* _abort
  lock,        \* the caller that holds _lock, or Nothing
  worker,      \* worker[w]: what the thread does next, and its job
  caller,      \* caller[c]: what c does next, the abort it passed, is it in stop?
  result,      \* result[j]: the result queue of job j
  collected    \* jobs whose result the owner has taken

workVars == <<queue, unfinished, workDone, abort, lock, worker, caller, result, collected>>

manager == <<workDone, abort, lock>>

WorkInit ==
  /\ queue \in {s \in [1 .. Cardinality(Jobs) -> Jobs] : IsInjective(s)}
  /\ unfinished = Cardinality(Jobs)
  /\ workDone = FALSE /\ abort = FALSE
  /\ lock = Nothing
  /\ worker = [w \in Workers |-> [pc |-> "off", job |-> Nothing]]
  /\ caller = [c \in Callers |-> [pc |-> IF c = Owner THEN "start" ELSE "idle",
                                  abort |-> FALSE, stop |-> FALSE]]
  /\ result = [j \in Jobs |-> <<>>]
  /\ collected = {}

-----------------------------------------------------------------------------
(* The callers.                                                            *)

\* start: nobody else has the manager yet.
Start ==
  /\ caller[Owner].pc = "start"
  /\ worker' = [w \in Workers |-> [pc |-> "get", job |-> Nothing]]
  /\ caller' = [caller EXCEPT ![Owner].pc = "idle"]
  /\ UNCHANGED <<queue, unfinished, manager, result, collected>>

Started == caller[Owner].pc # "start"

\* work_done or stop is called; the owner's get calls stop.
Invoke(c, a, s) ==
  /\ Started /\ caller[c].pc = "idle"
  /\ c = Owner => s
  /\ caller' = [caller EXCEPT ![c] = [pc |-> "lock", abort |-> a, stop |-> s]]
  /\ UNCHANGED <<queue, unfinished, manager, worker, result, collected>>

Acquire(c) ==
  /\ caller[c].pc = "lock" /\ lock = Nothing
  /\ lock' = c
  /\ caller' = [caller EXCEPT ![c].pc = IF caller[c].stop /\ queue = Nothing THEN "release" ELSE "mark"]
  /\ UNCHANGED <<queue, unfinished, workDone, abort, worker, result, collected>>

AfterStopThreads(c) == IF caller[c].stop THEN "join" ELSE "release"

\* __stop_threads: the flags come first ...
Mark(c) ==
  /\ caller[c].pc = "mark"
  /\ workDone' = TRUE
  /\ abort' = (abort \/ (~ workDone /\ caller[c].abort))
  /\ caller' = [caller EXCEPT ![c].pc = IF workDone THEN AfterStopThreads(c) ELSE "sentinels"]
  /\ UNCHANGED <<queue, unfinished, lock, worker, result, collected>>

\* ... and then one sentinel per worker.
PutSentinels(c) ==
  /\ caller[c].pc = "sentinels"
  /\ queue' = queue \o [n \in 1 .. Cardinality(Workers) |-> Sentinel]
  /\ unfinished' = unfinished + Cardinality(Workers)
  /\ caller' = [caller EXCEPT ![c].pc = AfterStopThreads(c)]
  /\ UNCHANGED <<manager, worker, result, collected>>

\* Mutant: stop waits until the queue is empty, not until the work is done.
JoinEmpty(c) ==
  /\ caller[c].pc = "join" /\ queue = <<>>
  /\ queue' = Nothing
  /\ caller' = [caller EXCEPT ![c].pc = "release"]
  /\ UNCHANGED <<unfinished, manager, worker, result, collected>>

\* work_queue.join(), and the queue is deleted.
Join(c) ==
  /\ caller[c].pc = "join" /\ unfinished = 0
  /\ queue' = Nothing
  /\ caller' = [caller EXCEPT ![c].pc = "release"]
  /\ UNCHANGED <<unfinished, manager, worker, result, collected>>

Release(c) ==
  /\ caller[c].pc = "release"
  /\ lock' = Nothing
  /\ caller' = [caller EXCEPT ![c].pc = IF c = Owner THEN "collect" ELSE "done"]
  /\ UNCHANGED <<queue, unfinished, workDone, abort, worker, result, collected>>

\* get takes one result from every queue, and waits where there is none.
Collect(j) ==
  /\ caller[Owner].pc = "collect"
  /\ j \notin collected /\ result[j] # <<>>
  /\ result' = [result EXCEPT ![j] = Tail(@)]
  /\ collected' = collected \cup {j}
  /\ UNCHANGED <<queue, unfinished, manager, worker, caller>>

Return ==
  /\ caller[Owner].pc = "collect" /\ collected = Jobs
  /\ caller' = [caller EXCEPT ![Owner].pc = "done"]
  /\ UNCHANGED <<queue, unfinished, manager, worker, result, collected>>

-----------------------------------------------------------------------------
(* The workers.                                                            *)

Get(w) ==
  /\ worker[w].pc = "get" /\ queue # Nothing /\ queue # <<>>
  /\ queue' = Tail(queue)
  /\ worker' = [worker EXCEPT ![w] = IF Head(queue) = Sentinel
                                     THEN [pc |-> "leave", job |-> Nothing]
                                     ELSE [pc |-> "check", job |-> Head(queue)]]
  /\ UNCHANGED <<unfinished, manager, caller, result, collected>>

\* task_done for the sentinel, and the thread ends.
Leave(w) ==
  /\ worker[w].pc = "leave"
  /\ unfinished' = unfinished - 1
  /\ worker' = [worker EXCEPT ![w].pc = "over"]
  /\ UNCHANGED <<queue, manager, caller, result, collected>>

\* Is the work aborted? If so, making the AbortException raises a TypeError,
\* for it lacks an argument, and the thread dies with the job in its hands.
Check(w) ==
  /\ worker[w].pc = "check"
  /\ worker' = [worker EXCEPT ![w].pc = IF abort THEN "dead" ELSE "work"]
  /\ UNCHANGED <<queue, unfinished, manager, caller, result, collected>>

\* Mutant: the exception of a job is not caught.
WorkUncaught(w) ==
  /\ worker[w].pc = "work"
  /\ \/ /\ result' = [result EXCEPT ![worker[w].job] = Append(@, "value")]
        /\ worker' = [worker EXCEPT ![w].pc = "ack"]
     \/ /\ worker' = [worker EXCEPT ![w].pc = "dead"]
        /\ UNCHANGED result
  /\ UNCHANGED <<queue, unfinished, manager, caller, collected>>

\* The job is run; its value or the exception it raised goes to its queue.
Work(w) ==
  /\ worker[w].pc = "work"
  /\ \E r \in {"value", "exception"} :
       result' = [result EXCEPT ![worker[w].job] = Append(@, r)]
  /\ worker' = [worker EXCEPT ![w].pc = "ack"]
  /\ UNCHANGED <<queue, unfinished, manager, caller, collected>>

Ack(w) ==
  /\ worker[w].pc = "ack"
  /\ unfinished' = unfinished - 1
  /\ worker' = [worker EXCEPT ![w] = [pc |-> "get", job |-> Nothing]]
  /\ UNCHANGED <<queue, manager, caller, result, collected>>

-----------------------------------------------------------------------------
CallerStep(c) == Acquire(c) \/ Mark(c) \/ PutSentinels(c) \/ Join(c) \/ Release(c)

OwnerStep == Start \/ Return \/ (\E j \in Jobs : Collect(j))

WorkerStep(w) == Get(w) \/ Leave(w) \/ Check(w) \/ Work(w) \/ Ack(w)

WorkNext ==
  \/ OwnerStep
  \/ \E c \in Callers :
       \/ CallerStep(c)
       \/ \E a \in Aborts, s \in BOOLEAN : Invoke(c, a, s)
  \/ \E w \in Workers : WorkerStep(w)

WorkSpec == WorkInit /\ [][WorkNext]_workVars

\* Threads run on; jobs end, for the calls they make have timeouts; get is
\* called after Start. Each of the others calls once.
FairWork ==
  /\ WorkSpec
  /\ WF_workVars(OwnerStep)
  /\ WF_workVars(\E a \in Aborts : Invoke(Owner, a, TRUE))
  /\ \A c \in Callers : WF_workVars(CallerStep(c))
  /\ \A w \in Workers : WF_workVars(WorkerStep(w))

-----------------------------------------------------------------------------
WorkTypeOK ==
  /\ queue = Nothing \/ queue \in Seq(Jobs \cup {Sentinel})
  /\ unfinished \in Nat
  /\ workDone \in BOOLEAN /\ abort \in BOOLEAN
  /\ lock \in Callers \cup {Nothing}
  /\ worker \in [Workers -> [pc : {"off", "get", "leave", "over", "check", "work", "ack", "dead"},
                             job : Jobs \cup {Nothing}]]
  /\ caller \in [Callers -> [pc : {"start", "idle", "lock", "mark", "sentinels", "join", "release",
                                   "collect", "done"},
                             abort : BOOLEAN, stop : BOOLEAN]]
  /\ result \in [Jobs -> Seq({"value", "exception"})]
  /\ collected \subseteq Jobs

(* When stop has returned, no worker runs a job any more and every job has *)
(* its result: get does not wait for one, whoever called stop.             *)
StopMeansDone ==
  queue = Nothing =>
    /\ \A w \in Workers : worker[w].pc \in {"get", "over"}
    /\ \A j \in Jobs : j \in collected \/ result[j] # <<>>

(* get returns, whoever stops the workers first and whichever jobs raise,  *)
(* unless one of the callers aborts.                                       *)
ReturnsUnaborted == <>(caller[Owner].pc = "done" \/ abort)

(* get returns a list with a result for every job, those that an abort has *)
(* cut short included (the example of ParallelWork's docstring).           *)
GetReturns == <>(caller[Owner].pc = "done")
=============================================================================
