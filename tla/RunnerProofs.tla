------------------------------ MODULE RunnerProofs ------------------------------
(***************************************************************************)
(* Proofs about what runs on the runner machine: ParallelWork, with which  *)
(* many nodes are called at once, for any jobs, workers and callers, and   *)
(* TrafficController, whose operations are rows of such calls, for any     *)
(* endpoints on any nodes, ports and configurations.                       *)
(***************************************************************************)
EXTENDS ParallelWork, TrafficController, SequenceTheorems, FiniteSetTheorems,
        WellFoundedInduction, TLAPS

-----------------------------------------------------------------------------
(* ParallelWork.                                                           *)

Elements == Jobs \cup {Sentinel}

WorkerState == [pc : {"off", "get", "leave", "over", "check", "work", "ack", "dead"},
                job : Jobs \cup {Nothing}]

CallerState == [pc : {"start", "idle", "lock", "mark", "sentinels", "join", "release",
                      "collect", "done"},
                abort : BOOLEAN, stop : BOOLEAN]

\* Workers that have taken an element they have not called task_done for.
Busy == {w \in Workers : worker[w].pc \in {"leave", "check", "work", "ack", "dead"}}

\* One caller at a time is between Acquire and Release.
Guarded ==
  \A c \in Callers :
    caller[c].pc \in {"mark", "sentinels", "join", "release"} => lock = c

\* Until the owner starts the workers, nothing else happens.
Before ==
  IF Started THEN \A w \in Workers : worker[w].pc # "off"
  ELSE /\ \A c \in Others : caller[c].pc = "idle"
       /\ \A w \in Workers : worker[w].pc = "off"
       /\ queue # Nothing

\* Sentinels are put once, and by a caller that has made it known.
Marked ==
  /\ \A c \in Callers : caller[c].pc \in {"sentinels", "join"} => workDone
  /\ queue = Nothing => workDone /\ \A c \in Callers : caller[c].pc # "sentinels"

\* Elements that are on the queue or in the hands of workers.
Counted ==
  IF queue = Nothing THEN Busy = {} ELSE unfinished = Len(queue) + Cardinality(Busy)

Queued(j) == queue # Nothing /\ \E i \in 1 .. Len(queue) : queue[i] = j

InHand(j) == \E w \in Workers : worker[w].pc \in {"check", "work", "dead"} /\ worker[w].job = j

\* No job is lost.
Somewhere ==
  \A j \in Jobs : Queued(j) \/ InHand(j) \/ result[j] # <<>> \/ j \in collected

\* A worker that looks at a job has one.
HasJob == \A w \in Workers : worker[w].pc \in {"check", "work"} => worker[w].job \in Jobs

IInv == WorkTypeOK /\ Guarded /\ Before /\ Marked /\ Counted /\ Somewhere /\ HasJob

-----------------------------------------------------------------------------
LEMMA BusyFinite ==
  IsFiniteSet(Busy) /\ Cardinality(Busy) \in Nat
BY WorkAssumption, FS_Subset, FS_CardinalityType DEF Busy

LEMMA QueueType ==
  ASSUME WorkTypeOK, queue # Nothing
  PROVE  queue \in Seq(Elements) /\ Len(queue) \in Nat
BY LenProperties DEF WorkTypeOK, Elements

-----------------------------------------------------------------------------
LEMMA InitHolds == WorkInit => IInv
<1> SUFFICES ASSUME WorkInit PROVE IInv
  OBVIOUS
<1> DEFINE n == Cardinality(Jobs)
<1>1. n \in Nat /\ IsFiniteSet(1 .. n) /\ Cardinality(1 .. n) = n
  BY WorkAssumption, FS_CardinalityType, FS_Interval
<1>2. queue \in Injection(1 .. n, Jobs)
  BY DEF WorkInit, Injection
<1>3. queue \in Surjection(1 .. n, Jobs)
  BY <1>1, <1>2, WorkAssumption, FS_Injection
<1>4. queue \in [1 .. n -> Jobs] /\ \A j \in Jobs : \E i \in 1 .. n : queue[i] = j
  BY <1>3 DEF Surjection
<1> HIDE DEF n
<1>5. queue \in Seq(Elements) /\ Len(queue) = n
  BY <1>1, <1>4 DEF Elements
<1>6. queue # Nothing
  BY <1>5, WorkAssumption DEF Elements
<1>7. Busy = {} /\ Cardinality(Busy) = 0
  BY FS_EmptySet DEF WorkInit, Busy
<1>8. WorkTypeOK
  <2>1. unfinished \in Nat /\ queue \in Seq(Elements)
    BY <1>1, <1>5 DEF WorkInit, n
  <2>2. worker \in [Workers -> WorkerState] /\ caller \in [Callers -> CallerState]
    BY DEF WorkInit, WorkerState, CallerState
  <2>3. result \in [Jobs -> Seq({"value", "exception"})]
    BY EmptySeq DEF WorkInit
  <2>4. QED
    BY <2>1, <2>2, <2>3 DEF WorkInit, WorkTypeOK, Elements, WorkerState, CallerState
<1>9. Guarded /\ Before /\ Marked /\ HasJob
  BY <1>6, WorkAssumption DEF WorkInit, Guarded, Before, Marked, HasJob, Started, Callers
<1>10. Counted
  BY <1>1, <1>5, <1>6, <1>7 DEF Counted, WorkInit, n
<1>11. Somewhere
  BY <1>4, <1>5, <1>6 DEF Somewhere, Queued
<1>12. QED
  BY <1>8, <1>9, <1>10, <1>11 DEF IInv

-----------------------------------------------------------------------------
(* What a step of one worker, and of one caller, leaves as it is.          *)

LEMMA WorkerMoves ==
  ASSUME IInv, NEW w \in Workers, NEW x \in WorkerState, worker' = [worker EXCEPT ![w] = x],
         worker[w].pc # "off", x.pc # "off", x.pc \in {"check", "work"} => x.job \in Jobs,
         queue' = Nothing <=> queue = Nothing, UNCHANGED <<manager, caller>>
  PROVE  /\ worker' \in [Workers -> WorkerState] /\ worker'[w] = x
         /\ \A v \in Workers \ {w} : worker'[v] = worker[v]
         /\ Guarded' /\ Before' /\ Marked' /\ HasJob'
<1>1. worker \in [Workers -> WorkerState]
  BY DEF IInv, WorkTypeOK, WorkerState
<1>2. /\ worker' \in [Workers -> WorkerState] /\ worker'[w] = x
      /\ \A v \in Workers \ {w} : worker'[v] = worker[v]
  BY <1>1
<1>3. Guarded' /\ Marked'
  BY DEF IInv, Guarded, Marked, manager
<1>4. Before'
  BY <1>2 DEF IInv, Before, Started
<1>5. HasJob'
  BY <1>2 DEF IInv, HasJob
<1>6. QED
  BY <1>2, <1>3, <1>4, <1>5

LEMMA BusyGrows ==
  ASSUME NEW w \in Workers, w \notin Busy, w \in Busy',
         \A v \in Workers \ {w} : worker'[v] = worker[v]
  PROVE  Cardinality(Busy') = Cardinality(Busy) + 1
<1>1. Busy' = Busy \cup {w}
  BY DEF Busy
<1>2. QED
  BY <1>1, BusyFinite, FS_AddElement

LEMMA BusyShrinks ==
  ASSUME NEW w \in Workers, w \in Busy, w \notin Busy',
         \A v \in Workers \ {w} : worker'[v] = worker[v]
  PROVE  /\ Cardinality(Busy') = Cardinality(Busy) - 1 /\ Cardinality(Busy') \in Nat
         /\ Busy # {}
<1>1. Busy' = Busy \ {w}
  BY DEF Busy
<1>2. Cardinality(Busy') = Cardinality(Busy) - 1 /\ IsFiniteSet(Busy')
  BY <1>1, BusyFinite, FS_RemoveElement
<1>3. Cardinality(Busy') \in Nat
  BY <1>2, FS_CardinalityType
<1>4. QED
  BY <1>2, <1>3

LEMMA CallerMoves ==
  ASSUME IInv, NEW c \in Callers, NEW x \in CallerState, caller' = [caller EXCEPT ![c] = x],
         Started, x.pc # "start", UNCHANGED worker,
         x.pc \in {"mark", "sentinels", "join", "release"} => lock' = c,
         lock' = lock \/ lock \in {Nothing, c}
  PROVE  /\ caller' \in [Callers -> CallerState] /\ caller'[c] = x
         /\ \A d \in Callers \ {c} : caller'[d] = caller[d]
         /\ Guarded' /\ Before' /\ HasJob' /\ Busy' = Busy
<1>1. caller \in [Callers -> CallerState]
  BY DEF IInv, WorkTypeOK, CallerState
<1>2. /\ caller' \in [Callers -> CallerState] /\ caller'[c] = x
      /\ \A d \in Callers \ {c} : caller'[d] = caller[d]
  BY <1>1
<1>3. Nothing \notin Callers
  BY WorkAssumption DEF Callers
<1>4. Guarded'
  BY <1>2, <1>3 DEF IInv, Guarded
<1>5. Before'
  <2>1. Started'
    BY <1>2 DEF Started, Callers
  <2>2. QED
    BY <2>1 DEF IInv, Before
<1>6. HasJob' /\ Busy' = Busy
  BY DEF IInv, HasJob, Busy
<1>7. QED
  BY <1>2, <1>4, <1>5, <1>6

\* A caller that is past its start has seen the owner's.
LEMMA AfterStart ==
  ASSUME IInv, NEW c \in Callers, caller[c].pc \notin {"start", "idle"}
  PROVE  Started
BY DEF IInv, Before, Started, Callers

-----------------------------------------------------------------------------
(* The workers' steps.                                                     *)

LEMMA GetKeeps ==
  ASSUME IInv, NEW w \in Workers, Get(w)
  PROVE  IInv'
<1>1. /\ queue \in Seq(Elements) /\ queue # <<>> /\ queue # Nothing /\ Len(queue) \in Nat
      /\ Head(queue) \in Elements /\ Tail(queue) \in Seq(Elements)
      /\ Len(Tail(queue)) = Len(queue) - 1
      /\ \A i \in 1 .. Len(Tail(queue)) : Tail(queue)[i] = queue[i + 1]
  BY QueueType, HeadTailProperties DEF Get, IInv
<1>2. queue' = Tail(queue) /\ queue' # Nothing
  BY <1>1, WorkAssumption DEF Get, Elements
<1>3. PICK x \in WorkerState :
        /\ worker' = [worker EXCEPT ![w] = x]
        /\ \/ x.pc = "leave" /\ Head(queue) = Sentinel
           \/ x.pc = "check" /\ x.job = Head(queue) /\ x.job \in Jobs
  <2>1. CASE Head(queue) = Sentinel
    <3> DEFINE y == [pc |-> "leave", job |-> Nothing]
    <3>1. y \in WorkerState /\ worker' = [worker EXCEPT ![w] = y]
      BY <2>1 DEF Get, WorkerState
    <3>2. QED
      BY <2>1, <3>1
  <2>2. CASE Head(queue) # Sentinel
    <3> DEFINE y == [pc |-> "check", job |-> Head(queue)]
    <3>1. y \in WorkerState /\ worker' = [worker EXCEPT ![w] = y] /\ y.job \in Jobs
      BY <1>1, <2>2 DEF Get, WorkerState, Elements
    <3>2. QED
      BY <2>2, <3>1
  <2>3. QED
    BY <2>1, <2>2
<1>4. /\ worker' \in [Workers -> WorkerState] /\ worker'[w] = x
      /\ \A v \in Workers \ {w} : worker'[v] = worker[v]
      /\ Guarded' /\ Before' /\ Marked' /\ HasJob'
  BY <1>1, <1>2, <1>3, WorkerMoves DEF Get
<1>5. WorkTypeOK'
  BY <1>1, <1>2, <1>4 DEF Get, IInv, WorkTypeOK, WorkerState, Elements, manager
<1>6. Counted'
  <2>1. w \notin Busy /\ w \in Busy'
    BY <1>3, <1>4 DEF Get, Busy
  <2>2. Cardinality(Busy') = Cardinality(Busy) + 1
    BY <1>4, <2>1, BusyGrows
  <2>3. unfinished = Len(queue) + Cardinality(Busy) /\ unfinished' = unfinished
    BY <1>1 DEF Get, IInv, Counted
  <2>4. Len(queue') = Len(queue) - 1 /\ Len(queue) \in Nat /\ Cardinality(Busy) \in Nat
    BY <1>1, <1>2, BusyFinite
  <2>5. unfinished' = Len(queue') + Cardinality(Busy')
    BY <2>2, <2>3, <2>4
  <2>6. QED
    BY <1>2, <2>5 DEF Counted
<1>7. Somewhere'
  <2> SUFFICES ASSUME NEW j \in Jobs
               PROVE  Queued(j)' \/ InHand(j)' \/ result'[j] # <<>> \/ j \in collected'
    BY DEF Somewhere
  <2>1. CASE Queued(j)
    <3>1. PICK i \in 1 .. Len(queue) : queue[i] = j
      BY <2>1 DEF Queued
    <3>2. CASE i = 1
      <4>1. Head(queue) = j
        BY <1>1, <3>1, <3>2
      <4>2. CASE j = Sentinel
        BY <4>2, WorkAssumption
      <4>3. CASE j # Sentinel
        BY <1>3, <1>4, <4>1, <4>3 DEF InHand
      <4>4. QED
        BY <4>2, <4>3
    <3>3. CASE i # 1
      <4>1. i - 1 \in 1 .. Len(queue') /\ queue'[i - 1] = j
        BY <1>1, <1>2, <3>1, <3>3
      <4>2. QED
        BY <1>2, <4>1 DEF Queued
    <3>4. QED
      BY <3>2, <3>3
  <2>2. CASE InHand(j)
    <3>1. PICK v \in Workers : worker[v].pc \in {"check", "work", "dead"} /\ worker[v].job = j
      BY <2>2 DEF InHand
    <3>2. v # w
      BY <3>1 DEF Get
    <3>3. QED
      BY <1>4, <3>1, <3>2 DEF InHand
  <2>3. QED
    BY <2>1, <2>2 DEF Get, IInv, Somewhere
<1>8. QED
  BY <1>4, <1>5, <1>6, <1>7 DEF IInv

\* A worker that has an element in hand, and leaves the queue alone.
LEMMA HandStep ==
  ASSUME IInv, NEW w \in Workers, NEW x \in WorkerState, worker' = [worker EXCEPT ![w] = x],
         UNCHANGED <<queue, manager, caller, collected>>,
         worker[w].pc \in {"leave", "check", "work", "ack"},
         \/ x.pc \in {"work", "ack", "dead"} /\ unfinished' = unfinished
         \/ x.pc \in {"over", "get"} /\ unfinished' = unfinished - 1,
         worker[w].pc = "check" => x.pc \in {"work", "dead"} /\ x.job = worker[w].job,
         worker[w].pc # "check" => x.pc # "work",
         result' \in [Jobs -> Seq({"value", "exception"})],
         \A j \in Jobs : result[j] # <<>> => result'[j] # <<>>,
         worker[w].pc = "work" => result'[worker[w].job] # <<>>
  PROVE  IInv'
<1>1. x.pc \in {"check", "work"} => x.job \in Jobs
  BY DEF IInv, HasJob
<1>2. /\ worker' \in [Workers -> WorkerState] /\ worker'[w] = x
      /\ \A v \in Workers \ {w} : worker'[v] = worker[v]
      /\ Guarded' /\ Before' /\ Marked' /\ HasJob'
  <2>1. worker[w].pc # "off" /\ x.pc # "off" /\ (queue' = Nothing <=> queue = Nothing)
    OBVIOUS
  <2>2. QED
    BY <1>1, <2>1, WorkerMoves
<1>3. w \in Busy /\ queue # Nothing
  BY DEF Busy, IInv, Counted
<1>4. Counted' /\ unfinished' \in Nat
  <2>1. unfinished = Len(queue) + Cardinality(Busy) /\ Len(queue) \in Nat
    BY <1>3, QueueType DEF IInv, Counted
  <2>2. CASE x.pc \in {"work", "ack", "dead"} /\ unfinished' = unfinished
    <3>1. Busy' = Busy
      BY <1>2, <1>3, <2>2 DEF Busy
    <3>2. QED
      BY <1>3, <2>1, <2>2, <3>1 DEF Counted, IInv, WorkTypeOK
  <2>3. CASE x.pc \in {"over", "get"} /\ unfinished' = unfinished - 1
    <3>1. w \notin Busy'
      BY <1>2, <2>3 DEF Busy
    <3>2. Cardinality(Busy') = Cardinality(Busy) - 1 /\ Cardinality(Busy') \in Nat
      BY <1>2, <1>3, <3>1, BusyShrinks
    <3>3. unfinished' = Len(queue) + Cardinality(Busy') /\ unfinished' \in Nat
      BY <2>1, <2>3, <3>2, BusyFinite
    <3>4. QED
      BY <1>3, <3>3 DEF Counted
  <2>4. QED
    BY <2>2, <2>3
<1>5. WorkTypeOK'
  BY <1>2, <1>4 DEF IInv, WorkTypeOK, WorkerState, manager
<1>6. Somewhere'
  <2> SUFFICES ASSUME NEW j \in Jobs
               PROVE  Queued(j)' \/ InHand(j)' \/ result'[j] # <<>> \/ j \in collected'
    BY DEF Somewhere
  <2>1. CASE InHand(j)
    <3>1. PICK v \in Workers : worker[v].pc \in {"check", "work", "dead"} /\ worker[v].job = j
      BY <2>1 DEF InHand
    <3>2. CASE v = w
      BY <1>2, <3>1, <3>2 DEF InHand
    <3>3. CASE v # w
      BY <1>2, <3>1, <3>3 DEF InHand
    <3>4. QED
      BY <3>2, <3>3
  <2>2. CASE Queued(j)
    BY <2>2 DEF Queued
  <2>3. QED
    BY <2>1, <2>2 DEF IInv, Somewhere
<1>7. QED
  BY <1>2, <1>4, <1>5, <1>6 DEF IInv

LEMMA WorkerStepKeeps ==
  ASSUME IInv, NEW w \in Workers, WorkerStep(w)
  PROVE  IInv'
<1>1. worker \in [Workers -> WorkerState] /\ worker[w] \in WorkerState
      /\ result \in [Jobs -> Seq({"value", "exception"})]
  BY DEF IInv, WorkTypeOK, WorkerState
<1>2. CASE Leave(w)
  <2> DEFINE x == [worker[w] EXCEPT !.pc = "over"]
  <2>1. x \in WorkerState /\ x.pc = "over" /\ worker' = [worker EXCEPT ![w] = x]
    BY <1>1, <1>2 DEF Leave, WorkerState
  <2> HIDE DEF x
  <2>2. QED
    BY <1>1, <1>2, <2>1, HandStep DEF Leave
<1>3. CASE Check(w)
  <2> DEFINE l == IF abort THEN "dead" ELSE "work"
             x == [worker[w] EXCEPT !.pc = l]
  <2>1. l \in {"work", "dead"}
    OBVIOUS
  <2>2. worker' = [worker EXCEPT ![w] = x]
    BY <1>3, Zenon DEF Check
  <2> HIDE DEF l
  <2>3. x \in WorkerState /\ x.pc \in {"work", "dead"} /\ x.job = worker[w].job
    BY <1>1, <2>1 DEF WorkerState
  <2> HIDE DEF x
  <2>4. QED
    BY <1>1, <1>3, <2>2, <2>3, HandStep DEF Check
<1>4. CASE Work(w)
  <2> DEFINE x == [worker[w] EXCEPT !.pc = "ack"]
             j == worker[w].job
  <2>1. x \in WorkerState /\ x.pc = "ack" /\ worker' = [worker EXCEPT ![w] = x]
    BY <1>1, <1>4 DEF Work, WorkerState
  <2>2. j \in Jobs
    BY <1>4 DEF Work, IInv, HasJob
  <2> HIDE DEF x, j
  <2>3. PICK r \in {"value", "exception"} : result' = [result EXCEPT ![j] = Append(@, r)]
    BY <1>4 DEF Work, j
  <2>4. /\ Append(result[j], r) \in Seq({"value", "exception"})
        /\ Append(result[j], r) # <<>>
    BY <1>1, <2>2, AppendProperties
  <2>5. /\ result' \in [Jobs -> Seq({"value", "exception"})] /\ result'[j] # <<>>
        /\ \A i \in Jobs : result[i] # <<>> => result'[i] # <<>>
    BY <1>1, <2>2, <2>3, <2>4
  <2>6. QED
    BY <1>4, <2>1, <2>5, HandStep DEF Work, j
<1>5. CASE Ack(w)
  <2> DEFINE x == [pc |-> "get", job |-> Nothing]
  <2>1. x \in WorkerState /\ x.pc = "get" /\ worker' = [worker EXCEPT ![w] = x]
    BY <1>5 DEF Ack, WorkerState
  <2> HIDE DEF x
  <2>2. QED
    BY <1>1, <1>5, <2>1, HandStep DEF Ack
<1>6. QED
  BY <1>2, <1>3, <1>4, <1>5, GetKeeps DEF WorkerStep

-----------------------------------------------------------------------------
(* The callers' steps.                                                     *)

\* A caller that leaves the queue and the results alone.
LEMMA CallerKeeps ==
  ASSUME IInv, NEW c \in Callers, NEW x \in CallerState, caller' = [caller EXCEPT ![c] = x],
         Started, x.pc # "start", UNCHANGED <<queue, unfinished, worker, result, collected>>,
         x.pc \in {"mark", "sentinels", "join", "release"} => lock' = c,
         lock' = lock \/ lock \in {Nothing, c}, lock' \in Callers \cup {Nothing},
         workDone' \in BOOLEAN, abort' \in BOOLEAN, workDone => workDone',
         x.pc \in {"sentinels", "join"} => workDone',
         x.pc = "sentinels" => queue # Nothing
  PROVE  IInv'
<1>1. /\ caller' \in [Callers -> CallerState] /\ caller'[c] = x
      /\ \A d \in Callers \ {c} : caller'[d] = caller[d]
      /\ Guarded' /\ Before' /\ HasJob' /\ Busy' = Busy
  BY CallerMoves
<1>2. WorkTypeOK'
  BY <1>1 DEF IInv, WorkTypeOK, CallerState
<1>3. Marked'
  BY <1>1 DEF IInv, Marked
<1>4. Counted' /\ Somewhere'
  <2>1. Counted'
    BY <1>1 DEF IInv, Counted
  <2>2. Somewhere'
    BY DEF IInv, Somewhere, Queued, InHand
  <2>3. QED
    BY <2>1, <2>2
<1>5. QED
  BY <1>1, <1>2, <1>3, <1>4 DEF IInv

LEMMA InvokeKeeps ==
  ASSUME IInv, NEW c \in Callers, NEW a \in Aborts, NEW s \in BOOLEAN, Invoke(c, a, s)
  PROVE  IInv'
<1> DEFINE x == [pc |-> "lock", abort |-> a, stop |-> s]
<1>1. x \in CallerState /\ x.pc = "lock" /\ caller' = [caller EXCEPT ![c] = x]
  BY WorkAssumption DEF Invoke, CallerState
<1> HIDE DEF x
<1>2. QED
  BY <1>1, CallerKeeps DEF Invoke, manager, IInv, WorkTypeOK

\* A caller that goes on at label l.
Goes(c, l) == caller' = [caller EXCEPT ![c].pc = l]

LEMMA NextPc ==
  ASSUME IInv, NEW c \in Callers,
         NEW l \in {"mark", "sentinels", "join", "release", "collect", "done"},
         Goes(c, l)
  PROVE  \E x \in CallerState : x.pc = l /\ caller' = [caller EXCEPT ![c] = x]
<1> DEFINE x == [caller[c] EXCEPT !.pc = l]
<1>1. caller[c] \in CallerState
  BY DEF IInv, WorkTypeOK, CallerState
<1>2. x \in CallerState /\ x.pc = l /\ caller' = [caller EXCEPT ![c] = x]
  BY <1>1 DEF CallerState, Goes
<1>3. QED
  BY <1>2

LEMMA AcquireKeeps ==
  ASSUME IInv, NEW c \in Callers, Acquire(c)
  PROVE  IInv'
<1>1. Started
  BY AfterStart DEF Acquire
<1>2. PICK l \in {"mark", "release"} : Goes(c, l)
  BY Zenon DEF Acquire, Goes
<1>3. PICK x \in CallerState : x.pc = l /\ caller' = [caller EXCEPT ![c] = x]
  BY <1>2, NextPc
<1>4. QED
  BY <1>1, <1>2, <1>3, CallerKeeps DEF Acquire, IInv, WorkTypeOK

LEMMA MarkKeeps ==
  ASSUME IInv, NEW c \in Callers, Mark(c)
  PROVE  IInv'
<1>1. Started /\ lock = c
  BY AfterStart DEF Mark, IInv, Guarded
<1>2. workDone' = TRUE /\ abort' \in BOOLEAN
  BY DEF Mark, IInv, WorkTypeOK
<1>3. PICK l \in {"sentinels", "join", "release"} :
        Goes(c, l) /\ (l = "sentinels" => ~ workDone)
  BY DEF Mark, AfterStopThreads, Goes
<1>4. PICK x \in CallerState : x.pc = l /\ caller' = [caller EXCEPT ![c] = x]
  BY <1>3, NextPc
<1>5. l = "sentinels" => queue # Nothing
  BY <1>3 DEF IInv, Marked
<1>6. QED
  BY <1>1, <1>2, <1>3, <1>4, <1>5, CallerKeeps DEF Mark, IInv, WorkTypeOK

LEMMA PutSentinelsKeeps ==
  ASSUME IInv, NEW c \in Callers, PutSentinels(c)
  PROVE  IInv'
<1>1. Started /\ lock = c /\ workDone /\ queue # Nothing
  BY AfterStart DEF PutSentinels, IInv, Guarded, Marked
<1> DEFINE n == Cardinality(Workers)
           s == [k \in 1 .. n |-> Sentinel]
<1>2. n \in Nat
  BY WorkAssumption, FS_CardinalityType
<1>3. s \in Seq(Elements) /\ Len(s) = n
  <2> HIDE DEF n
  <2> QED BY <1>2 DEF Elements
<1>4. queue \in Seq(Elements) /\ Len(queue) \in Nat
  BY <1>1, QueueType DEF IInv
<1>5. queue' = queue \o s /\ unfinished' = unfinished + n
  BY DEF PutSentinels
<1> HIDE DEF s, n
<1>6. /\ queue' \in Seq(Elements) /\ Len(queue') = Len(queue) + n
      /\ \A i \in 1 .. Len(queue) : i \in 1 .. Len(queue') /\ queue'[i] = queue[i]
  <2>1. /\ queue' \in Seq(Elements) /\ Len(queue') = Len(queue) + Len(s)
        /\ \A i \in 1 .. Len(queue) + Len(s) :
             queue'[i] = IF i <= Len(queue) THEN queue[i] ELSE s[i - Len(queue)]
    BY <1>3, <1>4, <1>5, ConcatProperties
  <2>2. QED
    BY <1>2, <1>3, <1>4, <2>1
<1>7. queue' # Nothing
  BY <1>6, WorkAssumption DEF Elements
<1>8. PICK l \in {"join", "release"} : Goes(c, l)
  BY DEF PutSentinels, AfterStopThreads, Goes
<1>9. PICK x \in CallerState : x.pc = l /\ caller' = [caller EXCEPT ![c] = x]
  BY <1>8, NextPc
<1>10. /\ caller' \in [Callers -> CallerState] /\ caller'[c] = x
       /\ \A d \in Callers \ {c} : caller'[d] = caller[d]
       /\ Guarded' /\ Before' /\ HasJob' /\ Busy' = Busy
  <2>1. UNCHANGED <<worker, lock>> /\ x.pc # "start"
    BY <1>9 DEF PutSentinels, manager
  <2>2. QED
    BY <1>1, <1>9, <2>1, CallerMoves
<1>11. Counted' /\ unfinished' \in Nat
  <2>1. unfinished = Len(queue) + Cardinality(Busy)
    BY <1>1 DEF IInv, Counted
  <2>2. unfinished' = Len(queue') + Cardinality(Busy') /\ unfinished' \in Nat
    BY <1>2, <1>4, <1>5, <1>6, <1>10, <2>1, BusyFinite
  <2>3. QED
    BY <1>7, <2>2 DEF Counted
<1>12. WorkTypeOK'
  BY <1>6, <1>10, <1>11 DEF PutSentinels, IInv, WorkTypeOK, Elements, CallerState, manager
<1>13. Marked'
  BY <1>1, <1>7, <1>9, <1>10 DEF PutSentinels, IInv, Marked, manager
<1>14. Somewhere'
  <2>1. ASSUME NEW j \in Jobs, Queued(j) PROVE Queued(j)'
    BY <1>6, <1>7, <2>1 DEF Queued
  <2>2. QED
    BY <2>1 DEF PutSentinels, IInv, Somewhere, InHand
<1>15. QED
  BY <1>10, <1>11, <1>12, <1>13, <1>14 DEF IInv

\* When all elements are done, none is on the queue or in somebody's hands.
LEMMA AllDone ==
  ASSUME IInv, unfinished = 0 \/ queue = Nothing
  PROVE  Busy = {} /\ (queue # Nothing => Len(queue) = 0)
<1>1. CASE queue = Nothing
  BY <1>1 DEF IInv, Counted
<1>2. CASE queue # Nothing
  <2>1. unfinished = Len(queue) + Cardinality(Busy) /\ Len(queue) \in Nat
    BY <1>2, QueueType DEF IInv, Counted
  <2>2. Len(queue) = 0 /\ Cardinality(Busy) = 0
    BY <1>2, <2>1, BusyFinite
  <2>3. QED
    BY <2>2, BusyFinite, FS_EmptySet
<1>3. QED
  BY <1>1, <1>2

LEMMA JoinKeeps ==
  ASSUME IInv, NEW c \in Callers, Join(c)
  PROVE  IInv'
<1>1. Started /\ lock = c /\ workDone
  BY AfterStart DEF Join, IInv, Guarded, Marked
<1>2. PICK x \in CallerState : x.pc = "release" /\ caller' = [caller EXCEPT ![c] = x]
  BY NextPc DEF Join, Goes
<1>3. /\ caller' \in [Callers -> CallerState] /\ caller'[c] = x
      /\ \A d \in Callers \ {c} : caller'[d] = caller[d]
      /\ Guarded' /\ Before' /\ HasJob' /\ Busy' = Busy
  <2>1. UNCHANGED <<worker, lock>> /\ x.pc # "start"
    BY <1>2 DEF Join, manager
  <2>2. QED
    BY <1>1, <1>2, <2>1, CallerMoves
<1>4. Busy = {} /\ (queue # Nothing => Len(queue) = 0)
  BY AllDone DEF Join
<1>5. WorkTypeOK'
  BY <1>3 DEF Join, IInv, WorkTypeOK, CallerState, manager
<1>6. Marked'
  BY <1>1, <1>2, <1>3 DEF Join, IInv, Marked, Guarded, manager
<1>7. Counted'
  BY <1>3, <1>4 DEF Join, Counted
<1>8. Somewhere'
  <2>1. \A j \in Jobs : ~ Queued(j) /\ ~ InHand(j)
    BY <1>4 DEF Queued, InHand, Busy
  <2>2. QED
    BY <2>1 DEF Join, IInv, Somewhere
<1>9. QED
  BY <1>3, <1>5, <1>6, <1>7, <1>8 DEF IInv

LEMMA ReleaseKeeps ==
  ASSUME IInv, NEW c \in Callers, Release(c)
  PROVE  IInv'
<1>1. Started /\ lock = c
  BY AfterStart DEF Release, IInv, Guarded
<1>2. PICK l \in {"collect", "done"} : Goes(c, l)
  BY Zenon DEF Release, Goes
<1>3. PICK x \in CallerState : x.pc = l /\ caller' = [caller EXCEPT ![c] = x]
  BY <1>2, NextPc
<1>4. QED
  BY <1>1, <1>2, <1>3, CallerKeeps DEF Release, IInv, WorkTypeOK

-----------------------------------------------------------------------------
(* The owner's steps.                                                      *)

LEMMA StartKeeps ==
  ASSUME IInv, Start
  PROVE  IInv'
<1>1. /\ ~ Started /\ queue # Nothing
      /\ \A w \in Workers : worker[w].pc = "off"
      /\ \A c \in Others : caller[c].pc = "idle"
  BY DEF Start, Started, IInv, Before
<1>2. worker' \in [Workers -> WorkerState] /\ \A w \in Workers : worker'[w].pc = "get"
  BY DEF Start, WorkerState
<1>3. /\ caller' \in [Callers -> CallerState] /\ caller'[Owner].pc = "idle"
      /\ \A c \in Callers : caller'[c].pc = caller[c].pc \/ caller'[c].pc = "idle"
  BY DEF Start, IInv, WorkTypeOK, CallerState, Callers
<1>4. WorkTypeOK'
  BY <1>2, <1>3 DEF Start, IInv, WorkTypeOK, WorkerState, CallerState, manager
<1>5. Guarded' /\ Before' /\ Marked' /\ HasJob'
  BY <1>2, <1>3 DEF Start, IInv, Guarded, Before, Marked, HasJob, Started, manager
<1>6. Counted'
  <2>1. Busy = {} /\ Busy' = {}
    BY <1>1, <1>2 DEF Busy
  <2>2. QED
    BY <1>1, <2>1 DEF Start, IInv, Counted
<1>7. Somewhere'
  BY <1>1 DEF Start, IInv, Somewhere, Queued, InHand
<1>8. QED
  BY <1>4, <1>5, <1>6, <1>7 DEF IInv

LEMMA CollectKeeps ==
  ASSUME IInv, NEW j \in Jobs, Collect(j)
  PROVE  IInv'
<1>1. result \in [Jobs -> Seq({"value", "exception"})] /\ result[j] # <<>>
  BY DEF Collect, IInv, WorkTypeOK
<1>2. Tail(result[j]) \in Seq({"value", "exception"})
  BY <1>1, HeadTailProperties
<1>3. WorkTypeOK'
  BY <1>1, <1>2 DEF Collect, IInv, WorkTypeOK, manager
<1>4. Guarded' /\ Before' /\ Marked' /\ Counted' /\ HasJob'
  BY DEF Collect, IInv, Guarded, Before, Marked, Counted, HasJob, Started, Busy, manager
<1>5. Somewhere'
  BY <1>1 DEF Collect, IInv, Somewhere, Queued, InHand
<1>6. QED
  BY <1>3, <1>4, <1>5 DEF IInv

LEMMA ReturnKeeps ==
  ASSUME IInv, Return
  PROVE  IInv'
<1>1. Owner \in Callers /\ Started
  BY DEF Return, Started, Callers
<1>2. PICK x \in CallerState : x.pc = "done" /\ caller' = [caller EXCEPT ![Owner] = x]
  BY <1>1, NextPc DEF Return, Goes
<1>3. QED
  BY <1>1, <1>2, CallerKeeps DEF Return, manager, IInv, WorkTypeOK

LEMMA NextKeeps == IInv /\ [WorkNext]_workVars => IInv'
<1> SUFFICES ASSUME IInv, [WorkNext]_workVars PROVE IInv'
  OBVIOUS
<1>1. CASE OwnerStep
  BY <1>1, StartKeeps, CollectKeeps, ReturnKeeps DEF OwnerStep
<1>2. ASSUME NEW c \in Callers, CallerStep(c) PROVE IInv'
  BY <1>2, AcquireKeeps, MarkKeeps, PutSentinelsKeeps, JoinKeeps, ReleaseKeeps DEF CallerStep
<1>3. CASE UNCHANGED workVars
  BY <1>3 DEF workVars, manager, IInv, WorkTypeOK, Guarded, Before, Marked, Counted, Somewhere, HasJob,
              Started, Busy, Queued, InHand
<1>4. QED
  BY <1>1, <1>2, <1>3, InvokeKeeps, WorkerStepKeeps DEF WorkNext

-----------------------------------------------------------------------------
(* When stop has returned, every job has its result and nobody works, for  *)
(* any number of jobs, workers and callers, and whoever aborts: the queue  *)
(* is deleted only when the count of unfinished elements (WorkManager.stop *)
(* joins it) is zero, and that count is what is queued and in hand.        *)
THEOREM StopWaits == WorkSpec => []StopMeansDone
<1>1. IInv => StopMeansDone
  <2> SUFFICES ASSUME IInv, queue = Nothing
               PROVE  /\ \A w \in Workers : worker[w].pc \in {"get", "over"}
                      /\ \A j \in Jobs : j \in collected \/ result[j] # <<>>
    BY DEF StopMeansDone
  <2>1. Busy = {} /\ Started
    BY AllDone DEF IInv, Before
  <2>2. \A w \in Workers : worker[w].pc \in {"get", "over"}
    BY <2>1 DEF IInv, WorkTypeOK, Before, Busy
  <2>3. \A j \in Jobs : ~ Queued(j) /\ ~ InHand(j)
    BY <2>1 DEF Queued, InHand, Busy
  <2>4. QED
    BY <2>2, <2>3 DEF IInv, Somewhere
<1>2. QED
  BY <1>1, InitHolds, NextKeeps, PTL DEF WorkSpec

(* Every state of the manager, its workers and its callers is well typed.  *)
THEOREM WorkTypes == WorkSpec => []WorkTypeOK
<1>1. IInv => WorkTypeOK
  BY DEF IInv
<1>2. QED
  BY <1>1, InitHolds, NextKeeps, PTL DEF WorkSpec

-----------------------------------------------------------------------------
(* TrafficController: what its steps preserve.                             *)

Recs == [Endpoints -> Record \cup {None}]

Restarting == <<"stop_clients", "stop_servers", "start_servers", "start_clients">>

StopThenStart == <<"stop_servers", "start_servers", "start_clients">>

Starting == {<<"start_servers", "start_clients">>, <<"start_clients">>}

\* The phases that may be left of an operation.
Programs ==
  {<<>>, <<"nothing">>, <<"register">>, <<"unregister">>, <<"clear">>,
   <<"stop_clients", "stop_servers">>, <<"stop_servers">>,
   Restarting, StopThenStart} \cup Starting

\* The rules callers may pass.
Offered == UNION {ToSet(c) : c \in Configs}

Types ==
  /\ strict \in BOOLEAN /\ faulty \in BOOLEAN /\ whole \in BOOLEAN
  /\ records \in Recs /\ rows \in Recs
  /\ phases \in Programs
  /\ target \subseteq Nodes /\ waiting \subseteq target
  /\ phases = <<>> => waiting = {}
  /\ failed \in BOOLEAN /\ pushed \in BOOLEAN
  /\ given \subseteq Offered
  /\ serving \in [Endpoints -> SUBSET Ports] /\ sending \in [Endpoints -> SUBSET Client]

\* The client rule that rule r makes.
ClientOf(r) == [dst |-> r.dst, port |-> r.port, verdict |-> r.verdict]

\* Rule r is in the records recs.
Holds(recs, r) ==
  /\ recs[r.dst] # None /\ r.port \in recs[r.dst].servers
  /\ recs[r.src] # None /\ ClientOf(r) \in ToSet(recs[r.src].clients)

\* The controller has what callers have given it.
GivenHeld == \A r \in given : Holds(records, r)

\* Row a has what record b has, but for verdicts.
Covers(a, b) ==
  /\ a # None /\ b.servers \subseteq a.servers
  /\ \A c \in ToSet(b.clients) : \E d \in ToSet(a.clients) : Key(d) = Key(c)

\* Row a has nothing that b has not.
Within(a, b) == a.servers \subseteq b.servers /\ ToSet(a.clients) \subseteq ToSet(b.clients)

\* The node of endpoint e has answered in this phase.
Answered(e) == NodeOf(e) \in target \ waiting

ServersRun(e) == rows[e] # None => rows[e].servers \subseteq serving[e]

Sends(e) == (rows[e] # None /\ rows[e].clients # <<>>) => sending[e] # {}

\* What a phase has done so far, if no RPC has failed.
Progress ==
  (phases # <<>> /\ ~ failed) =>
    /\ Head(phases) = "register" =>
         /\ target = Known
         /\ \A e \in Endpoints : (Answered(e) /\ records[e] # None) => Covers(rows[e], records[e])
    /\ Head(phases) = "stop_clients" => \A e \in Endpoints : Answered(e) => sending[e] = {}
    /\ Head(phases) = "stop_servers" =>
         \A e \in Endpoints :
           /\ NodeOf(e) \in target => sending[e] = {}
           /\ Answered(e) => serving[e] = {}
    /\ Head(phases) = "start_servers" => \A e \in Endpoints : Answered(e) => ServersRun(e)
    /\ Head(phases) = "start_clients" =>
         \A e \in Endpoints :
           /\ NodeOf(e) \in target => ServersRun(e)
           /\ Answered(e) => Sends(e)

PInv == Types /\ GivenHeld /\ Progress

\* The conditions of NoFalseAlarm.
Calm == whole /\ (strict \/ ~ faulty)

\* Every client in recs has its server there.
Closed(recs) ==
  \A e \in Endpoints : recs[e] # None =>
    \A c \in ToSet(recs[e].clients) : recs[c.dst] # None /\ c.port \in recs[c.dst].servers

\* What nodes have comes from this controller.
Own ==
  \A e \in Endpoints :
    /\ rows[e] # None => records[e] # None /\ Within(rows[e], records[e])
    /\ sending[e] # {} => records[e] # None

\* Operation p pushes rules; operation p is to start clients.
Pushed(p) == p \in {<<"register">>, <<"unregister">>, <<"clear">>}

Starts(p) == p \in Starting \cup {Restarting, StopThenStart}

Emptied(row) == row = None \/ (row.servers = {} /\ ToSet(row.clients) = {})

\* What is true of each phase, whether an RPC of it has failed or not.
Ordered ==
  /\ phases \notin {<<>>, <<"nothing">>} => target = Known
  /\ Starts(phases) => pushed
  /\ (pushed /\ ~ Pushed(phases)) => Closed(rows)
  /\ (phases \in {<<"unregister">>, <<"clear">>} /\ ~ failed) =>
       \A e \in Endpoints : Answered(e) => Emptied(rows[e])
  /\ phases \in {<<"stop_servers">>, StopThenStart} => \A e \in Endpoints : sending[e] = {}
  /\ phases = <<"start_clients">> => \A e \in Endpoints : ServersRun(e)

\* Every client has its server.
Served == \A e \in Endpoints : \A c \in sending[e] : c.port \in serving[c.dst]

Sound ==
  Calm =>
    /\ Served /\ Own /\ Closed(records) /\ Ordered
    /\ ~ faulty => (~ failed /\ pushed)

CInv == PInv /\ Sound

-----------------------------------------------------------------------------
(* Folds over sequences, by induction on the length of their prefixes.     *)

\* Induction over 0 .. n, of membership in a set.
LEMMA Climb ==
  ASSUME NEW n \in Nat, NEW good, 0 \in good, \A m \in 1 .. n : m - 1 \in good => m \in good
  PROVE  \A m \in 0 .. n : m \in good
<1> DEFINE Bad == {m \in 0 .. n : m \notin good}
<1> SUFFICES ASSUME Bad # {} PROVE FALSE
  OBVIOUS
<1> DEFINE S == 1 .. n
           Sets == {1 .. y : y \in Bad}
<1>1. PICK T \in Sets : \A U \in Sets : ~ (<<U, T>> \in StrictSubsetOrdering(S))
  <2>1. IsWellFoundedOn(StrictSubsetOrdering(S), FiniteSubsetsOf(S))
    BY FS_Interval, FS_StrictSubsetOrderingWellFounded
  <2>2. Sets \subseteq FiniteSubsetsOf(S) /\ Sets # {}
    <3>1. \A y \in Bad : 1 .. y \in SUBSET S /\ IsFiniteSet(1 .. y)
      BY FS_Interval
    <3>2. QED
      BY <3>1 DEF FiniteSubsetsOf
  <2> HIDE DEF Bad, Sets, S
  <2>3. QED
    BY <2>1, <2>2, WFMin
<1>2. PICK x \in Bad : T = 1 .. x
  OBVIOUS
<1>3. x \in 1 .. n /\ x - 1 \notin good
  OBVIOUS
<1>4. 1 .. (x - 1) \in Sets
  BY <1>3
<1>5. /\ 1 .. (x - 1) \in SUBSET S /\ 1 .. x \in SUBSET S
      /\ 1 .. (x - 1) \subseteq 1 .. x /\ 1 .. (x - 1) # 1 .. x
  BY <1>3
<1>6. QED
  <2> HIDE DEF Bad, Sets, S
  <2>1. QED
    BY <1>1, <1>2, <1>4, <1>5 DEF StrictSubsetOrdering

LEMMA MaxOfPrefix ==
  ASSUME NEW n \in Nat, NEW m \in 1 .. n
  PROVE  /\ 1 .. m \in SUBSET (1 .. n) /\ 1 .. m # {}
         /\ Max(1 .. m) = m /\ (1 .. m) \ {Max(1 .. m)} = 1 .. (m - 1)
<1>1. m \in 1 .. m /\ \A y \in 1 .. m : m >= y
  OBVIOUS
<1>2. Max(1 .. m) = m
  BY <1>1 DEF Max
<1>3. QED
  BY <1>2

LEMMA MaxOfSome ==
  ASSUME NEW n \in Nat
  PROVE  \A T \in SUBSET (1 .. n) : T # {} => Max(T) \in T
<1> DEFINE good == {m \in 0 .. n : \A T \in SUBSET (1 .. m) : T # {} => Max(T) \in T}
<1>1. 0 \in good
  <2>1. 1 .. 0 = {}
    OBVIOUS
  <2>2. 0 \in 0 .. n /\ \A T \in SUBSET (1 .. 0) : T = {}
    BY <2>1
  <2>3. QED
    BY <2>2
<1>2. ASSUME NEW m \in 1 .. n, m - 1 \in good PROVE m \in good
  <2>1. ASSUME NEW T \in SUBSET (1 .. m), T # {} PROVE Max(T) \in T
    <3>1. CASE m \in T
      <4>1. \A y \in T : m >= y
        OBVIOUS
      <4>2. QED
        BY <3>1, <4>1 DEF Max
    <3>2. CASE m \notin T
      <4>1. T \in SUBSET (1 .. (m - 1))
        BY <3>2
      <4>2. QED
        BY <1>2, <2>1, <4>1
    <3>3. QED
      BY <3>1, <3>2
  <2>2. QED
    BY <2>1
<1>3. \A m \in 0 .. n : m \in good
  <2> HIDE DEF good
  <2>1. QED
    BY <1>1, <1>2, Climb
<1>4. QED
  BY <1>3

IsTable(g, V, n, step, base) ==
  /\ g \in [SUBSET (1 .. n) -> V]
  /\ \A T \in SUBSET (1 .. n) :
       g[T] = IF T = {} THEN base ELSE step[<<g[T \ {Max(T)}], Max(T)>>]

\* A fold over the last elements first, of the values in V.
LEMMA Tables ==
  ASSUME NEW V, NEW n \in Nat, NEW step \in [V \X (1 .. n) -> V], NEW base \in V
  PROVE  \E g : IsTable(g, V, n, step, base)
<1> DEFINE Table(g, m) ==
             \A T \in SUBSET (1 .. m) :
               g[T] = IF T = {} THEN base ELSE step[<<g[T \ {Max(T)}], Max(T)>>]
           good == {m \in 0 .. n : \E g \in [SUBSET (1 .. m) -> V] : Table(g, m)}
<1>1. 0 \in good
  <2> DEFINE g == [T \in SUBSET (1 .. 0) |-> base]
  <2>1. SUBSET (1 .. 0) = {{}}
    OBVIOUS
  <2>2. g \in [SUBSET (1 .. 0) -> V] /\ Table(g, 0) /\ 0 \in 0 .. n
    BY <2>1
  <2> HIDE DEF g, Table
  <2>3. QED
    BY <2>2
<1>2. ASSUME NEW m \in 1 .. n, m - 1 \in good PROVE m \in good
  <2>1. PICK g \in [SUBSET (1 .. (m - 1)) -> V] : Table(g, m - 1)
    BY <1>2
  <2> DEFINE h == [T \in SUBSET (1 .. m) |-> IF m \in T THEN step[<<g[T \ {m}], m>>] ELSE g[T]]
  <2>2. \A T \in SUBSET (1 .. m) : T \ {m} \in SUBSET (1 .. (m - 1))
    OBVIOUS
  <2>3. \A T \in SUBSET (1 .. m) : m \notin T => T \in SUBSET (1 .. (m - 1))
    OBVIOUS
  <2>4. h \in [SUBSET (1 .. m) -> V]
    BY <2>2, <2>3
  <2>5. ASSUME NEW T \in SUBSET (1 .. m), m \in T PROVE Max(T) = m
    <3>1. \A y \in T : m >= y
      OBVIOUS
    <3>2. Max(T) \in T /\ \A y \in T : Max(T) >= y
      BY <3>1, <2>5 DEF Max
    <3>3. Max(T) \in 1 .. m /\ Max(T) >= m /\ m >= Max(T)
      BY <3>1, <3>2, <2>5
    <3>4. QED
      BY <3>3
  <2>6. \A T \in SUBSET (1 .. (m - 1)) : h[T] = g[T]
    OBVIOUS
  <2>7. \A T \in SUBSET (1 .. m) : m \in T => h[T] = step[<<h[T \ {Max(T)}], Max(T)>>]
    <3>1. \A T \in SUBSET (1 .. m) : m \in T => h[T] = step[<<g[T \ {m}], m>>]
      OBVIOUS
    <3> HIDE DEF h
    <3>2. QED
      BY <3>1, <2>2, <2>5, <2>6
  <2>8. ASSUME NEW T \in SUBSET (1 .. m), m \notin T
        PROVE  h[T] = IF T = {} THEN base ELSE step[<<h[T \ {Max(T)}], Max(T)>>]
    <3>1. T \in SUBSET (1 .. (m - 1)) /\ T \ {Max(T)} \in SUBSET (1 .. (m - 1))
      BY <2>8, <2>3
    <3>2. h[T] = g[T] /\ h[T \ {Max(T)}] = g[T \ {Max(T)}]
      BY <3>1, <2>6
    <3> HIDE DEF h
    <3>3. QED
      BY <3>1, <3>2, <2>1
  <2>9. Table(h, m)
    <3> HIDE DEF h
    <3>1. QED
      BY <2>7, <2>8
  <2> HIDE DEF h, Table
  <2>10. QED
    BY <2>4, <2>9
<1>3. \A m \in 0 .. n : m \in good
  <2> HIDE DEF good
  <2>1. QED
    BY <1>1, <1>2, Climb
<1>4. n \in good
  <2> HIDE DEF good
  <2>1. QED
    BY <1>3
<1>5. QED
  BY <1>4 DEF IsTable

-----------------------------------------------------------------------------
(* The folds of TrafficController.                                         *)

\* One step of Without.
Keep(s, x, gone) == IF x \in gone THEN s ELSE Append(s, x)

LEMMA WithoutSteps ==
  ASSUME NEW A, NEW s \in Seq(A), NEW gone
  PROVE  \E a : /\ a[0] = <<>> /\ Without(s, gone) = a[Len(s)]
                /\ \A m \in 1 .. Len(s) : a[m] = Keep(a[m - 1], s[m], gone)
<1> DEFINE n == Len(s)
           V == Seq(A)
           step == [p \in V \X (1 .. n) |-> Keep(p[1], s[p[2]], gone)]
           it == CHOOSE h : h = [T \in SUBSET DOMAIN s |->
                                   IF T = {} THEN <<>> ELSE Keep(h[T \ {Max(T)}], s[Max(T)], gone)]
<1>1. n \in Nat /\ DOMAIN s = 1 .. n
  OBVIOUS
<1>2. step \in [V \X (1 .. n) -> V]
  BY DEF Keep
<1>3. PICK g : IsTable(g, V, n, step, <<>>)
  <2>1. <<>> \in V
    OBVIOUS
  <2> HIDE DEF V, n, step
  <2>2. QED
    BY <1>1, <1>2, <2>1, Tables
<1>4. \A T \in SUBSET (1 .. n) : T # {} => Max(T) \in T
  BY <1>1, MaxOfSome
<1>5. g = [T \in SUBSET DOMAIN s |->
             IF T = {} THEN <<>> ELSE Keep(g[T \ {Max(T)}], s[Max(T)], gone)]
  <2>1. ASSUME NEW T \in SUBSET (1 .. n), T # {}
        PROVE  g[T] = Keep(g[T \ {Max(T)}], s[Max(T)], gone)
    <3>1. g[T] = step[<<g[T \ {Max(T)}], Max(T)>>]
      BY <1>3, <2>1 DEF IsTable
    <3>2. T \ {Max(T)} \in SUBSET (1 .. n) /\ Max(T) \in 1 .. n
      BY <1>4, <2>1
    <3>3. g[T \ {Max(T)}] \in V
      BY <1>3, <3>2 DEF IsTable
    <3> HIDE DEF V, n
    <3>4. QED
      BY <3>1, <3>2, <3>3
  <2>2. g \in [SUBSET DOMAIN s -> V] /\ g[{}] = <<>>
    BY <1>1, <1>3 DEF IsTable
  <2> HIDE DEF V, n, step
  <2>3. QED
    BY <1>1, <2>1, <2>2
<1>6. it = [T \in SUBSET DOMAIN s |->
              IF T = {} THEN <<>> ELSE Keep(it[T \ {Max(T)}], s[Max(T)], gone)]
  BY <1>5, Zenon
<1>7. Without(s, gone) = it[DOMAIN s]
  BY DEF Without, FoldLeft, MapThenFoldSet, Keep
<1> DEFINE a == [m \in 0 .. n |-> it[1 .. m]]
<1> HIDE DEF it
<1>8. \A T \in SUBSET (1 .. n) :
        it[T] = IF T = {} THEN <<>> ELSE Keep(it[T \ {Max(T)}], s[Max(T)], gone)
  BY <1>1, <1>6
<1>9. a[0] = <<>> /\ Without(s, gone) = a[n]
  <2>1. 1 .. 0 = {}
    OBVIOUS
  <2>2. it[{}] = <<>>
    BY <1>8
  <2>3. 0 \in 0 .. n /\ n \in 0 .. n
    BY <1>1
  <2>4. QED
    BY <1>1, <1>7, <2>1, <2>2, <2>3
<1>10. ASSUME NEW m \in 1 .. n PROVE a[m] = Keep(a[m - 1], s[m], gone)
  <2>1. /\ 1 .. m \in SUBSET (1 .. n) /\ 1 .. m # {}
        /\ Max(1 .. m) = m /\ (1 .. m) \ {Max(1 .. m)} = 1 .. (m - 1)
    BY <1>1, MaxOfPrefix
  <2>2. it[1 .. m] = Keep(it[1 .. (m - 1)], s[m], gone)
    BY <1>8, <2>1
  <2>3. QED
    BY <2>2
<1>11. QED
  BY <1>9, <1>10

LEMMA SetOfAppend ==
  ASSUME NEW A, NEW s \in Seq(A), NEW x \in A
  PROVE  Append(s, x) \in Seq(A) /\ ToSet(Append(s, x)) = ToSet(s) \cup {x}
<1>1. Append(s, x) \in Seq(A) /\ Len(Append(s, x)) = Len(s) + 1 /\ Len(s) \in Nat
  OBVIOUS
<1>2. DOMAIN Append(s, x) = 1 .. (Len(s) + 1) /\ DOMAIN s = 1 .. Len(s)
  OBVIOUS
<1>3. Append(s, x)[Len(s) + 1] = x /\ \A i \in 1 .. Len(s) : Append(s, x)[i] = s[i]
  OBVIOUS
<1>4. ASSUME NEW y PROVE y \in ToSet(Append(s, x)) <=> y \in ToSet(s) \/ y = x
  BY <1>1, <1>2, <1>3 DEF ToSet
<1>5. QED
  BY <1>1, <1>4

LEMMA SetOfBoth ==
  ASSUME NEW A, NEW s \in Seq(A), NEW t \in Seq(A)
  PROVE  s \o t \in Seq(A) /\ ToSet(s \o t) = ToSet(s) \cup ToSet(t)
<1>1. s \o t \in Seq(A) /\ Len(s \o t) = Len(s) + Len(t) /\ Len(s) \in Nat /\ Len(t) \in Nat
  OBVIOUS
<1>2. \A i \in 1 .. Len(s \o t) : (s \o t)[i] = IF i <= Len(s) THEN s[i] ELSE t[i - Len(s)]
  OBVIOUS
<1>3. \A i \in 1 .. Len(t) : i + Len(s) \in 1 .. Len(s \o t) /\ (s \o t)[i + Len(s)] = t[i]
  BY <1>1, <1>2
<1>4. DOMAIN (s \o t) = 1 .. Len(s \o t) /\ DOMAIN s = 1 .. Len(s) /\ DOMAIN t = 1 .. Len(t)
  BY <1>1
<1>5. ASSUME NEW y, y \in ToSet(s \o t) PROVE y \in ToSet(s) \/ y \in ToSet(t)
  <2>1. PICK i \in 1 .. Len(s \o t) : y = (s \o t)[i]
    BY <1>4, <1>5 DEF ToSet
  <2>2. CASE i <= Len(s)
    BY <1>1, <1>2, <1>4, <2>1, <2>2 DEF ToSet
  <2>3. CASE ~ (i <= Len(s))
    <3>1. i - Len(s) \in 1 .. Len(t) /\ y = t[i - Len(s)]
      BY <1>1, <1>2, <2>1, <2>3
    <3>2. QED
      BY <1>4, <3>1 DEF ToSet
  <2>4. QED
    BY <2>2, <2>3
<1>6. ASSUME NEW y, y \in ToSet(s) \/ y \in ToSet(t) PROVE y \in ToSet(s \o t)
  <2>1. CASE y \in ToSet(s)
    <3>1. PICK i \in 1 .. Len(s) : y = s[i]
      BY <1>4, <2>1 DEF ToSet
    <3>2. i \in 1 .. Len(s \o t) /\ (s \o t)[i] = y
      BY <1>1, <1>2, <3>1
    <3>3. QED
      BY <1>4, <3>2 DEF ToSet
  <2>2. CASE y \in ToSet(t)
    <3>1. PICK i \in 1 .. Len(t) : y = t[i]
      BY <1>4, <2>2 DEF ToSet
    <3>2. QED
      BY <1>3, <1>4, <3>1 DEF ToSet
  <2>3. QED
    BY <1>6, <2>1, <2>2
<1>7. QED
  BY <1>1, <1>5, <1>6

LEMMA SetOfNone ==
  ASSUME NEW A, NEW s \in Seq(A)
  PROVE  ToSet(<<>>) = {} /\ ToSet(s) \subseteq A /\ (s # <<>> <=> ToSet(s) # {})
<1>1. DOMAIN s = 1 .. Len(s) /\ Len(s) \in Nat
  OBVIOUS
<1>2. s # <<>> => 1 \in DOMAIN s
  OBVIOUS
<1>3. QED
  BY <1>1, <1>2 DEF ToSet

LEMMA WithoutFacts ==
  ASSUME NEW A, NEW s \in Seq(A), NEW gone
  PROVE  Without(s, gone) \in Seq(A) /\ ToSet(Without(s, gone)) = ToSet(s) \ gone
<1>1. PICK a : /\ a[0] = <<>> /\ Without(s, gone) = a[Len(s)]
               /\ \A m \in 1 .. Len(s) : a[m] = Keep(a[m - 1], s[m], gone)
  BY WithoutSteps
<1> DEFINE First(m) == {s[i] : i \in 1 .. m}
           good == {m \in 0 .. Len(s) : a[m] \in Seq(A) /\ ToSet(a[m]) = First(m) \ gone}
<1>2. Len(s) \in Nat /\ DOMAIN s = 1 .. Len(s)
  OBVIOUS
<1>3. 0 \in good
  <2>1. First(0) = {} /\ 0 \in 0 .. Len(s) /\ <<>> \in Seq(A)
    BY <1>2
  <2> HIDE DEF First
  <2>2. QED
    BY <1>1, <2>1, SetOfNone
<1>4. ASSUME NEW m \in 1 .. Len(s), m - 1 \in good PROVE m \in good
  <2>1. First(m) = First(m - 1) \cup {s[m]}
    <3>1. 1 .. m = (1 .. (m - 1)) \cup {m}
      OBVIOUS
    <3>2. QED
      BY <3>1
  <2>2. a[m - 1] \in Seq(A) /\ ToSet(a[m - 1]) = First(m - 1) \ gone
    BY <1>4
  <2>3. a[m] = Keep(a[m - 1], s[m], gone) /\ s[m] \in A
    BY <1>1, <1>2
  <2>4. /\ Append(a[m - 1], s[m]) \in Seq(A)
        /\ ToSet(Append(a[m - 1], s[m])) = ToSet(a[m - 1]) \cup {s[m]}
    BY <2>2, <2>3, SetOfAppend
  <2>5. m \in 0 .. Len(s)
    BY <1>2
  <2> HIDE DEF First
  <2>6. QED
    BY <2>1, <2>2, <2>3, <2>4, <2>5 DEF Keep
<1>5. Len(s) \in good
  <2> HIDE DEF good
  <2>1. \A m \in 0 .. Len(s) : m \in good
    BY <1>2, <1>3, <1>4, Climb
  <2>2. QED
    BY <1>2, <2>1
<1>6. First(Len(s)) = ToSet(s)
  BY <1>2 DEF ToSet
<1> HIDE DEF First
<1>7. QED
  BY <1>1, <1>5, <1>6

-----------------------------------------------------------------------------
\* One step of Keyed.
Put(m, c) == Append(Without(m, About(c)), c)

LEMMA AboutIs ==
  ASSUME NEW c \in Client
  PROVE  \A x \in Client : x \in About(c) <=> Key(x) = Key(c)
<1>1. \A x \in Client : /\ x = [dst |-> x.dst, port |-> x.port, verdict |-> x.verdict]
                        /\ x.verdict \in BOOLEAN
  BY DEF Client
<1>2. \A v \in BOOLEAN : [c EXCEPT !.verdict = v] = [dst |-> c.dst, port |-> c.port, verdict |-> v]
  BY DEF Client
<1>3. QED
  BY <1>1, <1>2 DEF About, Key

LEMMA PutFacts ==
  ASSUME NEW m \in Seq(Client), NEW c \in Client
  PROVE  /\ Put(m, c) \in Seq(Client)
         /\ ToSet(Put(m, c)) = (ToSet(m) \ About(c)) \cup {c}
<1>1. Without(m, About(c)) \in Seq(Client) /\ ToSet(Without(m, About(c))) = ToSet(m) \ About(c)
  BY WithoutFacts
<1>2. QED
  BY <1>1, SetOfAppend DEF Put

LEMMA KeyedSteps ==
  ASSUME NEW s \in Seq(Client)
  PROVE  \E a : /\ a[0] = <<>> /\ Keyed(s) = a[Len(s)]
                /\ \A m \in 1 .. Len(s) : a[m] = Put(a[m - 1], s[m])
<1> DEFINE n == Len(s)
           V == Seq(Client)
           step == [p \in V \X (1 .. n) |-> Put(p[1], s[p[2]])]
           it == CHOOSE h : h = [T \in SUBSET DOMAIN s |->
                                   IF T = {} THEN <<>> ELSE Put(h[T \ {Max(T)}], s[Max(T)])]
<1>1. n \in Nat /\ DOMAIN s = 1 .. n
  OBVIOUS
<1>2. step \in [V \X (1 .. n) -> V]
  <2>1. \A v \in V, m \in 1 .. n : Put(v, s[m]) \in V
    BY <1>1, PutFacts
  <2>2. QED
    BY <2>1
<1>3. PICK g : IsTable(g, V, n, step, <<>>)
  <2>1. <<>> \in V
    OBVIOUS
  <2> HIDE DEF V, n, step
  <2>2. QED
    BY <1>1, <1>2, <2>1, Tables
<1>4. \A T \in SUBSET (1 .. n) : T # {} => Max(T) \in T
  BY <1>1, MaxOfSome
<1>5. g = [T \in SUBSET DOMAIN s |->
             IF T = {} THEN <<>> ELSE Put(g[T \ {Max(T)}], s[Max(T)])]
  <2>1. ASSUME NEW T \in SUBSET (1 .. n), T # {}
        PROVE  g[T] = Put(g[T \ {Max(T)}], s[Max(T)])
    <3>1. g[T] = step[<<g[T \ {Max(T)}], Max(T)>>]
      BY <1>3, <2>1 DEF IsTable
    <3>2. T \ {Max(T)} \in SUBSET (1 .. n) /\ Max(T) \in 1 .. n
      BY <1>4, <2>1
    <3>3. g[T \ {Max(T)}] \in V
      BY <1>3, <3>2 DEF IsTable
    <3> HIDE DEF V, n
    <3>4. QED
      BY <3>1, <3>2, <3>3
  <2>2. g \in [SUBSET DOMAIN s -> V] /\ g[{}] = <<>>
    BY <1>1, <1>3 DEF IsTable
  <2> HIDE DEF V, n, step
  <2>3. QED
    BY <1>1, <2>1, <2>2
<1>6. it = [T \in SUBSET DOMAIN s |->
              IF T = {} THEN <<>> ELSE Put(it[T \ {Max(T)}], s[Max(T)])]
  BY <1>5, Zenon
<1>7. Keyed(s) = it[DOMAIN s]
  BY DEF Keyed, FoldLeft, MapThenFoldSet, Put
<1> DEFINE a == [m \in 0 .. n |-> it[1 .. m]]
<1> HIDE DEF it
<1>8. \A T \in SUBSET (1 .. n) :
        it[T] = IF T = {} THEN <<>> ELSE Put(it[T \ {Max(T)}], s[Max(T)])
  BY <1>1, <1>6
<1>9. a[0] = <<>> /\ Keyed(s) = a[n]
  <2>1. 1 .. 0 = {}
    OBVIOUS
  <2>2. it[{}] = <<>>
    BY <1>8
  <2>3. 0 \in 0 .. n /\ n \in 0 .. n
    BY <1>1
  <2>4. QED
    BY <1>1, <1>7, <2>1, <2>2, <2>3
<1>10. ASSUME NEW m \in 1 .. n PROVE a[m] = Put(a[m - 1], s[m])
  <2>1. /\ 1 .. m \in SUBSET (1 .. n) /\ 1 .. m # {}
        /\ Max(1 .. m) = m /\ (1 .. m) \ {Max(1 .. m)} = 1 .. (m - 1)
    BY <1>1, MaxOfPrefix
  <2>2. it[1 .. m] = Put(it[1 .. (m - 1)], s[m])
    BY <1>8, <2>1
  <2>3. QED
    BY <2>2
<1>11. QED
  BY <1>9, <1>10

LEMMA KeyedFacts ==
  ASSUME NEW s \in Seq(Client)
  PROVE  /\ Keyed(s) \in Seq(Client) /\ ToSet(Keyed(s)) \subseteq ToSet(s)
         /\ \A c \in ToSet(s) : \E d \in ToSet(Keyed(s)) : Key(d) = Key(c)
<1>1. PICK a : /\ a[0] = <<>> /\ Keyed(s) = a[Len(s)]
               /\ \A m \in 1 .. Len(s) : a[m] = Put(a[m - 1], s[m])
  BY KeyedSteps
<1> DEFINE First(m) == {s[i] : i \in 1 .. m}
           Right(m) == /\ a[m] \in Seq(Client) /\ ToSet(a[m]) \subseteq First(m)
                       /\ \A c \in First(m) : \E d \in ToSet(a[m]) : Key(d) = Key(c)
           good == {m \in 0 .. Len(s) : Right(m)}
<1>2. Len(s) \in Nat /\ DOMAIN s = 1 .. Len(s)
  OBVIOUS
<1>3. 0 \in good
  <2>1. First(0) = {} /\ 0 \in 0 .. Len(s) /\ <<>> \in Seq(Client)
    BY <1>2
  <2> HIDE DEF First
  <2>2. QED
    BY <1>1, <2>1, SetOfNone
<1>4. ASSUME NEW m \in 1 .. Len(s), m - 1 \in good PROVE m \in good
  <2>1. First(m) = First(m - 1) \cup {s[m]}
    <3>1. 1 .. m = (1 .. (m - 1)) \cup {m}
      OBVIOUS
    <3>2. QED
      BY <3>1
  <2>2. Right(m - 1)
    BY <1>4
  <2>3. a[m] = Put(a[m - 1], s[m]) /\ s[m] \in Client
    BY <1>1, <1>2
  <2>4. a[m] \in Seq(Client) /\ ToSet(a[m]) = (ToSet(a[m - 1]) \ About(s[m])) \cup {s[m]}
    BY <2>2, <2>3, PutFacts
  <2>5. m \in 0 .. Len(s)
    BY <1>2
  <2>6. ASSUME NEW c \in First(m) PROVE \E d \in ToSet(a[m]) : Key(d) = Key(c)
    <3>1. CASE c = s[m]
      BY <2>4, <3>1
    <3>2. CASE c \in First(m - 1)
      <4> HIDE DEF First
      <4>1. PICK d \in ToSet(a[m - 1]) : Key(d) = Key(c)
        BY <2>2, <3>2
      <4>2. d \in Client
        BY <2>2, SetOfNone
      <4>3. CASE d \in About(s[m])
        <5>1. Key(d) = Key(s[m])
          BY <2>3, <4>2, <4>3, AboutIs
        <5>2. QED
          BY <2>4, <4>1, <5>1
      <4>4. CASE d \notin About(s[m])
        BY <2>4, <4>1, <4>4
      <4>5. QED
        BY <4>3, <4>4
    <3> HIDE DEF First
    <3>3. QED
      BY <2>1, <2>6, <3>1, <3>2
  <2> HIDE DEF First
  <2>7. Right(m)
    BY <2>1, <2>2, <2>4, <2>6
  <2> HIDE DEF Right
  <2>8. QED
    BY <2>5, <2>7
<1>5. Len(s) \in good
  <2> HIDE DEF good
  <2>1. \A m \in 0 .. Len(s) : m \in good
    BY <1>2, <1>3, <1>4, Climb
  <2>2. QED
    BY <1>2, <2>1
<1>6. First(Len(s)) = ToSet(s)
  BY <1>2 DEF ToSet
<1> HIDE DEF First
<1>7. QED
  BY <1>1, <1>5, <1>6

-----------------------------------------------------------------------------
(* What the records hold.                                                  *)

\* All that recs has is in more.
Grown(recs, more) ==
  \A e \in Endpoints : recs[e] # None =>
    /\ more[e] # None
    /\ recs[e].servers \subseteq more[e].servers
    /\ ToSet(recs[e].clients) \subseteq ToSet(more[e].clients)

LEMMA RecordParts ==
  ASSUME NEW x \in Record
  PROVE  x # None /\ x.servers \in SUBSET Ports /\ x.clients \in Seq(Client)
BY ControllerAssumption DEF Record

LEMMA NewRecordFacts ==
  NewRecord \in Record /\ NewRecord # None /\ NewRecord.servers = {} /\ ToSet(NewRecord.clients) = {}
<1>1. <<>> \in Seq(Client) /\ ToSet(<<>>) = {}
  <2>1. <<>> \in Seq(Client)
    OBVIOUS
  <2>2. QED
    BY <2>1, SetOfNone
<1>2. NewRecord \in Record /\ NewRecord.servers = {} /\ NewRecord.clients = <<>>
  BY <1>1 DEF NewRecord, Record
<1>3. QED
  BY <1>1, <1>2, RecordParts

LEMMA AddClientFacts ==
  ASSUME NEW s \in Seq(Client), NEW c \in Client
  PROVE  AddClient(s, c) \in Seq(Client) /\ ToSet(AddClient(s, c)) = ToSet(s) \cup {c}
<1>1. Without(s, {c}) \in Seq(Client) /\ ToSet(Without(s, {c})) = ToSet(s) \ {c}
  BY WithoutFacts
<1> DEFINE w == Without(s, {c})
<1> HIDE DEF w
<1>2. Append(w, c) \in Seq(Client) /\ ToSet(Append(w, c)) = ToSet(w) \cup {c}
  BY <1>1, SetOfAppend DEF w
<1>3. AddClient(s, c) = Append(w, c)
  BY DEF AddClient, w
<1>4. ToSet(w) \cup {c} = ToSet(s) \cup {c}
  BY <1>1 DEF w
<1>5. QED
  BY <1>2, <1>3, <1>4

LEMMA AddRuleFacts ==
  ASSUME NEW recs \in Recs, NEW r \in Rules
  PROVE  /\ AddRule(recs, r) \in Recs
         /\ Grown(recs, AddRule(recs, r))
         /\ Holds(AddRule(recs, r), r)
         /\ Closed(recs) => Closed(AddRule(recs, r))
<1> DEFINE old == [e \in Endpoints |-> IF recs[e] = None /\ e \in {r.src, r.dst} THEN NewRecord
                                       ELSE recs[e]]
           srv == [old EXCEPT ![r.dst].servers = @ \cup {r.port}]
           new == AddRule(recs, r)
           c == [dst |-> r.dst, port |-> r.port, verdict |-> r.verdict]
<1>1. r.src \in Endpoints /\ r.dst \in Endpoints /\ r.port \in Ports /\ r.verdict \in BOOLEAN
  BY DEF Rules
<1>2. c \in Client /\ c = ClientOf(r)
  BY <1>1 DEF Client, ClientOf
<1>3. /\ old \in Recs /\ old[r.src] \in Record /\ old[r.dst] \in Record
      /\ \A e \in Endpoints : recs[e] # None => old[e] = recs[e]
      /\ \A e \in Endpoints : (recs[e] = None /\ e \in {r.src, r.dst}) => old[e] = NewRecord
      /\ \A e \in Endpoints : (recs[e] = None /\ e \notin {r.src, r.dst}) => old[e] = None
  BY <1>1, NewRecordFacts DEF Recs
<1>4. /\ srv \in [Endpoints -> Record \cup {None}] /\ srv[r.src] \in Record /\ srv[r.dst] \in Record
      /\ srv[r.dst].servers = old[r.dst].servers \cup {r.port}
      /\ srv[r.dst].clients = old[r.dst].clients
      /\ \A e \in Endpoints : e # r.dst => srv[e] = old[e]
  <2> DEFINE w == [old[r.dst] EXCEPT !.servers = @ \cup {r.port}]
  <2>1. w \in Record
    BY <1>1, <1>3 DEF Record
  <2>2. \A e \in Endpoints : srv[e] = IF e = r.dst THEN w ELSE old[e]
    BY <1>1, <1>3 DEF Recs
  <2>3. DOMAIN srv = Endpoints /\ srv = [e \in Endpoints |-> srv[e]]
    BY <1>3 DEF Recs
  <2>4. w.servers = old[r.dst].servers \cup {r.port} /\ w.clients = old[r.dst].clients
    BY <1>3 DEF Record
  <2> HIDE DEF srv, old, w
  <2>5. QED
    BY <1>1, <1>3, <2>1, <2>2, <2>3, <2>4 DEF Recs
<1>5. new = [srv EXCEPT ![r.src].clients = AddClient(@, c)]
  BY DEF AddRule
<1> HIDE DEF srv, old, new
<1>6. srv[r.src].clients \in Seq(Client)
  BY <1>4, RecordParts
<1> DEFINE cs == AddClient(srv[r.src].clients, c)
<1>7. cs \in Seq(Client) /\ ToSet(cs) = ToSet(srv[r.src].clients) \cup {c}
  BY <1>2, <1>6, AddClientFacts
<1> HIDE DEF cs, c
<1>8. /\ new \in Recs /\ new[r.src] \in Record
      /\ new[r.src].clients = cs /\ new[r.src].servers = srv[r.src].servers
      /\ \A e \in Endpoints : e # r.src => new[e] = srv[e]
  <2> DEFINE w == [srv[r.src] EXCEPT !.clients = cs]
  <2>1. w \in Record /\ w.clients = cs /\ w.servers = srv[r.src].servers
    BY <1>4, <1>7 DEF Record
  <2>2. new = [srv EXCEPT ![r.src] = w]
    BY <1>1, <1>4, <1>5 DEF cs
  <2> HIDE DEF w
  <2>3. QED
    BY <1>1, <1>4, <2>1, <2>2 DEF Recs
<1>9. new[r.dst] \in Record /\ r.port \in new[r.dst].servers
  BY <1>1, <1>4, <1>8
<1>10. \A e \in Endpoints : recs[e] # None =>
         /\ srv[e] # None /\ recs[e].servers \subseteq srv[e].servers
         /\ srv[e].clients = recs[e].clients
  BY <1>1, <1>3, <1>4, RecordParts
<1>11. \A e \in Endpoints : srv[e] # None =>
         /\ new[e] # None /\ new[e].servers = srv[e].servers
         /\ ToSet(srv[e].clients) \subseteq ToSet(new[e].clients)
  BY <1>1, <1>4, <1>7, <1>8, RecordParts
<1>12. Grown(recs, new)
  BY <1>10, <1>11 DEF Grown
<1>13. Holds(new, r)
  BY <1>1, <1>2, <1>7, <1>8, <1>9, RecordParts DEF Holds
<1>14. ASSUME Closed(recs), NEW e \in Endpoints, new[e] # None, NEW d \in ToSet(new[e].clients)
       PROVE  new[d.dst] # None /\ d.port \in new[d.dst].servers
  <2>1. CASE d = c
    BY <1>1, <1>9, <2>1, RecordParts DEF c
  <2>2. CASE d # c
    <3>1. srv[e] # None /\ d \in ToSet(srv[e].clients)
      BY <1>1, <1>4, <1>7, <1>8, <1>14, <2>2, RecordParts
    <3>2. recs[e] # None
      <4>1. CASE recs[e] = None /\ e \in {r.src, r.dst}
        <5>1. old[e] = NewRecord /\ srv[e].clients = old[e].clients
          BY <1>3, <1>4, <4>1
        <5>2. QED
          BY <3>1, <5>1, NewRecordFacts
      <4>2. CASE recs[e] = None /\ e \notin {r.src, r.dst}
        BY <1>3, <1>4, <3>1, <4>2
      <4>3. QED
        BY <4>1, <4>2
    <3>3. d \in ToSet(recs[e].clients)
      BY <1>10, <3>1, <3>2
    <3>4. recs[e].clients \in Seq(Client)
      BY <3>2, RecordParts DEF Recs
    <3>5. d \in Client /\ d.dst \in Endpoints
      <4>1. d \in Client
        BY <3>3, <3>4, SetOfNone
      <4>2. QED
        BY <4>1 DEF Client
    <3>6. recs[d.dst] # None /\ d.port \in recs[d.dst].servers
      BY <1>14, <3>2, <3>3 DEF Closed
    <3>7. QED
      BY <1>12, <3>5, <3>6 DEF Grown
  <2>3. QED
    BY <2>1, <2>2
<1>15. QED
  BY <1>8, <1>12, <1>13, <1>14 DEF Closed, new

LEMMA CreateSteps ==
  ASSUME NEW recs \in Recs, NEW s \in Seq(Rules)
  PROVE  \E a : /\ a[0] = recs /\ Create(recs, s) = a[Len(s)]
                /\ \A m \in 1 .. Len(s) : a[m] = AddRule(a[m - 1], s[m])
<1> DEFINE n == Len(s)
           V == Recs
           step == [p \in V \X (1 .. n) |-> AddRule(p[1], s[p[2]])]
           it == CHOOSE h : h = [T \in SUBSET DOMAIN s |->
                                   IF T = {} THEN recs ELSE AddRule(h[T \ {Max(T)}], s[Max(T)])]
<1>1. n \in Nat /\ DOMAIN s = 1 .. n
  OBVIOUS
<1>2. step \in [V \X (1 .. n) -> V]
  <2>1. \A v \in V, m \in 1 .. n : AddRule(v, s[m]) \in V
    BY <1>1, AddRuleFacts
  <2> HIDE DEF V
  <2>2. QED
    BY <2>1
<1>3. PICK g : IsTable(g, V, n, step, recs)
  <2>1. recs \in V
    OBVIOUS
  <2> HIDE DEF V, n, step
  <2>2. QED
    BY <1>1, <1>2, <2>1, Tables
<1>4. \A T \in SUBSET (1 .. n) : T # {} => Max(T) \in T
  BY <1>1, MaxOfSome
<1>5. g = [T \in SUBSET DOMAIN s |->
             IF T = {} THEN recs ELSE AddRule(g[T \ {Max(T)}], s[Max(T)])]
  <2>1. ASSUME NEW T \in SUBSET (1 .. n), T # {}
        PROVE  g[T] = AddRule(g[T \ {Max(T)}], s[Max(T)])
    <3>1. g[T] = step[<<g[T \ {Max(T)}], Max(T)>>]
      BY <1>3, <2>1 DEF IsTable
    <3>2. T \ {Max(T)} \in SUBSET (1 .. n) /\ Max(T) \in 1 .. n
      BY <1>4, <2>1
    <3>3. g[T \ {Max(T)}] \in V
      BY <1>3, <3>2 DEF IsTable
    <3> HIDE DEF V, n
    <3>4. QED
      BY <3>1, <3>2, <3>3
  <2>2. g \in [SUBSET DOMAIN s -> V] /\ g[{}] = recs
    BY <1>1, <1>3 DEF IsTable
  <2> HIDE DEF V, n, step
  <2>3. QED
    BY <1>1, <2>1, <2>2
<1>6. it = [T \in SUBSET DOMAIN s |->
              IF T = {} THEN recs ELSE AddRule(it[T \ {Max(T)}], s[Max(T)])]
  BY <1>5, Zenon
<1>7. Create(recs, s) = it[DOMAIN s]
  BY DEF Create, FoldLeft, MapThenFoldSet
<1> DEFINE a == [m \in 0 .. n |-> it[1 .. m]]
<1> HIDE DEF it
<1>8. \A T \in SUBSET (1 .. n) :
        it[T] = IF T = {} THEN recs ELSE AddRule(it[T \ {Max(T)}], s[Max(T)])
  BY <1>1, <1>6
<1>9. a[0] = recs /\ Create(recs, s) = a[n]
  <2>1. 1 .. 0 = {}
    OBVIOUS
  <2>2. it[{}] = recs
    BY <1>8
  <2>3. 0 \in 0 .. n /\ n \in 0 .. n
    BY <1>1
  <2>4. QED
    BY <1>1, <1>7, <2>1, <2>2, <2>3
<1>10. ASSUME NEW m \in 1 .. n PROVE a[m] = AddRule(a[m - 1], s[m])
  <2>1. /\ 1 .. m \in SUBSET (1 .. n) /\ 1 .. m # {}
        /\ Max(1 .. m) = m /\ (1 .. m) \ {Max(1 .. m)} = 1 .. (m - 1)
    BY <1>1, MaxOfPrefix
  <2>2. it[1 .. m] = AddRule(it[1 .. (m - 1)], s[m])
    BY <1>8, <2>1
  <2>3. QED
    BY <2>2
<1>11. QED
  BY <1>9, <1>10

LEMMA GrownOn ==
  ASSUME NEW x, NEW y, NEW z, Grown(x, y), Grown(y, z)
  PROVE  Grown(x, z)
BY DEF Grown

LEMMA HoldsOn ==
  ASSUME NEW x, NEW y, Grown(x, y), NEW r \in Rules, Holds(x, r)
  PROVE  Holds(y, r)
<1>1. r.src \in Endpoints /\ r.dst \in Endpoints
  BY DEF Rules
<1>2. QED
  BY <1>1 DEF Grown, Holds

LEMMA CreateFacts ==
  ASSUME NEW recs \in Recs, NEW s \in Seq(Rules)
  PROVE  /\ Create(recs, s) \in Recs
         /\ Grown(recs, Create(recs, s))
         /\ \A r \in ToSet(s) : Holds(Create(recs, s), r)
         /\ Closed(recs) => Closed(Create(recs, s))
<1>1. PICK a : /\ a[0] = recs /\ Create(recs, s) = a[Len(s)]
               /\ \A m \in 1 .. Len(s) : a[m] = AddRule(a[m - 1], s[m])
  BY CreateSteps
<1> DEFINE Right(m) == /\ a[m] \in Recs /\ Grown(recs, a[m])
                       /\ \A i \in 1 .. m : Holds(a[m], s[i])
                       /\ Closed(recs) => Closed(a[m])
           good == {m \in 0 .. Len(s) : Right(m)}
<1>2. Len(s) \in Nat /\ DOMAIN s = 1 .. Len(s)
  OBVIOUS
<1>3. 0 \in good
  <2>1. 0 \in 0 .. Len(s) /\ 1 .. 0 = {}
    BY <1>2
  <2>2. Right(0)
    BY <1>1, <2>1 DEF Grown
  <2> HIDE DEF Right
  <2>3. QED
    BY <2>1, <2>2
<1>4. ASSUME NEW m \in 1 .. Len(s), m - 1 \in good PROVE m \in good
  <2>1. Right(m - 1)
    BY <1>4
  <2>2. a[m] = AddRule(a[m - 1], s[m]) /\ s[m] \in Rules
    BY <1>1, <1>2
  <2>3. /\ a[m] \in Recs /\ Grown(a[m - 1], a[m]) /\ Holds(a[m], s[m])
        /\ Closed(a[m - 1]) => Closed(a[m])
    BY <2>1, <2>2, AddRuleFacts
  <2>4. Grown(recs, a[m])
    BY <2>1, <2>3, GrownOn
  <2>5. \A i \in 1 .. (m - 1) : Holds(a[m], s[i])
    <3>1. \A i \in 1 .. (m - 1) : s[i] \in Rules
      BY <1>2
    <3>2. QED
      BY <2>1, <2>3, <3>1, HoldsOn
  <2>6. m \in 0 .. Len(s) /\ \A i \in 1 .. m : i = m \/ i \in 1 .. (m - 1)
    BY <1>2
  <2>7. Right(m)
    BY <2>1, <2>3, <2>4, <2>5, <2>6
  <2> HIDE DEF Right
  <2>8. QED
    BY <2>6, <2>7
<1>5. Len(s) \in good
  <2> HIDE DEF good
  <2>1. \A m \in 0 .. Len(s) : m \in good
    BY <1>2, <1>3, <1>4, Climb
  <2>2. QED
    BY <1>2, <2>1
<1>6. Right(Len(s))
  BY <1>5
<1>7. QED
  BY <1>1, <1>2, <1>6 DEF ToSet

-----------------------------------------------------------------------------
(* What RPCs do to rows.                                                   *)

LEMMA CoversItself ==
  ASSUME NEW rec \in Record
  PROVE  Covers(rec, rec)
BY RecordParts DEF Covers

LEMMA RegisteredFacts ==
  ASSUME NEW row \in Record \cup {None}, NEW rec \in Record
  PROVE  /\ Registered(row, rec) \in Record
         /\ Covers(Registered(row, rec), rec)
         /\ \A most \in Record : (row = None \/ Within(row, most)) /\ Within(rec, most)
              => Within(Registered(row, rec), most)
<1>1. CASE row = None
  BY <1>1, CoversItself DEF Registered
<1>2. CASE row # None
  <2> DEFINE both == row.clients \o rec.clients
             new == [servers |-> row.servers \cup rec.servers, clients |-> Keyed(both)]
  <2>1. row \in Record /\ row.clients \in Seq(Client) /\ rec.clients \in Seq(Client)
    BY <1>2, RecordParts
  <2>2. both \in Seq(Client) /\ ToSet(both) = ToSet(row.clients) \cup ToSet(rec.clients)
    BY <2>1, SetOfBoth
  <2> HIDE DEF both
  <2>3. /\ Keyed(both) \in Seq(Client) /\ ToSet(Keyed(both)) \subseteq ToSet(both)
        /\ \A c \in ToSet(both) : \E d \in ToSet(Keyed(both)) : Key(d) = Key(c)
    BY <2>2, KeyedFacts
  <2>4. Registered(row, rec) = new
    BY <1>2 DEF Registered, both
  <2>5. new \in Record /\ new # None
    <3>1. new \in Record
      BY <2>1, <2>3, RecordParts DEF Record
    <3>2. QED
      BY <3>1, RecordParts
  <2>6. Covers(new, rec)
    BY <2>2, <2>3, <2>5 DEF Covers
  <2>7. QED
    BY <1>2, <2>2, <2>3, <2>4, <2>5, <2>6 DEF Within
<1>3. QED
  BY <1>1, <1>2

LEMMA UnregisteredFacts ==
  ASSUME NEW row \in Record \cup {None}, NEW rec \in Record
  PROVE  /\ Unregistered(row, rec) \in Record \cup {None}
         /\ (row = None) <=> (Unregistered(row, rec) = None)
         /\ row # None =>
              /\ Unregistered(row, rec).servers = row.servers \ rec.servers
              /\ ToSet(Unregistered(row, rec).clients) \subseteq ToSet(row.clients) \ ToSet(rec.clients)
<1>1. CASE row = None
  BY <1>1 DEF Unregistered
<1>2. CASE row # None
  <2> DEFINE gone == UNION {About(c) : c \in ToSet(rec.clients)}
             new == [servers |-> row.servers \ rec.servers,
                     clients |-> Without(Keyed(row.clients), gone)]
  <2>1. row \in Record /\ row.clients \in Seq(Client) /\ rec.clients \in Seq(Client)
    BY <1>2, RecordParts
  <2>2. Keyed(row.clients) \in Seq(Client) /\ ToSet(Keyed(row.clients)) \subseteq ToSet(row.clients)
    BY <2>1, KeyedFacts
  <2>3. ToSet(rec.clients) \subseteq gone
    <3>1. \A c \in ToSet(rec.clients) : c \in Client
      BY <2>1, SetOfNone
    <3>2. \A c \in ToSet(rec.clients) : c \in About(c)
      BY <3>1, AboutIs
    <3>3. QED
      BY <3>2
  <2>4. Unregistered(row, rec) = new
    BY <1>2 DEF Unregistered
  <2> HIDE DEF gone
  <2>5. /\ Without(Keyed(row.clients), gone) \in Seq(Client)
        /\ ToSet(Without(Keyed(row.clients), gone)) = ToSet(Keyed(row.clients)) \ gone
    BY <2>2, WithoutFacts
  <2>6. new \in Record /\ new # None
    <3>1. new \in Record
      BY <2>1, <2>5, RecordParts DEF Record
    <3>2. QED
      BY <3>1, RecordParts
  <2>7. QED
    BY <1>2, <2>2, <2>3, <2>4, <2>5, <2>6
<1>3. QED
  BY <1>1, <1>2

\* What the RPC of the phase makes of the row of endpoint e, and of what runs there.
RowAfter(e) ==
  CASE Head(phases) = "register" ->
         IF records[e] = None THEN rows[e] ELSE Registered(rows[e], records[e])
    [] Head(phases) = "unregister" ->
         IF records[e] = None THEN rows[e] ELSE Unregistered(rows[e], records[e])
    [] Head(phases) = "clear" -> None
    [] OTHER -> rows[e]

RowNow(e) == IF rows[e] = None THEN NewRecord ELSE rows[e]

ServingAfter(e) ==
  CASE Head(phases) = "start_servers" -> serving[e] \cup RowNow(e).servers
    [] Head(phases) = "stop_servers" -> {}
    [] OTHER -> serving[e]

SendingAfter(e) ==
  CASE Head(phases) = "start_clients" ->
         IF sending[e] # {} THEN sending[e] ELSE ToSet(RowNow(e).clients)
    [] Head(phases) = "stop_clients" -> {}
    [] OTHER -> sending[e]

LEMMA AfterTypes ==
  ASSUME Types, NEW e \in Endpoints
  PROVE  /\ RowAfter(e) \in Record \cup {None}
         /\ ServingAfter(e) \in SUBSET Ports /\ SendingAfter(e) \in SUBSET Client
         /\ RowNow(e) \in Record
<1>1. rows[e] \in Record \cup {None} /\ records[e] \in Record \cup {None}
  BY DEF Types, Recs
<1>2. RowNow(e) \in Record
  BY <1>1, NewRecordFacts DEF RowNow
<1>3. RowAfter(e) \in Record \cup {None}
  <2>1. records[e] # None =>
          /\ Registered(rows[e], records[e]) \in Record
          /\ Unregistered(rows[e], records[e]) \in Record \cup {None}
    BY <1>1, RegisteredFacts, UnregisteredFacts
  <2>2. QED
    BY <1>1, <2>1 DEF RowAfter
<1>4. RowNow(e).servers \in SUBSET Ports /\ RowNow(e).clients \in Seq(Client)
  BY <1>2, RecordParts
<1>5. ToSet(RowNow(e).clients) \subseteq Client
  BY <1>4, SetOfNone
<1>6. serving[e] \in SUBSET Ports /\ sending[e] \in SUBSET Client
  BY DEF Types
<1>7. QED
  BY <1>2, <1>3, <1>4, <1>5, <1>6 DEF ServingAfter, SendingAfter

LEMMA EffectIs ==
  ASSUME Types, NEW n, Effect(n)
  PROVE  /\ rows' \in Recs /\ serving' \in [Endpoints -> SUBSET Ports]
         /\ sending' \in [Endpoints -> SUBSET Client]
         /\ \A e \in Endpoints :
              /\ rows'[e] = IF NodeOf(e) = n THEN RowAfter(e) ELSE rows[e]
              /\ serving'[e] = IF NodeOf(e) = n THEN ServingAfter(e) ELSE serving[e]
              /\ sending'[e] = IF NodeOf(e) = n THEN SendingAfter(e) ELSE sending[e]
<1>1. /\ rows' = [e \in Endpoints |-> IF NodeOf(e) = n THEN RowAfter(e) ELSE rows[e]]
      /\ serving' = [e \in Endpoints |-> IF NodeOf(e) = n THEN ServingAfter(e) ELSE serving[e]]
      /\ sending' = [e \in Endpoints |-> IF NodeOf(e) = n THEN SendingAfter(e) ELSE sending[e]]
  BY DEF Effect, RowAfter, ServingAfter, SendingAfter, RowNow, Types, Recs
<1>2. QED
  BY <1>1, AfterTypes DEF Types, Recs

-----------------------------------------------------------------------------
(* The steps.                                                              *)

LEMMA ProgramTails ==
  /\ \A x \in {"nothing", "register", "unregister", "clear", "stop_servers", "start_clients"} :
       <<x>> # <<>> /\ Head(<<x>>) = x /\ Tail(<<x>>) = <<>>
  /\ \A x, y \in {"stop_clients", "stop_servers", "start_servers", "start_clients"} :
       <<x, y>> # <<>> /\ Head(<<x, y>>) = x /\ Tail(<<x, y>>) = <<y>>
  /\ StopThenStart # <<>> /\ Head(StopThenStart) = "stop_servers"
  /\ Tail(StopThenStart) = <<"start_servers", "start_clients">>
  /\ Restarting # <<>> /\ Head(Restarting) = "stop_clients" /\ Tail(Restarting) = StopThenStart
BY DEF StopThenStart, Restarting

\* What may come after the first phase of operation p.
Follows(p) ==
  /\ Tail(p) \in Programs
  /\ Head(p) = "register" <=> p = <<"register">>
  /\ Head(p) = "unregister" <=> p = <<"unregister">>
  /\ Head(p) = "clear" <=> p = <<"clear">>
  /\ Head(p) = "nothing" <=> p = <<"nothing">>
  /\ Head(p) = "stop_clients" <=> p \in {<<"stop_clients", "stop_servers">>, Restarting}
  /\ Head(p) = "stop_servers" <=> p \in {<<"stop_servers">>, StopThenStart}
  /\ Head(p) = "start_servers" <=> p = <<"start_servers", "start_clients">>
  /\ Head(p) = "start_clients" <=> p = <<"start_clients">>
  /\ (Pushed(p) \/ p = <<"nothing">>) => Tail(p) = <<>>
  /\ Tail(p) # <<>> =>
       /\ Tail(p) \notin {<<"nothing">>, <<"stop_clients", "stop_servers">>, Restarting}
       /\ ~ Pushed(Tail(p))
       /\ Head(Tail(p)) = "stop_servers" => Head(p) = "stop_clients"
       /\ Head(Tail(p)) = "start_clients" => Head(p) = "start_servers"
       /\ Starts(Tail(p)) => Starts(p)

LEMMA ProgramFacts == \A p \in Programs : p # <<>> => Follows(p)
<1> DEFINE one == {"nothing", "register", "unregister", "clear", "stop_servers", "start_clients"}
           two == {<<"stop_clients", "stop_servers">>, <<"start_servers", "start_clients">>}
<1>1. ASSUME NEW x \in one PROVE Follows(<<x>>)
  BY <1>1, ProgramTails DEF Follows, Programs, Pushed, Starts, Starting, Restarting, StopThenStart
<1>2. ASSUME NEW p \in two PROVE Follows(p)
  <2>1. Follows(<<"stop_clients", "stop_servers">>)
    BY ProgramTails DEF Follows, Programs, Pushed, Starts, Starting, Restarting, StopThenStart
  <2>2. Follows(<<"start_servers", "start_clients">>)
    BY ProgramTails DEF Follows, Programs, Pushed, Starts, Starting, Restarting, StopThenStart
  <2>3. QED
    BY <2>1, <2>2
<1>3. Follows(StopThenStart)
  BY ProgramTails DEF Follows, Programs, Pushed, Starts, Starting, Restarting, StopThenStart
<1>4. Follows(Restarting)
  BY ProgramTails DEF Follows, Programs, Pushed, Starts, Starting, Restarting, StopThenStart
<1>5. ASSUME NEW p \in Programs, p # <<>>
      PROVE  (\E x \in one : p = <<x>>) \/ p \in two \/ p \in {StopThenStart, Restarting}
  BY <1>5 DEF Programs, Starting
<1>6. QED
  BY <1>1, <1>2, <1>3, <1>4, <1>5

LEMMA NodeFacts ==
  ASSUME Types
  PROVE  /\ \A e \in Endpoints : NodeOf(e) \in Nodes
         /\ \A recs : NodesOf(recs) \subseteq Nodes
         /\ \A ns \in Targets : ns \subseteq Nodes
<1>1. \A e \in Endpoints : NodeOf(e) \in Nodes
  BY DEF NodeOf, Nodes
<1>2. \A recs : NodesOf(recs) \subseteq Nodes
  BY <1>1 DEF NodesOf
<1>3. QED
  BY <1>1, <1>2 DEF Targets, Known

LEMMA OfferedRules ==
  /\ \A c \in Configs : c \in Seq(Rules) /\ ToSet(c) \subseteq Rules
  /\ Offered \subseteq Rules
<1>1. \A c \in Configs : c \in Seq(Rules)
  BY ControllerAssumption
<1>2. \A c \in Configs : ToSet(c) \subseteq Rules
  BY <1>1, SetOfNone
<1>3. QED
  BY <1>1, <1>2 DEF Offered

LEMMA SameNodes ==
  ASSUME strict' = strict
  PROVE  /\ \A e \in Endpoints : NodeOf(e)' = NodeOf(e)
         /\ Known' = NodesOf(records')
BY DEF NodeOf, NodesOf, Known

\* An operation begins.
LEMMA OperateTypes ==
  ASSUME Types, NEW recs \in Recs, NEW todo \in Programs \ {<<>>}, NEW ns, ns \subseteq Nodes,
         Operate(recs, todo, ns), given' \subseteq Offered
  PROVE  Types'
BY DEF Types, Operate, mode, node, Nodes

LEMMA OperateProgress ==
  ASSUME Types, NEW recs, NEW todo \in Programs \ {<<>>}, NEW ns,
         Head(todo) \notin {"stop_servers", "start_clients"},
         Head(todo) = "register" => ns = NodesOf(recs),
         Operate(recs, todo, ns)
  PROVE  Progress'
<1>1. \A e : ~ Answered(e)'
  BY DEF Operate, Answered
<1>2. phases' = todo /\ (Head(todo) = "register" => target' = Known')
  BY SameNodes DEF Operate, mode
<1>3. QED
  BY <1>1, <1>2 DEF Progress

LEMMA PushInv ==
  ASSUME PInv, NEW config \in Configs, NEW rpc \in {"register", "unregister"},
         Push(config, rpc), given' \subseteq given \cup ToSet(config)
  PROVE  PInv'
<1> DEFINE recs == Create(records, config)
<1>1. config \in Seq(Rules) /\ ToSet(config) \subseteq Offered
  BY OfferedRules DEF Offered
<1>2. Types /\ records \in Recs /\ given \subseteq Offered /\ Offered \subseteq Rules
  BY OfferedRules DEF PInv, Types
<1>3. /\ recs \in Recs /\ Grown(records, recs)
      /\ \A r \in ToSet(config) : Holds(recs, r)
  BY <1>1, <1>2, CreateFacts
<1>4. Operate(recs, <<rpc>>, NodesOf(recs)) /\ records' = recs
  BY DEF Push, Operate
<1>5. <<rpc>> \in Programs \ {<<>>} /\ Head(<<rpc>>) = rpc
  BY DEF Programs
<1> HIDE DEF recs
<1>6. Types'
  BY <1>1, <1>2, <1>3, <1>4, <1>5, NodeFacts, OperateTypes
<1>7. Progress'
  BY <1>2, <1>4, <1>5, OperateProgress
<1>8. GivenHeld'
  <2>1. \A r \in given : Holds(recs, r)
    BY <1>2, <1>3, HoldsOn DEF PInv, GivenHeld
  <2>2. \A r \in given' : Holds(records', r)
    BY <1>3, <1>4, <2>1
  <2>3. \A r : Holds(records, r)' <=> Holds(records', r)
    BY DEF Holds
  <2>4. QED
    BY <2>2, <2>3 DEF GivenHeld
<1>9. QED
  BY <1>6, <1>7, <1>8 DEF PInv

\* Operations that leave the records as they are.
LEMMA OtherInv ==
  ASSUME PInv, NEW ns \in Targets, NEW todo \in Programs \ {<<>>},
         Head(todo) \in {"stop_clients", "start_servers", "clear"},
         Operate(records, todo, ns), given' \subseteq given
  PROVE  PInv'
<1>1. Types /\ records \in Recs /\ given' \subseteq Offered /\ ns \subseteq Nodes
  BY NodeFacts DEF PInv, Types
<1>2. Types'
  BY <1>1, OperateTypes
<1>3. Progress'
  BY <1>1, OperateProgress
<1>4. records' = records
  BY DEF Operate
<1>5. GivenHeld'
  BY <1>4 DEF PInv, GivenHeld, Holds
<1>6. QED
  BY <1>2, <1>3, <1>5 DEF PInv

LEMMA NextPhaseInv ==
  ASSUME PInv, NextPhase
  PROVE  PInv'
<1>1. phases \in Programs \ {<<>>} /\ waiting = {}
  BY DEF PInv, Types, NextPhase
<1>2. Follows(phases)
  BY <1>1, ProgramFacts
<1>3. phases' = <<>> \/ (phases' # <<>> /\ phases' = Tail(phases) /\ target' = target)
  BY DEF NextPhase
<1>4. phases' \in Programs
  BY <1>2, <1>3 DEF Follows, Programs
<1>5. Types'
  BY <1>4 DEF PInv, Types, NextPhase, mode, node, Nodes
<1>6. GivenHeld'
  BY DEF PInv, GivenHeld, Holds, NextPhase
<1>7. Progress'
  <2>1. SUFFICES ASSUME phases' # <<>>, ~ failed'
                 PROVE  Progress'
    BY DEF Progress
  <2>2. /\ phases' = Tail(phases) /\ target' = target /\ ~ failed
        /\ rows' = rows /\ serving' = serving /\ sending' = sending
    BY <2>1 DEF NextPhase, node
  <2>3. \A e : ~ Answered(e)'
    BY <2>1 DEF NextPhase, Answered
  <2>4. strict' = strict /\ \A e \in Endpoints : NodeOf(e)' = NodeOf(e)
    BY SameNodes DEF NextPhase, mode
  <2>5. \A e \in Endpoints : NodeOf(e) \in target => Answered(e)
    BY <1>1 DEF Answered
  <2>6. Head(phases') # "register" /\ Head(phases') # "stop_clients"
    BY <1>2, <1>4, <2>1, <2>2, ProgramFacts DEF Follows, Pushed
  <2>7. Head(phases') = "stop_servers" => \A e \in Endpoints : NodeOf(e) \in target => sending[e] = {}
    BY <1>1, <1>2, <2>1, <2>2, <2>5 DEF Follows, PInv, Progress
  <2>8. Head(phases') = "start_clients" => \A e \in Endpoints : NodeOf(e) \in target => ServersRun(e)
    BY <1>1, <1>2, <2>1, <2>2, <2>5 DEF Follows, PInv, Progress
  <2>9. \A e : ServersRun(e)' <=> ServersRun(e)
    BY <2>2 DEF ServersRun
  <2>10. QED
    BY <2>2, <2>3, <2>4, <2>6, <2>7, <2>8, <2>9 DEF Progress
<1>8. QED
  BY <1>5, <1>6, <1>7 DEF PInv

\* Answers to RPCs that have had an effect.
LEMMA EffectInv ==
  ASSUME PInv, NEW n \in Nodes, NEW ok \in BOOLEAN, Answer(n, ok), Effect(n)
  PROVE  PInv'
<1>1. /\ Types /\ n \in waiting /\ n \in target /\ phases # <<>> /\ phases \in Programs
      /\ phases' = phases /\ target' = target /\ records' = records
      /\ waiting' = waiting \ {n} /\ strict' = strict
  BY DEF PInv, Types, Answer, mode
<1>2. /\ rows' \in Recs /\ serving' \in [Endpoints -> SUBSET Ports]
      /\ sending' \in [Endpoints -> SUBSET Client]
      /\ \A e \in Endpoints :
           /\ rows'[e] = IF NodeOf(e) = n THEN RowAfter(e) ELSE rows[e]
           /\ serving'[e] = IF NodeOf(e) = n THEN ServingAfter(e) ELSE serving[e]
           /\ sending'[e] = IF NodeOf(e) = n THEN SendingAfter(e) ELSE sending[e]
  BY <1>1, EffectIs
<1>3. Types'
  BY <1>1, <1>2 DEF Types, Answer, mode, Nodes, Recs
<1>4. GivenHeld'
  BY DEF PInv, GivenHeld, Holds, Answer
<1>5. Progress'
  <2>1. SUFFICES ASSUME ~ failed' PROVE Progress'
    BY DEF Progress
  <2>2. ~ failed /\ Progress
    BY <2>1 DEF Answer, PInv
  <2>3. \A e \in Endpoints : NodeOf(e)' = NodeOf(e)
    BY <1>1, SameNodes
  <2>4. \A e \in Endpoints : Answered(e)' <=> Answered(e) \/ NodeOf(e) = n
    BY <1>1, <2>3 DEF Answered
  <2>5. Known' = Known
    BY <1>1 DEF Known, NodesOf, NodeOf
  <2>6. \A e \in Endpoints : rows[e] \in Record \cup {None} /\ records[e] \in Record \cup {None}
    BY <1>1 DEF Types, Recs
  <2>7. ASSUME Head(phases) = "register", NEW e \in Endpoints, Answered(e)', records[e] # None
        PROVE  Covers(rows'[e], records[e])
    <3>1. CASE NodeOf(e) = n
      <4>1. rows'[e] = Registered(rows[e], records[e])
        BY <1>2, <2>7, <3>1 DEF RowAfter
      <4>2. QED
        BY <2>6, <2>7, <4>1, RegisteredFacts
    <3>2. CASE NodeOf(e) # n
      BY <1>1, <1>2, <2>2, <2>4, <2>7, <3>2 DEF Progress
    <3>3. QED
      BY <3>1, <3>2
  <2>8. ASSUME Head(phases) = "stop_clients", NEW e \in Endpoints, Answered(e)'
        PROVE  sending'[e] = {}
    BY <1>1, <1>2, <2>2, <2>4, <2>8 DEF Progress, SendingAfter
  <2>9. ASSUME Head(phases) = "stop_servers", NEW e \in Endpoints
        PROVE  /\ NodeOf(e) \in target => sending'[e] = {}
               /\ Answered(e)' => serving'[e] = {}
    BY <1>1, <1>2, <2>2, <2>4, <2>9 DEF Progress, SendingAfter, ServingAfter
  <2>10. ASSUME Head(phases) = "start_servers", NEW e \in Endpoints, Answered(e)'
         PROVE  rows'[e] # None => rows'[e].servers \subseteq serving'[e]
    BY <1>1, <1>2, <2>2, <2>4, <2>10 DEF Progress, RowAfter, RowNow, ServingAfter, ServersRun
  <2>11. ASSUME Head(phases) = "start_clients", NEW e \in Endpoints
         PROVE  /\ NodeOf(e) \in target => (rows'[e] # None => rows'[e].servers \subseteq serving'[e])
                /\ Answered(e)' => ((rows'[e] # None /\ rows'[e].clients # <<>>) => sending'[e] # {})
    <3>1. rows'[e] = rows[e] /\ serving'[e] = serving[e]
      BY <1>2, <2>11 DEF RowAfter, ServingAfter
    <3>2. NodeOf(e) \in target => (rows[e] # None => rows[e].servers \subseteq serving[e])
      BY <1>1, <2>2, <2>11 DEF Progress, ServersRun
    <3>3. CASE NodeOf(e) = n
      <4>1. sending'[e] = IF sending[e] # {} THEN sending[e] ELSE ToSet(RowNow(e).clients)
        BY <1>2, <2>11, <3>3 DEF SendingAfter
      <4>2. (rows[e] # None /\ rows[e].clients # <<>>) => ToSet(rows[e].clients) # {}
        BY <2>6, RecordParts, SetOfNone
      <4>3. QED
        BY <3>1, <3>2, <4>1, <4>2 DEF RowNow
    <3>4. CASE NodeOf(e) # n
      BY <1>1, <1>2, <2>2, <2>4, <2>11, <3>1, <3>2, <3>4 DEF Progress, Sends
    <3>5. QED
      BY <3>3, <3>4
  <2>12. Head(phases) = "register" => target = Known
    BY <1>1, <2>2 DEF Progress
  <2>13. QED
    BY <1>1, <2>3, <2>5, <2>7, <2>8, <2>9, <2>10, <2>11, <2>12 DEF Progress, ServersRun, Sends
<1>6. QED
  BY <1>3, <1>4, <1>5 DEF PInv

\* Answers to RPCs that have had none.
LEMMA RefusedInv ==
  ASSUME PInv, NEW n \in Nodes, Refused(n)
  PROVE  PInv'
<1>1. failed' = TRUE
  BY DEF Refused, Answer
<1>2. Types'
  BY DEF PInv, Types, Refused, Answer, mode, node, Nodes
<1>3. GivenHeld'
  BY DEF PInv, GivenHeld, Holds, Refused, Answer
<1>4. QED
  BY <1>1, <1>2, <1>3 DEF PInv, Progress

LEMMA PInit == Init => PInv
<1> SUFFICES ASSUME Init PROVE PInv
  OBVIOUS
<1>1. Types
  BY DEF Init, Types, Programs, Nodes, Recs
<1>2. QED
  BY <1>1 DEF Init, PInv, GivenHeld, Progress

LEMMA PNext == PInv /\ [Next]_vars => PInv'
<1> SUFFICES ASSUME PInv, [Next]_vars PROVE PInv'
  OBVIOUS
<1>1. ASSUME NEW c \in Configs, RegisterTraffic(c) PROVE PInv'
  BY <1>1, PushInv DEF RegisterTraffic
<1>2. ASSUME NEW c \in Configs, UnregisterTraffic(c) PROVE PInv'
  BY <1>2, PushInv DEF UnregisterTraffic
<1>3. ASSUME NEW ns \in Targets, StartTraffic(ns) PROVE PInv'
  <2>1. <<"start_servers", "start_clients">> \in Programs \ {<<>>}
    BY DEF Programs, Starting
  <2>2. QED
    BY <1>3, <2>1, ProgramTails, OtherInv DEF StartTraffic
<1>4. ASSUME NEW ns \in Targets, StopTraffic(ns) PROVE PInv'
  <2>1. <<"stop_clients", "stop_servers">> \in Programs \ {<<>>}
    BY DEF Programs
  <2>2. QED
    BY <1>4, <2>1, ProgramTails, OtherInv DEF StopTraffic
<1>5. ASSUME NEW ns \in Targets, RestartTraffic(ns) PROVE PInv'
  <2>1. Restarting \in Programs \ {<<>>}
    BY ProgramTails DEF Programs
  <2>2. Operate(records, Restarting, ns) /\ given' = given
    BY <1>5 DEF RestartTraffic, Restarting
  <2>3. QED
    BY <2>1, <2>2, ProgramTails, OtherInv
<1>6. ASSUME NEW ns \in Targets, ClearAllTrafficRules(ns) PROVE PInv'
  <2>1. <<"clear">> \in Programs \ {<<>>}
    BY DEF Programs
  <2>2. QED
    BY <1>6, <2>1, ProgramTails, OtherInv DEF ClearAllTrafficRules
<1>7. ASSUME StartNothing PROVE PInv'
  <2>1. phases' = <<"nothing">> /\ Head(<<"nothing">>) = "nothing" /\ <<"nothing">> \in Programs
    BY <1>7 DEF StartNothing, Programs
  <2>2. Types'
    BY <1>7, <2>1 DEF StartNothing, PInv, Types, mode, node, Nodes
  <2>3. GivenHeld' /\ Progress'
    BY <1>7, <2>1 DEF StartNothing, PInv, GivenHeld, Holds, Progress
  <2>4. QED
    BY <2>2, <2>3 DEF PInv
<1>8. ASSUME NEW n \in Nodes, Done(n) \/ Lost(n) PROVE PInv'
  BY <1>8, EffectInv DEF Done, Lost
<1>9. ASSUME NEW n \in Nodes, Refused(n) PROVE PInv'
  BY <1>9, RefusedInv
<1>10. ASSUME NextPhase PROVE PInv'
  BY <1>10, NextPhaseInv
<1>11. ASSUME NewController PROVE PInv'
  <2>1. Types'
    BY <1>11 DEF NewController, PInv, Types, mode, node, Nodes, Recs
  <2>2. GivenHeld' /\ Progress'
    BY <1>11 DEF NewController, PInv, GivenHeld, Progress
  <2>3. QED
    BY <2>1, <2>2 DEF PInv
<1>12. ASSUME UNCHANGED vars PROVE PInv'
  <2>1. Types' /\ GivenHeld'
    BY <1>12 DEF vars, mode, control, node, PInv, Types, GivenHeld, Holds, Nodes
  <2>2. /\ Known' = Known
        /\ \A e : Answered(e)' <=> Answered(e)
        /\ \A e : NodeOf(e)' = NodeOf(e)
        /\ \A e : (ServersRun(e)' <=> ServersRun(e)) /\ (Sends(e)' <=> Sends(e))
    BY <1>12 DEF vars, mode, control, node, Known, NodesOf, NodeOf, Answered, ServersRun, Sends
  <2>3. Progress'
    BY <1>12, <2>2 DEF vars, mode, control, node, PInv, Progress
  <2>4. QED
    BY <2>1, <2>3 DEF PInv
<1>13. QED
  BY <1>1, <1>2, <1>3, <1>4, <1>5, <1>6, <1>7, <1>8, <1>9, <1>10, <1>11, <1>12 DEF Next

LEMMA PHolds == Spec => []PInv
<1>1. Init => PInv
  BY PInit
<1>2. PInv /\ [Next]_vars => PInv'
  BY PNext
<1>3. QED
  BY <1>1, <1>2, PTL DEF Spec

(* The controller, its records and the rows of the nodes are what the      *)
(* methods of the controllers take them for, for any endpoints, nodes,     *)
(* ports and configurations.                                               *)
THEOREM ControllerTypes == Spec => []TypeOK
<1>1. PInv => TypeOK
  <2>1. SUFFICES ASSUME PInv PROVE TypeOK
    OBVIOUS
  <2>2. ToSet(phases) \subseteq {"register", "unregister", "clear", "nothing", "start_servers",
                                 "start_clients", "stop_servers", "stop_clients"}
    <3>1. phases \in Programs
      BY <2>1 DEF PInv, Types
    <3>2. QED
      BY <3>1 DEF Programs, Starting, Restarting, StopThenStart, ToSet
  <2>3. given \subseteq UNION {ToSet(c) : c \in Configs}
    BY <2>1 DEF PInv, Types, Offered
  <2>4. QED
    BY <2>1, <2>2, <2>3 DEF PInv, Types, TypeOK, Recs
<1>2. QED
  BY <1>1, PHolds, PTL

\* An operation ends when all its RPCs have been answered.
LEMMA EndsAnswered ==
  ASSUME PInv, [Next]_vars, phases # <<>>, phases' = <<>>
  PROVE  waiting = {} /\ \A e \in Endpoints : NodeOf(e) \in target => Answered(e)
<1>1. waiting = {}
  BY DEF Next, vars, control, RegisterTraffic, UnregisterTraffic, Push, StartTraffic, StopTraffic,
         RestartTraffic, ClearAllTrafficRules, Operate, StartNothing, Done, Refused, Lost, Answer,
         NextPhase, NewController
<1>2. QED
  BY <1>1 DEF Answered

(* When all RPCs of register_traffic have succeeded, the nodes hold all    *)
(* rules this controller was given, whatever the endpoints, the nodes they *)
(* are on and the configurations, and whichever earlier RPCs failed.       *)
THEOREM PushesAll == Spec => PushComplete
<1>1. ASSUME PInv, [Next]_vars, Ends("register"), NEW r \in given
      PROVE  /\ rows[r.dst] # None /\ r.port \in rows[r.dst].servers
             /\ rows[r.src] # None
             /\ \E c \in ToSet(rows[r.src].clients) : Key(c) = <<r.dst, r.port>>
  <2>1. /\ phases # <<>> /\ phases' = <<>> /\ Head(phases) = "register" /\ ~ failed
    BY <1>1 DEF Ends
  <2>2. \A e \in Endpoints : NodeOf(e) \in target => Answered(e)
    BY <1>1, <2>1, EndsAnswered
  <2>3. target = Known
    BY <1>1, <2>1 DEF PInv, Progress
  <2>4. r.src \in Endpoints /\ r.dst \in Endpoints
    BY <1>1, OfferedRules DEF PInv, Types, Rules, Offered
  <2>5. Holds(records, r)
    BY <1>1 DEF PInv, GivenHeld
  <2>6. Answered(r.src) /\ Answered(r.dst)
    BY <2>2, <2>3, <2>4, <2>5 DEF Holds, Known, NodesOf
  <2>7. Covers(rows[r.src], records[r.src]) /\ Covers(rows[r.dst], records[r.dst])
    BY <1>1, <2>1, <2>4, <2>5, <2>6 DEF PInv, Progress, Holds
  <2>8. Key(ClientOf(r)) = <<r.dst, r.port>>
    BY DEF Key, ClientOf
  <2>9. QED
    BY <2>5, <2>7, <2>8 DEF Covers, Holds
<1>2. PInv /\ [Next]_vars => 
       [Ends("register") =>
         \A r \in given :
           /\ rows[r.dst] # None /\ r.port \in rows[r.dst].servers
           /\ rows[r.src] # None
           /\ \E c \in ToSet(rows[r.src].clients) : Key(c) = <<r.dst, r.port>> ]_vars
  BY <1>1
<1>3. QED
  BY <1>2, PHolds, PTL DEF Spec, PushComplete

(* When stop_traffic has succeeded, nothing runs on the nodes it was for,  *)
(* whoever started it, and on whichever nodes the operations before it     *)
(* failed.                                                                 *)
THEOREM TrafficStops == Spec => StopsEverything
<1>1. ASSUME PInv, [Next]_vars, Ends("stop_servers"), NEW e \in Endpoints, NodeOf(e) \in target
      PROVE  serving[e] = {} /\ sending[e] = {}
  <2>1. /\ phases # <<>> /\ phases' = <<>> /\ Head(phases) = "stop_servers" /\ ~ failed
    BY <1>1 DEF Ends
  <2>2. Answered(e)
    BY <1>1, <2>1, EndsAnswered
  <2>3. QED
    BY <1>1, <2>1, <2>2 DEF PInv, Progress
<1>2. PInv /\ [Next]_vars => 
       [Ends("stop_servers") =>
         \A e \in Endpoints : NodeOf(e) \in target => serving[e] = {} /\ sending[e] = {} ]_vars
  BY <1>1
<1>3. QED
  BY <1>2, PHolds, PTL DEF Spec, StopsEverything

(* When start_traffic has succeeded, servers run for all the rules on the  *)
(* nodes it was for, and every endpoint with client rules sends, whatever  *)
(* ran there before.                                                       *)
THEOREM TrafficStarts == Spec => StartStarts
<1>1. ASSUME PInv, [Next]_vars, Ends("start_clients"),
             NEW e \in Endpoints, NodeOf(e) \in target /\ rows[e] # None
      PROVE  /\ rows[e].servers \subseteq serving[e]
             /\ rows[e].clients # <<>> => sending[e] # {}
  <2>1. /\ phases # <<>> /\ phases' = <<>> /\ Head(phases) = "start_clients" /\ ~ failed
    BY <1>1 DEF Ends
  <2>2. Answered(e)
    BY <1>1, <2>1, EndsAnswered
  <2>3. QED
    BY <1>1, <2>1, <2>2 DEF PInv, Progress, ServersRun, Sends
<1>2. PInv /\ [Next]_vars => 
       [Ends("start_clients") =>
         \A e \in Endpoints : (NodeOf(e) \in target /\ rows[e] # None) =>
           /\ rows[e].servers \subseteq serving[e]
           /\ rows[e].clients # <<>> => sending[e] # {} ]_vars
  BY <1>1
<1>3. QED
  BY <1>2, PHolds, PTL DEF Spec, StartStarts

-----------------------------------------------------------------------------
(* No client without its server.                                           *)

LEMMA PushSound ==
  ASSUME CInv, Calm, NEW config \in Configs, NEW rpc \in {"register", "unregister"},
         Push(config, rpc)
  PROVE  Sound'
<1> DEFINE recs == Create(records, config)
<1>1. records \in Recs /\ config \in Seq(Rules)
  BY OfferedRules DEF CInv, PInv, Types
<1>2. Grown(records, recs) /\ (Closed(records) => Closed(recs))
  BY <1>1, CreateFacts
<1>3. /\ records' = recs /\ phases' = <<rpc>> /\ target' = NodesOf(recs) /\ waiting' = target'
      /\ failed' = FALSE /\ pushed' = pushed /\ faulty' = faulty /\ strict' = strict
      /\ rows' = rows /\ serving' = serving /\ sending' = sending
  BY DEF Push, Operate, mode, node
<1> HIDE DEF recs
<1>4. Served /\ Own /\ Closed(records) /\ (~ faulty => pushed)
  BY DEF CInv, Sound
<1>5. Served' /\ Closed(records)'
  BY <1>2, <1>3, <1>4 DEF Served, Closed
<1>6. Own'
  BY <1>2, <1>3, <1>4 DEF Own, Grown, Within
<1>7. Ordered'
  <2>1. \A e : ~ Answered(e)'
    BY <1>3 DEF Answered
  <2>2. Pushed(phases') /\ ~ Starts(phases')
    BY <1>3 DEF Pushed, Starts, Starting, Restarting, StopThenStart
  <2>3. phases' \notin {<<"stop_servers">>, StopThenStart} /\ phases' # <<"start_clients">>
    BY <1>3 DEF StopThenStart
  <2>4. target' = Known'
    BY <1>3, SameNodes
  <2>5. QED
    BY <2>1, <2>2, <2>3, <2>4 DEF Ordered
<1>8. QED
  BY <1>3, <1>4, <1>5, <1>6, <1>7 DEF Sound

LEMMA OtherSound ==
  ASSUME CInv, Calm, NEW ns \in Targets, NEW todo \in Programs \ {<<>>},
         todo \notin {<<"unregister">>, <<"stop_servers">>, StopThenStart, <<"start_clients">>},
         (Starts(todo) /\ strict) => pushed,
         Operate(records, todo, ns)
  PROVE  Sound'
<1>1. /\ records' = records /\ phases = <<>> /\ phases' = todo /\ target' = ns /\ waiting' = target'
      /\ failed' = FALSE /\ pushed' = pushed /\ faulty' = faulty /\ strict' = strict
      /\ rows' = rows /\ serving' = serving /\ sending' = sending
  BY DEF Operate, mode, node
<1>2. Served /\ Own /\ Closed(records) /\ Ordered /\ (~ faulty => pushed)
  BY DEF CInv, Sound
<1>3. Served' /\ Closed(records)' /\ Own'
  BY <1>1, <1>2 DEF Served, Closed, Own
<1>4. Ordered'
  <2>1. \A e : ~ Answered(e)'
    BY <1>1 DEF Answered
  <2>2. ns = Known /\ Known' = Known
    BY <1>1 DEF Calm, Targets, Known, NodesOf, NodeOf
  <2>3. Starts(todo) => pushed
    BY <1>2 DEF Calm
  <2>4. (pushed /\ ~ Pushed(phases)) => Closed(rows)
    BY <1>2 DEF Ordered
  <2>5. ~ Pushed(phases)
    BY <1>1 DEF Pushed
  <2>6. Closed(rows)' <=> Closed(rows)
    BY <1>1 DEF Closed
  <2>7. QED
    BY <1>1, <2>1, <2>2, <2>3, <2>4, <2>5, <2>6 DEF Ordered
<1>5. QED
  BY <1>1, <1>2, <1>3, <1>4 DEF Sound

LEMMA NothingSound ==
  ASSUME CInv, Calm, StartNothing
  PROVE  Sound'
<1>1. /\ records' = records /\ phases = <<>> /\ phases' = <<"nothing">>
      /\ failed' = FALSE /\ pushed' = pushed /\ faulty' = faulty /\ strict' = strict
      /\ rows' = rows /\ serving' = serving /\ sending' = sending
  BY DEF StartNothing, mode, node
<1>2. Served /\ Own /\ Closed(records) /\ Ordered /\ (~ faulty => pushed)
  BY DEF CInv, Sound
<1>3. Served' /\ Closed(records)' /\ Own'
  BY <1>1, <1>2 DEF Served, Closed, Own
<1>4. Ordered'
  <2>1. ~ Starts(phases') /\ phases' \notin {<<"unregister">>, <<"clear">>, <<"stop_servers">>,
                                             StopThenStart, <<"start_clients">>}
    BY <1>1 DEF Starts, Starting, Restarting, StopThenStart
  <2>2. ~ Pushed(phases)
    BY <1>1 DEF Pushed
  <2>3. Closed(rows)' <=> Closed(rows)
    BY <1>1 DEF Closed
  <2>4. QED
    BY <1>1, <1>2, <2>1, <2>2, <2>3 DEF Ordered
<1>5. QED
  BY <1>1, <1>2, <1>3, <1>4 DEF Sound

LEMMA NextPhaseSound ==
  ASSUME CInv, Calm, NextPhase
  PROVE  Sound'
<1>1. /\ Types /\ Progress /\ Served /\ Own /\ Closed(records) /\ Ordered
      /\ ~ faulty => (~ failed /\ pushed)
  BY DEF CInv, PInv, Sound
<1>2. /\ records' = records /\ failed' = failed /\ faulty' = faulty /\ strict' = strict
      /\ rows' = rows /\ serving' = serving /\ sending' = sending
      /\ phases # <<>> /\ waiting = {}
      /\ pushed' = IF Head(phases) \in {"register", "unregister", "clear"} THEN ~ failed ELSE pushed
  BY DEF NextPhase, mode, node
<1>3. phases \in Programs /\ Follows(phases)
  BY <1>1, <1>2, ProgramFacts DEF Types
<1>4. \/ phases' = <<>>
      \/ phases' # <<>> /\ phases' = Tail(phases) /\ target' = target /\ ~ (strict /\ failed)
  BY DEF NextPhase
<1>5. phases' # <<>> => ~ failed
  BY <1>1, <1>4 DEF Calm
<1>6. Served' /\ Closed(records)' /\ Own'
  BY <1>1, <1>2 DEF Served, Closed, Own
<1>7. Known' = Known
  BY <1>2 DEF Known, NodesOf, NodeOf
<1>8. ASSUME target = Known, NEW e \in Endpoints, records[e] # None
      PROVE  Answered(e)
  BY <1>2, <1>8 DEF Answered, Known, NodesOf
<1>9. ~ Pushed(phases')
  <2>1. ~ Pushed(<<>>)
    BY DEF Pushed
  <2>2. Tail(phases) # <<>> => ~ Pushed(Tail(phases))
    BY <1>3 DEF Follows
  <2>3. QED
    BY <1>4, <2>1, <2>2
<1>10. ASSUME pushed' PROVE Closed(rows)
  <2>1. CASE ~ Pushed(phases)
    <3>1. pushed
      BY <1>2, <1>3, <1>10, <2>1 DEF Follows, Pushed
    <3>2. QED
      BY <1>1, <2>1, <3>1 DEF Ordered
  <2>2. CASE Pushed(phases)
    <3>1. target = Known
      BY <1>1, <1>2, <2>2 DEF Ordered, Pushed
    <3>2. ~ failed
      BY <1>2, <1>3, <1>10, <2>2 DEF Follows, Pushed
    <3>3. SUFFICES ASSUME NEW e \in Endpoints, rows[e] # None, NEW c \in ToSet(rows[e].clients)
                   PROVE  rows[c.dst] # None /\ c.port \in rows[c.dst].servers
      BY DEF Closed
    <3>4. records[e] # None /\ Within(rows[e], records[e])
      BY <1>1, <3>3 DEF Own
    <3>5. CASE phases = <<"register">>
      <4>1. records[e].clients \in Seq(Client)
        BY <1>1, <3>4, RecordParts DEF Types, Recs
      <4>2. c \in ToSet(records[e].clients)
        BY <3>3, <3>4 DEF Within
      <4>3. c \in Client
        BY <4>1, <4>2, SetOfNone
      <4>4. c.dst \in Endpoints
        BY <4>3 DEF Client
      <4>5. records[c.dst] # None /\ c.port \in records[c.dst].servers
        BY <1>1, <3>4, <4>2 DEF Closed
      <4>6. Covers(rows[c.dst], records[c.dst])
        BY <1>1, <1>2, <1>3, <1>8, <3>1, <3>2, <3>5, <4>4, <4>5 DEF Progress, Follows
      <4>7. QED
        BY <4>5, <4>6 DEF Covers
    <3>6. CASE phases \in {<<"unregister">>, <<"clear">>}
      <4>1. Emptied(rows[e])
        BY <1>1, <1>8, <3>1, <3>2, <3>4, <3>6 DEF Ordered
      <4>2. QED
        BY <3>3, <4>1 DEF Emptied
    <3>7. QED
      BY <2>2, <3>5, <3>6 DEF Pushed
  <2>3. QED
    BY <2>1, <2>2
<1>11. ASSUME phases' # <<>>
       PROVE  /\ target = Known /\ target' = Known'
              /\ phases' \notin {<<"unregister">>, <<"clear">>}
              /\ Starts(phases') => pushed'
  <2>1. phases' = Tail(phases) /\ target' = target
    BY <1>4, <1>11
  <2>2. phases # <<"nothing">> /\ ~ Pushed(phases)
    BY <1>3, <1>11, <2>1 DEF Follows
  <2>3. target = Known
    BY <1>1, <1>2, <2>2 DEF Ordered
  <2>4. Starts(phases') => pushed'
    BY <1>1, <1>2, <1>3, <1>11, <2>1, <2>2 DEF Ordered, Follows, Pushed
  <2>5. QED
    BY <1>7, <1>9, <2>1, <2>3, <2>4 DEF Pushed
<1>12. ASSUME phases' \in {<<"stop_servers">>, StopThenStart}, NEW e \in Endpoints
       PROVE  sending[e] = {}
  <2>1. phases' # <<>> /\ Head(phases') = "stop_servers"
    BY <1>12, ProgramTails
  <2>2. Head(phases) = "stop_clients" /\ ~ failed /\ target = Known
    BY <1>3, <1>4, <1>5, <1>11, <2>1 DEF Follows
  <2>3. records[e] # None => sending[e] = {}
    BY <1>1, <1>2, <1>8, <2>2 DEF Progress
  <2>4. QED
    BY <1>1, <2>3 DEF Own
<1>13. ASSUME phases' = <<"start_clients">>, NEW e \in Endpoints
       PROVE  ServersRun(e)
  <2>1. phases' # <<>> /\ Head(phases') = "start_clients"
    BY <1>13, ProgramTails
  <2>2. Head(phases) = "start_servers" /\ ~ failed /\ target = Known
    BY <1>3, <1>4, <1>5, <1>11, <2>1 DEF Follows
  <2>3. records[e] # None => ServersRun(e)
    BY <1>1, <1>2, <1>8, <2>2 DEF Progress
  <2>4. QED
    BY <1>1, <2>3 DEF Own, ServersRun
<1>14. Ordered'
  <2>1. \A e : ServersRun(e)' <=> ServersRun(e)
    BY <1>2 DEF ServersRun
  <2>2. Closed(rows)' <=> Closed(rows)
    BY <1>2 DEF Closed
  <2>3. phases' = <<>> => phases' \notin {<<"unregister">>, <<"clear">>, <<"stop_servers">>,
                                          StopThenStart, <<"start_clients">>} /\ ~ Starts(phases')
    BY DEF StopThenStart, Starts, Starting, Restarting
  <2>4. QED
    BY <1>2, <1>9, <1>10, <1>11, <1>12, <1>13, <2>1, <2>2, <2>3 DEF Ordered
<1>15. QED
  BY <1>1, <1>2, <1>6, <1>14 DEF Sound

LEMMA EffectSound ==
  ASSUME CInv, Calm, NEW n \in Nodes, NEW ok \in BOOLEAN, ok \/ faulty, Answer(n, ok), Effect(n)
  PROVE  Sound'
<1>1. /\ Types /\ Progress /\ Served /\ Own /\ Closed(records) /\ Ordered
      /\ ~ faulty => (~ failed /\ pushed)
  BY DEF CInv, PInv, Sound
<1>2. /\ n \in waiting /\ n \in target /\ phases # <<>> /\ phases \in Programs
      /\ phases' = phases /\ target' = target /\ records' = records /\ pushed' = pushed
      /\ waiting' = waiting \ {n} /\ strict' = strict /\ faulty' = faulty
      /\ failed' = (failed \/ ~ ok)
  BY <1>1 DEF Types, Answer, mode
<1>3. Follows(phases)
  BY <1>2, ProgramFacts
<1>4. /\ rows' \in Recs /\ serving' \in [Endpoints -> SUBSET Ports]
      /\ sending' \in [Endpoints -> SUBSET Client]
      /\ \A e \in Endpoints :
           /\ rows'[e] = IF NodeOf(e) = n THEN RowAfter(e) ELSE rows[e]
           /\ serving'[e] = IF NodeOf(e) = n THEN ServingAfter(e) ELSE serving[e]
           /\ sending'[e] = IF NodeOf(e) = n THEN SendingAfter(e) ELSE sending[e]
  BY <1>1, EffectIs
<1>5. \A e \in Endpoints : rows[e] \in Record \cup {None} /\ records[e] \in Record \cup {None}
  BY <1>1 DEF Types, Recs
<1>6. ASSUME NEW e \in Endpoints, NEW c \in sending'[e] PROVE c.port \in serving'[c.dst]
  <2>1. c \in Client /\ c.dst \in Endpoints
    <3>1. c \in Client
      BY <1>4
    <3>2. QED
      BY <3>1 DEF Client
  <2>2. CASE c \in sending[e]
    <3>1. c.port \in serving[c.dst]
      BY <1>1, <2>2 DEF Served
    <3>2. Head(phases) = "stop_servers" => sending[e] = {}
      BY <1>1, <1>3 DEF Ordered, Follows
    <3>3. QED
      BY <1>4, <2>1, <2>2, <3>1, <3>2 DEF ServingAfter
  <2>3. CASE c \notin sending[e]
    <3>1. Head(phases) = "start_clients" /\ c \in ToSet(RowNow(e).clients)
      BY <1>4, <1>6, <2>3 DEF SendingAfter
    <3>2. rows[e] # None /\ c \in ToSet(rows[e].clients)
      BY <3>1, NewRecordFacts DEF RowNow
    <3>3. phases = <<"start_clients">>
      BY <1>3, <3>1 DEF Follows
    <3>4. Closed(rows)
      BY <1>1, <3>3 DEF Ordered, Starts, Starting, Pushed
    <3>5. rows[c.dst] # None /\ c.port \in rows[c.dst].servers
      BY <3>2, <3>4 DEF Closed
    <3>6. rows[c.dst].servers \subseteq serving[c.dst]
      BY <1>1, <2>1, <3>3, <3>5 DEF Ordered, ServersRun
    <3>7. QED
      BY <1>4, <2>1, <3>1, <3>5, <3>6 DEF ServingAfter
  <2>4. QED
    BY <2>2, <2>3
<1>7. ASSUME NEW e \in Endpoints, rows'[e] # None
      PROVE  records[e] # None /\ Within(rows'[e], records[e])
  <2>1. rows[e] # None => records[e] # None /\ Within(rows[e], records[e])
    BY <1>1 DEF Own
  <2>2. CASE rows'[e] = rows[e]
    BY <1>7, <2>1, <2>2
  <2>3. CASE rows'[e] # rows[e]
    <3>1. NodeOf(e) = n /\ rows'[e] = RowAfter(e) /\ records[e] # None
      BY <1>4, <1>7, <2>1, <2>3 DEF RowAfter
    <3>2. CASE Head(phases) = "register"
      <4>1. rows'[e] = Registered(rows[e], records[e])
        BY <3>1, <3>2 DEF RowAfter
      <4>2. Within(records[e], records[e])
        BY DEF Within
      <4>3. QED
        BY <1>5, <2>1, <3>1, <4>1, <4>2, RegisteredFacts
    <3>3. CASE Head(phases) = "unregister"
      <4>1. rows'[e] = Unregistered(rows[e], records[e])
        BY <3>1, <3>3 DEF RowAfter
      <4>2. rows[e] # None
        BY <1>5, <1>7, <3>1, <4>1, UnregisteredFacts
      <4>3. /\ Unregistered(rows[e], records[e]).servers = rows[e].servers \ records[e].servers
            /\ ToSet(Unregistered(rows[e], records[e]).clients)
                 \subseteq ToSet(rows[e].clients) \ ToSet(records[e].clients)
        BY <1>5, <3>1, <4>2, UnregisteredFacts
      <4>4. QED
        BY <2>1, <3>1, <4>1, <4>2, <4>3 DEF Within
    <3>4. CASE Head(phases) \notin {"register", "unregister"}
      BY <1>7, <2>3, <3>1, <3>4 DEF RowAfter
    <3>5. QED
      BY <3>2, <3>3, <3>4
  <2>4. QED
    BY <2>2, <2>3
<1>8. ASSUME NEW e \in Endpoints, sending'[e] # {} PROVE records[e] # None
  <2>1. CASE sending[e] # {}
    BY <1>1, <2>1 DEF Own
  <2>2. CASE sending[e] = {}
    <3>1. sending'[e] = ToSet(RowNow(e).clients)
      BY <1>4, <1>8, <2>2 DEF SendingAfter
    <3>2. rows[e] # None
      BY <1>8, <3>1, NewRecordFacts DEF RowNow
    <3>3. QED
      BY <1>1, <3>2 DEF Own
  <2>3. QED
    BY <2>1, <2>2
<1>9. Served' /\ Own' /\ Closed(records)'
  BY <1>1, <1>2, <1>6, <1>7, <1>8 DEF Served, Own, Closed
<1>10. ASSUME phases \in {<<"unregister">>, <<"clear">>}, ~ failed', NEW e \in Endpoints, Answered(e)'
       PROVE  Emptied(rows'[e])
  <2>1. Answered(e) \/ NodeOf(e) = n
    BY <1>2, <1>10, SameNodes DEF Answered
  <2>2. CASE NodeOf(e) = n
    <3>1. rows'[e] = RowAfter(e)
      BY <1>4, <2>2
    <3>2. rows[e] # None => records[e] # None /\ Within(rows[e], records[e])
      BY <1>1 DEF Own
    <3>3. CASE Head(phases) = "clear"
      BY <3>1, <3>3 DEF RowAfter, Emptied
    <3>4. CASE Head(phases) = "unregister" /\ rows[e] = None
      <4>1. records[e] # None => Unregistered(rows[e], records[e]) = None
        BY <1>5, <3>4, UnregisteredFacts
      <4>2. QED
        BY <3>1, <3>4, <4>1 DEF RowAfter, Emptied
    <3>5. CASE Head(phases) = "unregister" /\ rows[e] # None
      <4>1. rows'[e] = Unregistered(rows[e], records[e])
        BY <3>1, <3>2, <3>5 DEF RowAfter
      <4>2. /\ Unregistered(rows[e], records[e]).servers = rows[e].servers \ records[e].servers
            /\ ToSet(Unregistered(rows[e], records[e]).clients)
                 \subseteq ToSet(rows[e].clients) \ ToSet(records[e].clients)
        BY <1>5, <3>2, <3>5, UnregisteredFacts
      <4>3. QED
        BY <3>2, <3>5, <4>1, <4>2 DEF Within, Emptied
    <3>6. QED
      BY <1>3, <1>10, <3>3, <3>4, <3>5 DEF Follows
  <2>3. CASE NodeOf(e) # n
    BY <1>1, <1>2, <1>4, <1>10, <2>1, <2>3 DEF Ordered
  <2>4. QED
    BY <2>2, <2>3
<1>11. Ordered'
  <2>1. Known' = Known
    BY <1>2 DEF Known, NodesOf, NodeOf
  <2>2. ASSUME ~ Pushed(phases) PROVE rows' = rows
    <3>1. Head(phases) \notin {"register", "unregister", "clear"}
      BY <1>3, <2>2 DEF Follows, Pushed
    <3>2. \A e \in Endpoints : rows'[e] = rows[e]
      BY <1>4, <3>1 DEF RowAfter
    <3>3. QED
      BY <1>1, <1>4, <3>2 DEF Types, Recs
  <2>3. (pushed' /\ ~ Pushed(phases')) => Closed(rows)'
    BY <1>1, <1>2, <2>2 DEF Ordered, Closed
  <2>4. ASSUME phases \in {<<"stop_servers">>, StopThenStart}, NEW e \in Endpoints
        PROVE  sending'[e] = {}
    BY <1>1, <1>3, <1>4, <2>4 DEF Ordered, Follows, SendingAfter
  <2>5. ASSUME phases = <<"start_clients">>, NEW e \in Endpoints
        PROVE  rows'[e] # None => rows'[e].servers \subseteq serving'[e]
    <3>1. Head(phases) = "start_clients"
      BY <1>3, <2>5 DEF Follows
    <3>2. rows'[e] = rows[e] /\ serving'[e] = serving[e]
      BY <1>4, <3>1 DEF RowAfter, ServingAfter
    <3>3. QED
      BY <1>1, <2>5, <3>2 DEF Ordered, ServersRun
  <2>6. QED
    BY <1>1, <1>2, <1>10, <2>1, <2>3, <2>4, <2>5 DEF Ordered, ServersRun
<1>12. QED
  BY <1>1, <1>2, <1>9, <1>11 DEF Sound

LEMMA RefusedSound ==
  ASSUME CInv, Calm, NEW n \in Nodes, Refused(n)
  PROVE  Sound'
<1>1. /\ records' = records /\ phases' = phases /\ target' = target /\ pushed' = pushed
      /\ failed' = TRUE /\ faulty /\ faulty' /\ strict' = strict
      /\ rows' = rows /\ serving' = serving /\ sending' = sending
  BY DEF Refused, Answer, mode, node
<1>2. Served /\ Own /\ Closed(records) /\ Ordered
  BY DEF CInv, Sound
<1>3. Served' /\ Own' /\ Closed(records)'
  BY <1>1, <1>2 DEF Served, Own, Closed
<1>4. Known' = Known /\ (Closed(rows)' <=> Closed(rows)) /\ \A e : ServersRun(e)' <=> ServersRun(e)
  BY <1>1 DEF Known, NodesOf, NodeOf, Closed, ServersRun
<1>5. Ordered'
  BY <1>1, <1>2, <1>4 DEF Ordered
<1>6. QED
  BY <1>1, <1>3, <1>5 DEF Sound

LEMMA StutterSound ==
  ASSUME CInv, Calm, UNCHANGED vars
  PROVE  Sound'
<1>1. Served /\ Own /\ Closed(records) /\ Ordered /\ (~ faulty => (~ failed /\ pushed))
  BY DEF CInv, Sound
<1>2. Served' /\ Own' /\ Closed(records)' /\ (~ faulty' => (~ failed' /\ pushed'))
  BY <1>1 DEF vars, mode, control, node, Served, Own, Closed
<1>3. /\ Known' = Known /\ (Closed(rows)' <=> Closed(rows))
      /\ \A e : (ServersRun(e)' <=> ServersRun(e)) /\ (Answered(e)' <=> Answered(e))
  BY DEF vars, mode, control, node, Known, NodesOf, NodeOf, Closed, ServersRun, Answered
<1>4. Ordered'
  BY <1>1, <1>3 DEF Ordered, vars, control, node
<1>5. QED
  BY <1>2, <1>4 DEF Sound

LEMMA CInit == Init => CInv
<1> SUFFICES ASSUME Init PROVE CInv
  OBVIOUS
<1>1. PInv
  BY PInit
<1>2. Ordered
  BY DEF Init, Ordered, Starts, Starting, Restarting, StopThenStart, Closed
<1>3. Sound
  BY <1>2 DEF Init, Sound, Served, Own, Closed
<1>4. QED
  BY <1>1, <1>3 DEF CInv

LEMMA CNext == CInv /\ [Next]_vars => CInv'
<1> SUFFICES ASSUME CInv, [Next]_vars PROVE CInv'
  OBVIOUS
<1>1. PInv'
  BY PNext DEF CInv
<1>2. Calm' <=> Calm
  BY DEF Calm, Next, vars, mode, RegisterTraffic, UnregisterTraffic, Push, StartTraffic,
         StopTraffic, RestartTraffic, ClearAllTrafficRules, Operate, StartNothing, Done, Refused,
         Lost, Answer, NextPhase, NewController
<1>3. ASSUME Calm PROVE Sound'
  <2>1. ASSUME NEW c \in Configs, RegisterTraffic(c) \/ UnregisterTraffic(c) PROVE Sound'
    BY <1>3, <2>1, PushSound DEF RegisterTraffic, UnregisterTraffic
  <2>2. ASSUME NEW ns \in Targets, StartTraffic(ns) PROVE Sound'
    <3>1. /\ <<"start_servers", "start_clients">> \in Programs \ {<<>>}
          /\ <<"start_servers", "start_clients">> \notin
               {<<"unregister">>, <<"stop_servers">>, StopThenStart, <<"start_clients">>}
      BY DEF Programs, Starting, StopThenStart
    <3>2. QED
      BY <1>3, <2>2, <3>1, OtherSound DEF StartTraffic
  <2>3. ASSUME NEW ns \in Targets, StopTraffic(ns) PROVE Sound'
    <3>1. /\ <<"stop_clients", "stop_servers">> \in Programs \ {<<>>}
          /\ ~ Starts(<<"stop_clients", "stop_servers">>)
          /\ <<"stop_clients", "stop_servers">> \notin
               {<<"unregister">>, <<"stop_servers">>, StopThenStart, <<"start_clients">>}
      BY DEF Programs, Starts, Starting, Restarting, StopThenStart
    <3>2. QED
      BY <1>3, <2>3, <3>1, OtherSound DEF StopTraffic
  <2>4. ASSUME NEW ns \in Targets, RestartTraffic(ns) PROVE Sound'
    <3>1. /\ Restarting \in Programs \ {<<>>}
          /\ Restarting \notin {<<"unregister">>, <<"stop_servers">>, StopThenStart,
                                <<"start_clients">>}
      BY DEF Programs, Restarting, StopThenStart
    <3>2. Operate(records, Restarting, ns) /\ (strict => pushed)
      BY <2>4 DEF RestartTraffic, Restarting
    <3>3. QED
      BY <1>3, <3>1, <3>2, OtherSound
  <2>5. ASSUME NEW ns \in Targets, ClearAllTrafficRules(ns) PROVE Sound'
    <3>1. /\ <<"clear">> \in Programs \ {<<>>} /\ ~ Starts(<<"clear">>)
          /\ <<"clear">> \notin {<<"unregister">>, <<"stop_servers">>, StopThenStart,
                                <<"start_clients">>}
      BY DEF Programs, Starts, Starting, Restarting, StopThenStart
    <3>2. QED
      BY <1>3, <2>5, <3>1, OtherSound DEF ClearAllTrafficRules
  <2>6. ASSUME NEW n \in Nodes, Done(n) \/ Lost(n) PROVE Sound'
    BY <1>3, <2>6, EffectSound DEF Done, Lost
  <2>7. ASSUME NewController PROVE Sound'
    BY <1>3, <2>7 DEF NewController, Calm
  <2>8. QED
    BY <1>3, <2>1, <2>2, <2>3, <2>4, <2>5, <2>6, <2>7, NothingSound, NextPhaseSound, RefusedSound,
       StutterSound DEF Next
<1>4. Sound'
  BY <1>2, <1>3 DEF Sound
<1>5. QED
  BY <1>1, <1>4 DEF CInv

(* No client sends to a server that is not there, at no time, for any      *)
(* endpoints on any nodes, any ports and configurations: with a controller *)
(* that knows all the nodes, and with RPCs that fail if it is the strict   *)
(* one.                                                                    *)
THEOREM NoClientAlone == Spec => []NoFalseAlarm
<1>1. CInv => NoFalseAlarm
  BY DEF CInv, Sound, Calm, Served, NoFalseAlarm
<1>2. QED
  BY <1>1, CInit, CNext, PTL DEF Spec
=============================================================================
