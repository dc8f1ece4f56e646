---------------------------- MODULE RecordPipeline ----------------------------
(***************************************************************************)
(* How the results of the traffic reach the databases of one Axon node.    *)
(*                                                                         *)
(* Traffic clients and the resource monitor put records on the record      *)
(* queue. The threads of DBPoolManager take them and give each to every    *)
(* recorder in turn. A recorder first puts a traffic record on its own,    *)
(* smaller queue and then stores it. One thread per recorder, the          *)
(* RecordCountHandler, takes the records of that queue, counts them in     *)
(* memory, and once in an interval writes the counts out and resets them:  *)
(* this happens in two steps, the counts and then the latency.             *)
(*                                                                         *)
(* Counts are kept per kind of record: its protocol and its success. The   *)
(* latency is abstracted to the number of samples in its sum.              *)
(***************************************************************************)
EXTENDS Naturals, Sequences, FiniteSets, FiniteSetsExt

CONSTANTS
  Records,        \* records there may be
  Most,           \* bound: how many of them there are in a behaviour
  Kind,           \* Kind[r]: the kind of a traffic record, or Resource
  Kinds,          \* kinds of traffic records
  Protos,         \* protocols
  Proto,          \* Proto[k]: the protocol of records of kind k
  Successes,      \* the kinds of records that report a success
  Resource,       \* the kind of the records of the resource monitor
  Lists,          \* lists of recorders, in the order of RecorderFactory
  Threads,        \* threads of the pool
  QueueSize,      \* RECORD_QUEUE_SIZE
  CountQueueSize, \* the size of the queue of a recorder
  MayRestart,     \* is the process ever stopped and started again?
  None            \* no record

ASSUME RecordAssumption ==
  /\ Kind \in [Records -> Kinds \cup {Resource}]
  /\ IsFiniteSet(Kinds) /\ Proto \in [Kinds -> Protos]
  /\ Successes \subseteq Kinds /\ Resource \notin Kinds
  /\ None \notin Records

ASSUME PipelineAssumption ==
  /\ Lists \subseteq Seq({"wavefront", "sql", "elastic", "missing"})
  /\ QueueSize \in Nat \ {0} /\ CountQueueSize \in Nat \ {0}
  /\ Most \in Nat /\ MayRestart \in BOOLEAN

VARIABLES
  recorders, \* the list of recorders this process is configured with
  queue,    \* the record queue
  worker,   \* worker[t]: the record thread t has, the recorder it is at, what is next
  counting, \* counting[i]: the queue of recorder i
  handler,  \* handler[i]: what the counting thread does next, and the protocols left
  due,      \* due[i]: the interval since the last update is over
  count,    \* count[i][k]: records counted and not written yet
  samples,  \* samples[i]: successes in the latency sum
  written,  \* written[i][k]: sum of the counts written to the database
  averaged, \* averaged[i]: sum of the samples written
  stored,   \* stored[i]: the records stored one by one
  \* history
  produced, \* records put on the record queue
  handled,  \* handled[i]: records the counting thread has counted
  finished, \* records some thread is done with
  crashed   \* has the process been restarted?

pool  == <<queue, worker>>
tally == <<handler, due, count, samples, handled>>
base  == <<written, averaged, stored>>
vars  == <<recorders, pool, counting, tally, base, produced, finished, crashed>>

\* A recorder is named by its place in the list.
Places == 1 .. Len(recorders)

\* The elastic recorder without an address is None in the list of recorders.
Real == {i \in Places : recorders[i] # "missing"}

Waiting == [rec |-> None, at |-> 1, pc |-> "take"]

Zero == [k \in Kinds |-> 0]

Idle == [pc |-> "get", left |-> {}]

Init ==
  /\ recorders \in Lists
  /\ queue = <<>>
  /\ worker = [t \in Threads |-> Waiting]
  /\ counting = [i \in Places |-> <<>>]
  /\ handler = [i \in Places |-> Idle]
  /\ due = [i \in Places |-> FALSE]
  /\ count = [i \in Places |-> Zero] /\ written = [i \in Places |-> Zero]
  /\ samples = [i \in Places |-> 0] /\ averaged = [i \in Places |-> 0]
  /\ stored = [i \in Places |-> {}] /\ handled = [i \in Places |-> {}]
  /\ produced = {} /\ finished = {} /\ crashed = FALSE

\* A client records the result of a request, or the monitor one of its samples.
Produce(r) ==
  /\ r \notin produced /\ Cardinality(produced) < Most
  /\ Len(queue) < QueueSize
  /\ queue' = Append(queue, r)
  /\ produced' = produced \cup {r}
  /\ UNCHANGED <<worker, counting, tally, base, finished, crashed, recorders>>

-----------------------------------------------------------------------------
(* The threads of the pool: process_record_queues.                         *)

\* Mutant: the record stays on the queue while a thread works on it.
TakeFirst(t) ==
  /\ worker[t].pc = "take" /\ queue # <<>>
  /\ worker' = [worker EXCEPT ![t] = [rec |-> Head(queue), at |-> 1, pc |-> "put"]]
  /\ UNCHANGED <<queue, counting, tally, base, produced, finished, crashed, recorders>>

Take(t) ==
  /\ worker[t].pc = "take" /\ queue # <<>>
  /\ worker' = [worker EXCEPT ![t] = [rec |-> Head(queue), at |-> 1, pc |-> "put"]]
  /\ queue' = Tail(queue)
  /\ UNCHANGED <<counting, tally, base, produced, finished, crashed, recorders>>

Here(t) == recorders[worker[t].at]

\* Mutant: a record that finds the queue of the recorder full is not counted.
PutOrDrop(t) ==
  /\ worker[t].pc = "put"
  /\ counting' = IF \/ Kind[worker[t].rec] = Resource \/ Here(t) = "missing"
                    \/ Len(counting[worker[t].at]) = CountQueueSize
                 THEN counting
                 ELSE [counting EXCEPT ![worker[t].at] = Append(@, worker[t].rec)]
  /\ worker' = [worker EXCEPT ![t].pc = "store"]
  /\ UNCHANGED <<queue, tally, base, produced, finished, crashed, recorders>>

\* record_traffic begins with the recorder's own queue; put waits while it is
\* full. Resource records skip it, and None has no write method.
Put(t) ==
  LET i == worker[t].at
      r == worker[t].rec
  IN /\ worker[t].pc = "put"
     /\ IF Kind[r] = Resource \/ Here(t) = "missing"
        THEN UNCHANGED counting
        ELSE /\ Len(counting[i]) < CountQueueSize
             /\ counting' = [counting EXCEPT ![i] = Append(@, r)]
     /\ worker' = [worker EXCEPT ![t].pc = "store"]
     /\ UNCHANGED <<queue, tally, base, produced, finished, crashed, recorders>>

\* The thread goes on with the next recorder, or takes the next record.
NextRecorder(t) ==
  IF worker[t].at < Len(recorders)
  THEN /\ worker' = [worker EXCEPT ![t].at = @ + 1, ![t].pc = "put"]
       /\ UNCHANGED finished
  ELSE /\ worker' = [worker EXCEPT ![t] = Waiting]
       /\ finished' = finished \cup {worker[t].rec}

Store(t) ==
  LET i == worker[t].at
      r == worker[t].rec
  IN /\ worker[t].pc = "store"
     /\ Here(t) = "wavefront" \/ (Here(t) # "missing" /\ Kind[r] # Resource)
     /\ stored' = [stored EXCEPT ![i] = @ \cup {r}]
     /\ NextRecorder(t)
     /\ UNCHANGED <<queue, counting, tally, written, averaged, produced, crashed, recorders>>

\* The record is not stored and the loop goes on: the SQL and the elastic
\* recorder swallow their exceptions, wavefront reports a share of the traffic
\* records only, and sql and elastic do not take resource records.
Skip(t) ==
  /\ worker[t].pc = "store"
  /\ Here(t) \in {"sql", "elastic"} \/ (Here(t) = "wavefront" /\ Kind[worker[t].rec] # Resource)
  /\ NextRecorder(t)
  /\ UNCHANGED <<queue, counting, tally, base, produced, crashed, recorders>>

\* Mutant: the recorder that raised is tried again.
RaiseAndRetry(t) ==
  /\ worker[t].pc = "store"
  /\ Here(t) \in {"wavefront", "missing"}
  /\ worker' = [worker EXCEPT ![t].pc = "put"]
  /\ UNCHANGED <<queue, counting, tally, base, produced, finished, crashed, recorders>>

\* An exception ends the loop over the recorders.
Raise(t) ==
  /\ worker[t].pc = "store"
  /\ Here(t) \in {"wavefront", "missing"}
  /\ worker' = [worker EXCEPT ![t] = Waiting]
  /\ finished' = finished \cup {worker[t].rec}
  /\ UNCHANGED <<queue, counting, tally, base, produced, crashed, recorders>>

-----------------------------------------------------------------------------
(* The counting threads: RecordCountHandler.                               *)

Protocols(i) == {Proto[k] : k \in {x \in Kinds : count[i][x] > 0}}

\* update_counters up to the look at the clock.
Count(i) ==
  LET k == Kind[Head(counting[i])]
      c == [count EXCEPT ![i][k] = @ + 1]
  IN /\ handler[i].pc = "get" /\ counting[i] # <<>>
     /\ counting' = [counting EXCEPT ![i] = Tail(@)]
     /\ count' = c
     /\ samples' = [samples EXCEPT ![i] = IF k \in Successes THEN @ + 1 ELSE @]
     /\ handled' = [handled EXCEPT ![i] = @ \cup {Head(counting[i])}]
     /\ handler' = IF due[i]
                   THEN [handler EXCEPT ![i] =
                           [pc |-> "counts", left |-> {Proto[x] : x \in {y \in Kinds : c[i][y] > 0}}]]
                   ELSE handler
     /\ UNCHANGED <<pool, due, base, produced, finished, crashed, recorders>>

\* Reset the counts of the kinds in ks; w says whether they were written.
FlushKinds(i, ks, w) ==
  /\ written' = IF w
                THEN [written EXCEPT ![i] = [k \in Kinds |-> @[k] + IF k \in ks THEN count[i][k] ELSE 0]]
                ELSE written
  /\ count' = [count EXCEPT ![i] = [k \in Kinds |-> IF k \in ks THEN 0 ELSE @[k]]]

\* _create_record_count: with SQL one transaction per protocol and then the
\* reset; elsewhere one call for all, and elastic's send loses what it cannot send.
FlushCounts(i) ==
  /\ handler[i].pc = "counts" /\ handler[i].left # {}
  /\ IF recorders[i] = "wavefront"
     THEN /\ FlushKinds(i, Kinds, TRUE)
          /\ handler' = [handler EXCEPT ![i].left = {}]
     ELSE \E p \in handler[i].left :
            /\ \E w \in IF recorders[i] = "elastic" THEN BOOLEAN ELSE {TRUE} :
                 FlushKinds(i, {k \in Kinds : Proto[k] = p}, w)
            /\ handler' = [handler EXCEPT ![i].left = @ \ {p}]
  /\ UNCHANGED <<pool, counting, due, samples, handled, averaged, stored, produced, finished, crashed, recorders>>

\* _create_latency_stats, and the interval starts anew.
FlushLatency(i) ==
  /\ handler[i].pc = "counts" /\ handler[i].left = {}
  /\ \E w \in IF recorders[i] = "elastic" THEN BOOLEAN ELSE {TRUE} :
       averaged' = IF w THEN [averaged EXCEPT ![i] = @ + samples[i]] ELSE averaged
  /\ samples' = [samples EXCEPT ![i] = 0]
  /\ handler' = [handler EXCEPT ![i].pc = "get"]
  /\ due' = [due EXCEPT ![i] = FALSE]
  /\ UNCHANGED <<pool, counting, count, handled, written, stored, produced, finished, crashed, recorders>>

\* Mutant: the counters are dropped when they cannot be written.
FlushFailsAndDrops(i) ==
  /\ handler[i].pc = "counts" /\ recorders[i] \in {"sql", "wavefront"}
  /\ handler' = [handler EXCEPT ![i] = Idle]
  /\ count' = [count EXCEPT ![i] = Zero]
  /\ UNCHANGED <<pool, counting, due, samples, handled, base, produced, finished, crashed, recorders>>

\* Writing raises: what is not written stays, and so does the time of the last
\* update, so that the next record tries again.
FlushFails(i) ==
  /\ handler[i].pc = "counts" /\ recorders[i] \in {"sql", "wavefront"}
  /\ handler' = [handler EXCEPT ![i] = Idle]
  /\ UNCHANGED <<pool, counting, due, count, samples, handled, base, produced, finished, crashed, recorders>>

\* RECORD_COUNT_UPDATER_SLEEP_INTERVAL is over.
Elapse(i) ==
  /\ ~ due[i]
  /\ due' = [due EXCEPT ![i] = TRUE]
  /\ UNCHANGED <<pool, counting, handler, count, samples, handled, base, produced, finished, crashed, recorders>>

-----------------------------------------------------------------------------
\* The process stops: what was in memory is gone, the databases stay.
Restart ==
  /\ MayRestart
  /\ queue' = <<>>
  /\ worker' = [t \in Threads |-> Waiting]
  /\ counting' = [i \in Places |-> <<>>]
  /\ handler' = [i \in Places |-> Idle]
  /\ due' = [i \in Places |-> FALSE]
  /\ count' = [i \in Places |-> Zero]
  /\ samples' = [i \in Places |-> 0]
  /\ crashed' = TRUE
  /\ UNCHANGED <<base, produced, handled, finished, recorders>>

PoolStep(t) == Take(t) \/ Put(t) \/ Store(t) \/ Skip(t) \/ Raise(t)

CountStep(i) == Count(i) \/ FlushCounts(i) \/ FlushLatency(i) \/ FlushFails(i)

Next ==
  \/ \E r \in Records : Produce(r)
  \/ \E t \in Threads : PoolStep(t)
  \/ \E i \in Real : CountStep(i) \/ Elapse(i)
  \/ Restart

Spec == Init /\ [][Next]_vars

Longest == Max({Len(l) : l \in Lists})

\* The scheduler runs the threads; nobody has to produce records.
FairSpec ==
  /\ Spec
  /\ \A t \in Threads : WF_vars(PoolStep(t))
  /\ \A i \in 1 .. Longest : WF_vars(i \in Real /\ CountStep(i))

-----------------------------------------------------------------------------
TypeOK ==
  /\ queue \in Seq(Records) /\ Len(queue) <= QueueSize
  /\ worker \in [Threads -> [rec : Records \cup {None}, at : Places, pc : {"take", "put", "store"}]]
  /\ counting \in [Places -> Seq(Records)]
  /\ \A i \in Places : Len(counting[i]) <= CountQueueSize
  /\ handler \in [Places -> [pc : {"get", "counts"}, left : SUBSET Protos]]
  /\ due \in [Places -> BOOLEAN]
  /\ count \in [Places -> [Kinds -> Nat]] /\ written \in [Places -> [Kinds -> Nat]]
  /\ samples \in [Places -> Nat] /\ averaged \in [Places -> Nat]
  /\ stored \in [Places -> SUBSET Records] /\ handled \in [Places -> SUBSET Records]
  /\ produced \subseteq Records /\ finished \subseteq Records
  /\ crashed \in BOOLEAN

-----------------------------------------------------------------------------
(* The queries of StatsApp, over a time range that leaves nothing out.     *)

Ok(success) == IF success THEN Successes ELSE Kinds \ Successes

SumOver(f, ks) == FoldFunctionOnSet(LAMBDA x, y : x + y, 0, f, ks)

\* get_traffic_stats: the sums of the columns that the counting threads fill
GetRequestCount(i, success) == SumOver(written[i], Ok(success))

\* get_success_count, get_failure_count: the rows of the traffic records, of the faults
GetRecordCount(i, success) == Cardinality({r \in stored[i] : Kind[r] \in Ok(success)})

\* get_avg_latency divides by the samples that were written.
LatencySamples(i) == averaged[i]

InMemory(i, success) == SumOver(count[i], Ok(success))
Queued(i, success) == Cardinality({n \in 1 .. Len(counting[i]) : Kind[counting[i][n]] \in Ok(success)})
Handled(i, success) == Cardinality({r \in handled[i] : Kind[r] \in Ok(success)})

\* A restart and the elastic recorder may lose what they count, and add nothing.
Accounted(i, sum, n) == sum <= n /\ ((~ crashed /\ recorders[i] # "elastic") => sum = n)

(* What get_traffic_stats answers comes to the records that were counted,  *)
(* each of them once, with the counts in memory, and the average latency   *)
(* is one over those of them that succeeded: whichever of the transactions *)
(* that write counts and latency fails, and whenever the node restarts.    *)
StatsConserved ==
  \A i \in Real :
    /\ \A success \in BOOLEAN :
         Accounted(i, GetRequestCount(i, success) + InMemory(i, success), Handled(i, success))
    /\ Accounted(i, LatencySamples(i) + samples[i], Handled(i, TRUE))

(* get_success_count and get_failure_count, which are asked of the records *)
(* one by one, never exceed what get_traffic_stats will come to: what is   *)
(* stored is counted, or on its way there.                                 *)
StoredIsCounted ==
  ~ crashed =>
    \A i \in Real, success \in BOOLEAN : recorders[i] = "sql" =>
      GetRecordCount(i, success)
        <= GetRequestCount(i, success) + InMemory(i, success) + Queued(i, success)

(* A record that was produced is on the record queue once or with one      *)
(* thread, and not in two of these places, until a thread is done with it, *)
(* be it that a recorder raised; only a restart loses it before.           *)
TakenOnce ==
  /\ \A t, u \in Threads : (t # u /\ worker[t].rec # None) => worker[t].rec # worker[u].rec
  /\ \A n \in 1 .. Len(queue), t \in Threads : queue[n] # worker[t].rec
  /\ \A m, n \in 1 .. Len(queue) : m # n => queue[m] # queue[n]
  /\ ~ crashed =>
       \A r \in produced :
         \/ r \in finished
         \/ \E n \in 1 .. Len(queue) : queue[n] = r
         \/ \E t \in Threads : worker[t].rec = r

(* Records do not stay on the queue, however full the recorders' queues    *)
(* are: threads that wait for room always get it.                          *)
QueueDrains ==
  \A r \in Records : r \in produced \ finished ~> (r \in finished \/ crashed)

(* A record is written with each of the recorders that were configured.    *)
WrittenToAll ==
  ~ crashed =>
    \A r \in finished : \A i \in Real :
      Kind[r] # Resource =>
        r \in handled[i] \/ \E n \in 1 .. Len(counting[i]) : counting[i][n] = r
=============================================================================
