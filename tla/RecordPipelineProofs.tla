-------------------------- MODULE RecordPipelineProofs --------------------------
(***************************************************************************)
(* Proofs about RecordPipeline, for any records, recorders, threads and    *)
(* sizes of the queues, with restarts or without: first the records on     *)
(* their way, then the accounts of them, which are sums.                   *)
(***************************************************************************)
EXTENDS RecordPipeline, SequenceTheorems, FiniteSetTheorems, WellFoundedInduction, TLAPS

WorkerState == [rec : Records \cup {None}, at : Nat, pc : {"take", "put", "store"}]

PoolType ==
  /\ queue \in Seq(Records)
  /\ worker \in [Threads -> WorkerState]
  /\ produced \subseteq Records

\* A thread that is about to take a record has none.
EmptyHanded == \A t \in Threads : worker[t].pc = "take" => worker[t].rec = None

\* A record is on the queue once, or in the hands of one thread.
Single ==
  /\ \A m, n \in 1 .. Len(queue) : m # n => queue[m] # queue[n]
  /\ \A n \in 1 .. Len(queue), t \in Threads : queue[n] # worker[t].rec
  /\ \A t, u \in Threads : (t # u /\ worker[t].rec # None) => worker[t].rec # worker[u].rec

\* Whatever is in the pipeline has been produced.
Known ==
  /\ \A n \in 1 .. Len(queue) : queue[n] \in produced
  /\ \A t \in Threads : worker[t].rec # None => worker[t].rec \in produced

\* No record is lost, but in a restart.
Found ==
  ~ crashed =>
    \A r \in produced :
      \/ r \in finished
      \/ \E n \in 1 .. Len(queue) : queue[n] = r
      \/ \E t \in Threads : worker[t].rec = r

IInv == PoolType /\ EmptyHanded /\ Single /\ Known /\ Found

-----------------------------------------------------------------------------
LEMMA WaitingType == Waiting \in WorkerState /\ Waiting.rec = None /\ Waiting.pc = "take"
BY DEF Waiting, WorkerState

LEMMA QueueLength == PoolType => Len(queue) \in Nat
BY LenProperties DEF PoolType

\* Nothing is in the pipeline.
LEMMA EmptyPool ==
  ASSUME queue' = <<>>, worker' = [t \in Threads |-> Waiting], produced' \subseteq Records,
         crashed' \/ produced' = {}
  PROVE  IInv'
<1>1. queue' \in Seq(Records) /\ Len(queue') = 0
  BY EmptySeq
<1>2. worker' \in [Threads -> WorkerState]
      /\ \A t \in Threads : worker'[t].rec = None /\ worker'[t].pc = "take"
  BY WaitingType
<1>3. PoolType' /\ EmptyHanded'
  BY <1>1, <1>2 DEF PoolType, EmptyHanded
<1>4. \A n \in 1 .. Len(queue') : FALSE
  BY <1>1
<1>5. Single' /\ Known' /\ Found'
  BY <1>2, <1>4 DEF Single, Known, Found
<1>6. QED
  BY <1>3, <1>5 DEF IInv

LEMMA InitHolds == Init => IInv
<1> SUFFICES ASSUME Init PROVE IInv
  OBVIOUS
<1>1. queue \in Seq(Records) /\ Len(queue) = 0
  BY EmptySeq DEF Init
<1>2. /\ worker \in [Threads -> WorkerState]
      /\ \A t \in Threads : worker[t].rec = None /\ worker[t].pc = "take"
  BY WaitingType DEF Init
<1>3. PoolType /\ EmptyHanded
  BY <1>1, <1>2 DEF Init, PoolType, EmptyHanded
<1>4. \A n \in 1 .. Len(queue) : FALSE
  BY <1>1
<1>5. Single /\ Known /\ Found
  BY <1>2, <1>4 DEF Init, Single, Known, Found
<1>6. QED
  BY <1>3, <1>5 DEF IInv

-----------------------------------------------------------------------------
LEMMA ProduceKeeps ==
  ASSUME IInv, NEW r \in Records, Produce(r)
  PROVE  IInv'
<1>1. /\ queue \in Seq(Records) /\ Len(queue) \in Nat /\ queue' \in Seq(Records)
      /\ Len(queue') = Len(queue) + 1 /\ queue'[Len(queue) + 1] = r
      /\ \A n \in 1 .. Len(queue) : queue'[n] = queue[n]
  BY QueueLength, AppendProperties DEF Produce, IInv, PoolType
<1>2. r \notin produced /\ produced' = produced \cup {r} /\ r # None
  BY RecordAssumption DEF Produce
<1>3. UNCHANGED <<worker, finished, crashed>>
  BY DEF Produce
<1>4. \A n \in 1 .. Len(queue') : n = Len(queue) + 1 \/ n \in 1 .. Len(queue)
  BY <1>1
<1>5. \A n \in 1 .. Len(queue) : n \in 1 .. Len(queue') /\ queue[n] # r
  BY <1>1, <1>2 DEF IInv, Known
<1>6. \A t \in Threads : worker[t].rec # r
  BY <1>2 DEF IInv, Known
<1>7. PoolType' /\ EmptyHanded'
  BY <1>1, <1>2, <1>3 DEF IInv, PoolType, EmptyHanded
<1>8. Single'
  BY <1>1, <1>3, <1>4, <1>5, <1>6 DEF IInv, Single
<1>9. Known'
  BY <1>1, <1>2, <1>3, <1>4 DEF IInv, Known
<1>10. Found'
  <2>1. ASSUME ~ crashed', NEW q \in produced'
        PROVE  \/ q \in finished' \/ \E n \in 1 .. Len(queue') : queue'[n] = q
               \/ \E t \in Threads : worker'[t].rec = q
    <3>1. CASE q = r
      <4>1. Len(queue) + 1 \in 1 .. Len(queue')
        BY <1>1
      <4>2. QED
        BY <1>1, <3>1, <4>1
    <3>2. CASE q # r
      BY <1>1, <1>2, <1>3, <1>5, <2>1, <3>2 DEF IInv, Found
    <3>3. QED
      BY <3>1, <3>2
  <2>2. QED
    BY <2>1 DEF Found
<1>11. QED
  BY <1>7, <1>8, <1>9, <1>10 DEF IInv

-----------------------------------------------------------------------------
(* The threads of the pool.                                                *)

LEMMA TakeKeeps ==
  ASSUME IInv, NEW t \in Threads, Take(t)
  PROVE  IInv'
<1>1. /\ queue \in Seq(Records) /\ Len(queue) \in Nat \ {0} /\ queue[1] \in Records
      /\ queue' \in Seq(Records) /\ Len(queue') = Len(queue) - 1
      /\ \A n \in 1 .. Len(queue') : n + 1 \in 1 .. Len(queue) /\ queue'[n] = queue[n + 1]
  BY EmptySeq, HeadTailProperties DEF Take, IInv, PoolType
<1> DEFINE x == [rec |-> queue[1], at |-> 1, pc |-> "put"]
<1>2. x \in WorkerState /\ x.rec = queue[1] /\ x.pc = "put" /\ x.rec # None
  BY <1>1, RecordAssumption DEF WorkerState
<1>3. worker' = [worker EXCEPT ![t] = x]
  BY <1>1 DEF Take
<1> HIDE DEF x
<1>4. /\ worker' \in [Threads -> WorkerState] /\ worker'[t] = x
      /\ \A u \in Threads \ {t} : worker'[u] = worker[u]
  BY <1>2, <1>3 DEF IInv, PoolType
<1>5. worker[t].rec = None /\ UNCHANGED <<produced, finished, crashed>>
  BY DEF Take, IInv, EmptyHanded
<1>6. PoolType' /\ EmptyHanded'
  BY <1>1, <1>2, <1>4, <1>5 DEF IInv, PoolType, EmptyHanded
<1>7. Single'
  <2>1. \A m, n \in 1 .. Len(queue') : m # n => queue'[m] # queue'[n]
    BY <1>1 DEF IInv, Single
  <2>2. \A n \in 1 .. Len(queue') : n + 1 # 1 /\ queue'[n] # queue[1]
    BY <1>1 DEF IInv, Single
  <2>3. \A n \in 1 .. Len(queue'), u \in Threads : queue'[n] # worker'[u].rec
    BY <1>1, <1>2, <1>4, <2>2 DEF IInv, Single
  <2>4. 1 \in 1 .. Len(queue)
    BY <1>1
  <2>5. \A u, v \in Threads : (u # v /\ worker'[u].rec # None) => worker'[u].rec # worker'[v].rec
    BY <1>2, <1>4, <2>4 DEF IInv, Single
  <2>6. QED
    BY <2>1, <2>3, <2>5 DEF Single
<1>8. Known'
  <2>1. 1 \in 1 .. Len(queue)
    BY <1>1
  <2>2. QED
    BY <1>1, <1>2, <1>4, <1>5, <2>1 DEF IInv, Known
<1>9. Found'
  <2>1. ASSUME ~ crashed', NEW q \in produced'
        PROVE  \/ q \in finished' \/ \E n \in 1 .. Len(queue') : queue'[n] = q
               \/ \E u \in Threads : worker'[u].rec = q
    <3>1. CASE q \in finished
      BY <1>5, <3>1
    <3>2. CASE \E n \in 1 .. Len(queue) : queue[n] = q
      <4>1. PICK n \in 1 .. Len(queue) : queue[n] = q
        BY <3>2
      <4>2. CASE n = 1
        BY <1>2, <1>4, <4>1, <4>2
      <4>3. CASE n # 1
        <5>1. n - 1 \in 1 .. Len(queue') /\ queue'[n - 1] = q
          BY <1>1, <4>1, <4>3
        <5>2. QED
          BY <5>1
      <4>4. QED
        BY <4>2, <4>3
    <3>3. CASE \E u \in Threads : worker[u].rec = q
      BY <1>4, <1>5, <2>1, <3>3, RecordAssumption DEF IInv, PoolType
    <3>4. QED
      BY <1>5, <2>1, <3>1, <3>2, <3>3 DEF IInv, Found
  <2>2. QED
    BY <2>1 DEF Found
<1>10. QED
  BY <1>6, <1>7, <1>8, <1>9 DEF IInv

\* The thread goes on with its record, or is done with it.
LEMMA WorkStep ==
  ASSUME IInv, NEW t \in Threads, NEW x \in WorkerState, worker' = [worker EXCEPT ![t] = x],
         UNCHANGED <<queue, produced, crashed>>,
         \/ x.rec = worker[t].rec /\ x.pc # "take" /\ finished' = finished
         \/ x.rec = None /\ finished' = finished \cup {worker[t].rec}
  PROVE  IInv'
<1>1. /\ worker' \in [Threads -> WorkerState] /\ worker'[t] = x
      /\ \A u \in Threads \ {t} : worker'[u] = worker[u]
  BY DEF IInv, PoolType
<1>2. PoolType' /\ EmptyHanded'
  BY <1>1 DEF IInv, PoolType, EmptyHanded
<1>3. \A n \in 1 .. Len(queue) : queue[n] # None
  BY RecordAssumption, ElementOfSeq DEF IInv, PoolType
<1>4. Single' /\ Known'
  BY <1>1, <1>3 DEF IInv, Single, Known
<1>5. Found'
  BY <1>1 DEF IInv, Found
<1>6. QED
  BY <1>2, <1>4, <1>5 DEF IInv

LEMMA NextRecorderKeeps ==
  ASSUME IInv, NEW t \in Threads, NextRecorder(t), UNCHANGED <<queue, produced, crashed>>
  PROVE  IInv'
<1>1. worker \in [Threads -> WorkerState] /\ worker[t] \in WorkerState
  BY DEF IInv, PoolType
<1>2. CASE /\ worker' = [worker EXCEPT ![t].at = @ + 1, ![t].pc = "put"]
           /\ UNCHANGED finished
  <2> DEFINE x1 == [worker[t] EXCEPT !.at = @ + 1]
             x  == [x1 EXCEPT !.pc = "put"]
  <2>1. x1 \in WorkerState /\ x1.rec = worker[t].rec
    BY <1>1 DEF WorkerState
  <2>2. x \in WorkerState /\ x.rec = worker[t].rec /\ x.pc = "put"
    <3> HIDE DEF x1
    <3> QED BY <2>1 DEF WorkerState
  <2>3. worker' = [worker EXCEPT ![t] = x]
    BY <1>1, <1>2, Zenon
  <2> HIDE DEF x
  <2>4. QED
    BY <1>2, <2>2, <2>3, WorkStep
<1>3. CASE worker' = [worker EXCEPT ![t] = Waiting] /\ finished' = finished \cup {worker[t].rec}
  BY <1>3, WaitingType, WorkStep
<1>4. QED
  BY <1>2, <1>3, Zenon DEF NextRecorder

LEMMA PutKeeps ==
  ASSUME IInv, NEW t \in Threads, Put(t)
  PROVE  IInv'
<1>1. worker \in [Threads -> WorkerState] /\ worker[t] \in WorkerState
  BY DEF IInv, PoolType
<1> DEFINE x == [worker[t] EXCEPT !.pc = "store"]
<1>2. x \in WorkerState /\ x.rec = worker[t].rec /\ x.pc = "store"
  BY <1>1 DEF WorkerState
<1>3. worker' = [worker EXCEPT ![t] = x]
  BY <1>1 DEF Put
<1> HIDE DEF x
<1>4. QED
  BY <1>2, <1>3, WorkStep DEF Put

LEMMA PoolStepKeeps ==
  ASSUME IInv, NEW t \in Threads, PoolStep(t)
  PROVE  IInv'
<1>1. CASE Store(t)
  BY <1>1, NextRecorderKeeps DEF Store
<1>2. CASE Skip(t)
  BY <1>2, NextRecorderKeeps DEF Skip
<1>3. CASE Raise(t)
  BY <1>3, WaitingType, WorkStep DEF Raise
<1>4. QED
  BY <1>1, <1>2, <1>3, TakeKeeps, PutKeeps DEF PoolStep

-----------------------------------------------------------------------------
\* The counting threads leave the pool alone.
LEMMA CountStepKeeps ==
  ASSUME IInv, UNCHANGED <<queue, worker, produced, finished, crashed>>
  PROVE  IInv'
BY DEF IInv, PoolType, EmptyHanded, Single, Known, Found

LEMMA NextKeeps == IInv /\ [Next]_vars => IInv'
<1> SUFFICES ASSUME IInv, [Next]_vars PROVE IInv'
  OBVIOUS
<1>1. ASSUME NEW i \in Real, CountStep(i) \/ Elapse(i) PROVE IInv'
  BY <1>1, CountStepKeeps
     DEF CountStep, Count, FlushCounts, FlushLatency, FlushFails, Elapse, pool
<1>2. CASE Restart
  <2>1. produced' \subseteq Records
    BY <1>2 DEF Restart, IInv, PoolType
  <2>2. QED
    BY <1>2, <2>1, EmptyPool DEF Restart
<1>3. CASE UNCHANGED vars
  BY <1>3, CountStepKeeps DEF vars, pool
<1>4. QED
  BY <1>1, <1>2, <1>3, ProduceKeeps, PoolStepKeeps DEF Next

-----------------------------------------------------------------------------
(* What is produced is on the record queue once, in the hands of one       *)
(* thread, or done with, unless the process restarted, and never both on   *)
(* the queue and with a thread: for any number of records, threads         *)
(* (DBPoolManager) and recorders. A thread is done with a record when a    *)
(* recorder has raised, too: the theorem does not say who has written it.  *)
THEOREM RecordsTakenOnce == Spec => []TakenOnce
<1>1. IInv => TakenOnce
  BY DEF IInv, TakenOnce, Single, Found
<1>2. QED
  BY <1>1, InitHolds, NextKeeps, PTL DEF Spec

-----------------------------------------------------------------------------
(* The accounts of the recorders.                                          *)

Counters == [Kinds -> Nat]

CountType ==
  /\ recorders \in Lists
  /\ counting \in [Places -> Seq(Records)]
  /\ count \in [Places -> Counters] /\ written \in [Places -> Counters]
  /\ samples \in [Places -> Nat] /\ averaged \in [Places -> Nat]
  /\ stored \in [Places -> SUBSET Records] /\ handled \in [Places -> SUBSET Records]
  /\ \A i \in Places : IsFiniteSet(handled[i])

\* Record r is on the queue of recorder i, or has been counted.
Reached(i, r) == r \in handled[i] \/ \E n \in 1 .. Len(counting[i]) : counting[i][n] = r

\* Thread t will put its record on the queue of recorder i.
Before(t, i) ==
  /\ worker[t].rec # None
  /\ worker[t].at < i \/ (worker[t].at = i /\ worker[t].pc = "put")

\* A traffic record is on the queue of a recorder once, and not when it has been counted.
OnlyOnce ==
  \A i \in Places :
    /\ \A m, n \in 1 .. Len(counting[i]) : m # n => counting[i][m] # counting[i][n]
    /\ \A n \in 1 .. Len(counting[i]) :
         counting[i][n] \notin handled[i] /\ Kind[counting[i][n]] \in Kinds

\* What is before a recorder has not reached it.
NotYet ==
  \A i \in Places :
    /\ \A r \in Records : Reached(i, r) => r \in produced
    /\ \A n \in 1 .. Len(queue) : ~ Reached(i, queue[n])
    /\ \A t \in Threads : Before(t, i) => ~ Reached(i, worker[t].rec)

\* What a recorder stores has reached it.
Passed ==
  ~ crashed =>
    \A i \in Real :
      /\ \A t \in Threads :
           (worker[t].pc = "store" /\ worker[t].at = i /\ Kind[worker[t].rec] # Resource)
             => Reached(i, worker[t].rec)
      /\ \A r \in stored[i] : Kind[r] # Resource => Reached(i, r)

\* Those of the records in H that are of one of the kinds ks.
Having(H, ks) == {r \in H : Kind[r] \in ks}

\* The accounts are right for each kind of record.
Accounts ==
  \A i \in Real :
    /\ \A k \in Kinds : Accounted(i, written[i][k] + count[i][k], Cardinality(Having(handled[i], {k})))
    /\ Accounted(i, averaged[i] + samples[i], Cardinality(Having(handled[i], Successes)))

CInv == CountType /\ OnlyOnce /\ NotYet /\ Passed /\ Accounts

-----------------------------------------------------------------------------
(* Sums over finite sets. What holds of all finite sets is proved of a     *)
(* smallest set that it would not hold of.                                 *)

One(s) == CHOOSE x \in s : TRUE

SumStep(f, g, s) == IF s = {} THEN 0 ELSE f[One(s)] + g[s \ {One(s)}]

\* Sets of subsets of a finite set have smallest members.
LEMMA Smallest ==
  ASSUME NEW S, IsFiniteSet(S), NEW Bad, Bad \subseteq SUBSET S, Bad # {}
  PROVE  \E T \in Bad : \A U \in SUBSET T : U # T => U \notin Bad
<1>1. IsWellFoundedOn(StrictSubsetOrdering(S), FiniteSubsetsOf(S))
  BY FS_StrictSubsetOrderingWellFounded
<1>2. Bad \subseteq FiniteSubsetsOf(S)
  BY FS_Subset DEF FiniteSubsetsOf
<1>3. \E T \in Bad : \A U \in Bad : ~ (<<U, T>> \in StrictSubsetOrdering(S))
  BY <1>1, <1>2, WFMin
<1>4. QED
  BY <1>3 DEF StrictSubsetOrdering

\* The fold that computes a sum.
LEMMA SumIs ==
  ASSUME NEW f, NEW ks
  PROVE  SumOver(f, ks) = (CHOOSE g : g = [s \in SUBSET ks |-> SumStep(f, g, s)])[ks]
  BY DEF SumOver, FoldFunctionOnSet, MapThenFoldSet, SumStep, One

\* What is left of a set without one of its elements.
LEMMA Rest ==
  ASSUME NEW s, s # {}
  PROVE  One(s) \in s /\ s \ {One(s)} \subseteq s /\ s \ {One(s)} # s
BY DEF One

\* A sum is the sum of one element and the sum over the rest.
LEMMA SumUnfolds ==
  ASSUME NEW f, NEW S, IsFiniteSet(S)
  PROVE  \A ks \in SUBSET S :
           SumOver(f, ks) = IF ks = {} THEN 0 ELSE f[One(ks)] + SumOver(f, ks \ {One(ks)})
<1> DEFINE Unfolds(s) == SumOver(f, s) = IF s = {} THEN 0
                                        ELSE f[One(s)] + SumOver(f, s \ {One(s)})
           Bad == {s \in SUBSET S : ~ Unfolds(s)}
<1> SUFFICES ASSUME Bad # {} PROVE FALSE
  OBVIOUS
<1> HIDE DEF Unfolds
<1>1. PICK T \in Bad : \A U \in SUBSET T : U # T => U \notin Bad
  <2> HIDE DEF Bad
  <2>1. Bad \subseteq SUBSET S
    BY DEF Bad
  <2>2. QED
    BY <2>1, Smallest
<1>2. T \in SUBSET S /\ ~ Unfolds(T) /\ \A U \in SUBSET T : U # T => Unfolds(U)
  BY <1>1
<1>3. IsFiniteSet(T)
  BY <1>2, FS_Subset
<1> HIDE DEF Bad
<1> DEFINE g == [s \in SUBSET T |-> IF s = {} THEN 0 ELSE f[One(s)] + SumOver(f, s \ {One(s)})]
<1>4. \A s \in SUBSET T : s # T => g[s] = SumOver(f, s)
  BY <1>2 DEF Unfolds
<1>5. g = [s \in SUBSET T |-> SumStep(f, g, s)]
  <2>1. \A s \in SUBSET T : s # {} => g[s \ {One(s)}] = SumOver(f, s \ {One(s)})
    <3>1. TAKE s \in SUBSET T
    <3>2. HAVE s # {}
    <3>3. s \ {One(s)} \in SUBSET T /\ s \ {One(s)} # T
      BY <3>2, Rest
    <3>4. QED
      <4> HIDE DEF g
      <4> QED BY <1>4, <3>3
  <2>2. \A s \in SUBSET T : g[s] = SumStep(f, g, s)
    <3> DEFINE h == g
    <3>1. \A s \in SUBSET T : g[s] = IF s = {} THEN 0 ELSE f[One(s)] + SumOver(f, s \ {One(s)})
      OBVIOUS
    <3> HIDE DEF g
    <3>2. QED
      BY <2>1, <3>1 DEF SumStep
  <2>3. g = [s \in SUBSET T |-> g[s]]
    OBVIOUS
  <2> HIDE DEF g
  <2>4. QED
    BY <2>2, <2>3
<1> DEFINE it == CHOOSE h : h = [s \in SUBSET T |-> SumStep(f, h, s)]
<1>6. it = [s \in SUBSET T |-> SumStep(f, it, s)]
  <2> HIDE DEF g
  <2>1. \E h : h = [s \in SUBSET T |-> SumStep(f, h, s)]
    BY <1>5
  <2>2. QED
    BY <2>1, Zenon
<1>7. SumOver(f, T) = it[T]
  BY SumIs
<1> HIDE DEF it, g
<1>8. \A s \in SUBSET T : it[s] = SumStep(f, it, s)
  BY <1>6
<1> DEFINE Diff == {s \in SUBSET T : s # T /\ it[s] # SumOver(f, s)}
<1>9. Diff = {}
  <2> SUFFICES ASSUME Diff # {} PROVE FALSE
    OBVIOUS
  <2>1. PICK D \in Diff : \A U \in SUBSET D : U # D => U \notin Diff
    <3>1. Diff \subseteq SUBSET T
      OBVIOUS
    <3> HIDE DEF Diff
    <3>2. QED
      BY <1>3, <3>1, Smallest
  <2>2. D \in SUBSET T /\ D # T /\ it[D] # SumOver(f, D) /\ Unfolds(D)
    BY <1>2, <2>1
  <2>3. D # {}
    BY <1>8, <2>2 DEF SumStep, Unfolds
  <2>4. /\ D \ {One(D)} \in SUBSET D /\ D \ {One(D)} # D /\ D \ {One(D)} \in SUBSET T
        /\ D \ {One(D)} # T
    BY <2>2, <2>3, Rest
  <2>5. it[D \ {One(D)}] = SumOver(f, D \ {One(D)})
    BY <2>1, <2>4
  <2>6. it[D] = f[One(D)] + it[D \ {One(D)}]
    BY <1>8, <2>2, <2>3 DEF SumStep
  <2>7. SumOver(f, D) = f[One(D)] + SumOver(f, D \ {One(D)})
    BY <2>2, <2>3 DEF Unfolds
  <2>8. QED
    BY <2>2, <2>5, <2>6, <2>7
<1>10. T # {} => it[T \ {One(T)}] = SumOver(f, T \ {One(T)})
  BY <1>9, Rest
<1>11. Unfolds(T)
  <2>1. it[T] = IF T = {} THEN 0 ELSE f[One(T)] + it[T \ {One(T)}]
    BY <1>8 DEF SumStep
  <2>2. QED
    BY <1>7, <1>10, <2>1 DEF Unfolds
<1>12. QED
  BY <1>2, <1>11

\* The sums over ks of what is counted by kind, in f and in g, fit the records in H.
Tallied(f, g, H, ks) ==
  /\ SumOver(f, ks) \in Nat /\ SumOver(g, ks) \in Nat
  /\ (\A k \in ks : f[k] + g[k] <= Cardinality(Having(H, {k})))
       => SumOver(f, ks) + SumOver(g, ks) <= Cardinality(Having(H, ks))
  /\ (\A k \in ks : f[k] + g[k] = Cardinality(Having(H, {k})))
       => SumOver(f, ks) + SumOver(g, ks) = Cardinality(Having(H, ks))

\* What is counted by kind adds up to what is counted of several kinds.
LEMMA SumsByKind ==
  ASSUME NEW f \in Counters, NEW g \in Counters, NEW H, IsFiniteSet(H), IsFiniteSet(Kinds)
  PROVE  \A ks \in SUBSET Kinds : Tallied(f, g, H, ks)
<1> DEFINE Nats(ks) == SumOver(f, ks) \in Nat /\ SumOver(g, ks) \in Nat
           Less(ks) == (\A k \in ks : f[k] + g[k] <= Cardinality(Having(H, {k})))
                         => SumOver(f, ks) + SumOver(g, ks) <= Cardinality(Having(H, ks))
           Same(ks) == (\A k \in ks : f[k] + g[k] = Cardinality(Having(H, {k})))
                         => SumOver(f, ks) + SumOver(g, ks) = Cardinality(Having(H, ks))
           Bad == {ks \in SUBSET Kinds : ~ Tallied(f, g, H, ks)}
<1> SUFFICES ASSUME Bad # {} PROVE FALSE
  OBVIOUS
<1>1. PICK T \in Bad : \A U \in SUBSET T : U # T => U \notin Bad
  <2>1. Bad \subseteq SUBSET Kinds
    OBVIOUS
  <2> HIDE DEF Bad
  <2>2. QED
    BY <2>1, Smallest
<1>2. T \in SUBSET Kinds /\ ~ Tallied(f, g, H, T) /\ \A U \in SUBSET T : U # T => Tallied(f, g, H, U)
  BY <1>1
<1> HIDE DEF Bad
<1>3. \A ks : IsFiniteSet(Having(H, ks)) /\ Cardinality(Having(H, ks)) \in Nat
  <2>1. \A ks : Having(H, ks) \in SUBSET H
    BY DEF Having
  <2>2. QED
    BY <2>1, FS_Subset, FS_CardinalityType
<1>4. CASE T = {}
  <2>1. SumOver(f, T) = 0 /\ SumOver(g, T) = 0
    BY <1>2, <1>4, SumUnfolds
  <2>2. Having(H, T) = {} /\ Cardinality({}) = 0
    BY <1>4, FS_EmptySet DEF Having
  <2>3. QED
    BY <1>2, <2>1, <2>2 DEF Tallied
<1>5. CASE T # {}
  <2> DEFINE x == One(T)
             R == T \ {x}
  <2>1. x \in T /\ R \in SUBSET T /\ R # T /\ x \in Kinds /\ R \in SUBSET Kinds
    BY <1>2, <1>5, Rest
  <2>2. SumOver(f, T) = f[x] + SumOver(f, R) /\ SumOver(g, T) = g[x] + SumOver(g, R)
    BY <1>2, <1>5, SumUnfolds
  <2> HIDE DEF x
  <2>3. Tallied(f, g, H, R)
    BY <1>2, <2>1
  <2>4. Having(H, T) = Having(H, R) \cup Having(H, {x}) /\ Having(H, R) \cap Having(H, {x}) = {}
    BY <2>1 DEF Having
  <2> HIDE DEF R
  <2>5. Cardinality(Having(H, T)) = Cardinality(Having(H, R)) + Cardinality(Having(H, {x}))
    <3>1. Cardinality(Having(H, T)) = Cardinality(Having(H, R)) + Cardinality(Having(H, {x}))
                                        - Cardinality({})
      BY <1>3, <2>4, FS_Union, Zenon
    <3>2. Cardinality({}) = 0
      BY FS_EmptySet
    <3> HIDE DEF Having
    <3>3. QED
      BY <1>3, <3>1, <3>2
  <2>6. f[x] \in Nat /\ g[x] \in Nat /\ SumOver(f, R) \in Nat /\ SumOver(g, R) \in Nat
    BY <2>1, <2>3 DEF Tallied, Counters
  <2> DEFINE cR == Cardinality(Having(H, R))
             cx == Cardinality(Having(H, {x}))
             cT == Cardinality(Having(H, T))
  <2>7. cR \in Nat /\ cx \in Nat /\ cT = cR + cx
    BY <1>3, <2>5
  <2>8. Nats(T)
    BY <2>2, <2>6
  <2>9. Less(T)
    <3>1. ASSUME \A k \in T : f[k] + g[k] <= Cardinality(Having(H, {k}))
          PROVE  SumOver(f, T) + SumOver(g, T) <= cT
      <4>1. f[x] + g[x] <= cx
        BY <2>1, <3>1
      <4>2. SumOver(f, R) + SumOver(g, R) <= cR
        BY <2>1, <2>3, <3>1 DEF Tallied
      <4> HIDE DEF cR, cx, cT
      <4>3. QED
        BY <2>2, <2>6, <2>7, <4>1, <4>2
    <3>2. QED
      BY <3>1
  <2>10. Same(T)
    <3>1. ASSUME \A k \in T : f[k] + g[k] = Cardinality(Having(H, {k}))
          PROVE  SumOver(f, T) + SumOver(g, T) = cT
      <4>1. f[x] + g[x] = cx
        BY <2>1, <3>1
      <4>2. SumOver(f, R) + SumOver(g, R) = cR
        BY <2>1, <2>3, <3>1 DEF Tallied
      <4> HIDE DEF cR, cx, cT
      <4>3. QED
        BY <2>2, <2>6, <2>7, <4>1, <4>2
    <3>2. QED
      BY <3>1
  <2>11. QED
    BY <1>2, <2>8, <2>9, <2>10 DEF Tallied
<1>6. QED
  BY <1>4, <1>5

-----------------------------------------------------------------------------
LEMMA PlacesAreNumbers == CountType => Len(recorders) \in Nat /\ Places \subseteq Nat \ {0}
<1> SUFFICES ASSUME CountType PROVE Len(recorders) \in Nat /\ Places \subseteq Nat \ {0}
  OBVIOUS
<1>1. recorders \in Seq({"wavefront", "sql", "elastic", "missing"})
  BY PipelineAssumption DEF CountType
<1>2. QED
  BY <1>1, LenProperties DEF Places

\* The cardinalities of what has been counted.
LEMMA CountedIsFinite ==
  ASSUME NEW H, IsFiniteSet(H)
  PROVE  \A ks : IsFiniteSet(Having(H, ks)) /\ Cardinality(Having(H, ks)) \in Nat
<1>1. \A ks : Having(H, ks) \in SUBSET H
  BY DEF Having
<1>2. QED
  BY <1>1, FS_Subset, FS_CardinalityType

\* One more record is counted with those of its kind.
LEMMA OneMore ==
  ASSUME NEW H, IsFiniteSet(H), NEW r, r \notin H, NEW ks
  PROVE  Cardinality(Having(H \cup {r}, ks))
           = Cardinality(Having(H, ks)) + IF Kind[r] \in ks THEN 1 ELSE 0
<1>1. IsFiniteSet(Having(H, ks)) /\ Cardinality(Having(H, ks)) \in Nat
  BY CountedIsFinite
<1>2. CASE Kind[r] \in ks
  <2>1. Having(H \cup {r}, ks) = Having(H, ks) \cup {r} /\ r \notin Having(H, ks)
    BY <1>2 DEF Having
  <2>2. QED
    BY <1>1, <1>2, <2>1, FS_AddElement
<1>3. CASE Kind[r] \notin ks
  <2>1. Having(H \cup {r}, ks) = Having(H, ks)
    BY <1>3 DEF Having
  <2>2. QED
    BY <1>1, <1>3, <2>1
<1>4. QED
  BY <1>2, <1>3

-----------------------------------------------------------------------------
LEMMA CInitHolds == Init => CInv
<1> SUFFICES ASSUME Init PROVE CInv
  OBVIOUS
<1>1. /\ counting = [i \in Places |-> <<>>] /\ <<>> \in Seq(Records) /\ Len(<<>>) = 0
      /\ queue = <<>>
  BY EmptySeq DEF Init
<1>2. Zero \in Counters /\ \A k \in Kinds : Zero[k] = 0
  BY DEF Zero, Counters
<1>3. IsFiniteSet({}) /\ Cardinality({}) = 0
  BY FS_EmptySet
<1>4. CountType
  BY <1>1, <1>2, <1>3 DEF Init, CountType
<1>5. \A i \in Places : \A r : ~ Reached(i, r)
  BY <1>1 DEF Init, Reached
<1>6. OnlyOnce /\ NotYet
  BY <1>1, <1>5 DEF OnlyOnce, NotYet, Init
<1>7. Passed
  BY DEF Init, Passed, Waiting, Real
<1>8. \A i \in Places : \A ks : Having(handled[i], ks) = {}
  BY DEF Init, Having
<1>9. Accounts
  <2>1. ASSUME NEW i \in Real
        PROVE  /\ \A k \in Kinds : written[i][k] + count[i][k] = 0
               /\ \A k \in Kinds : Cardinality(Having(handled[i], {k})) = 0
               /\ averaged[i] + samples[i] = 0 /\ Cardinality(Having(handled[i], Successes)) = 0
    <3>1. i \in Places
      BY DEF Real
    <3>2. \A ks : Cardinality(Having(handled[i], ks)) = 0
      BY <1>3, <1>8, <3>1
    <3>3. written[i] = Zero /\ count[i] = Zero /\ averaged[i] = 0 /\ samples[i] = 0
      BY <3>1 DEF Init
    <3>4. QED
      BY <1>2, <3>2, <3>3
  <2>2. ASSUME NEW i \in Real, NEW k \in Kinds
        PROVE  Accounted(i, written[i][k] + count[i][k], Cardinality(Having(handled[i], {k})))
    BY <2>1 DEF Accounted
  <2>3. ASSUME NEW i \in Real PROVE Accounted(i, averaged[i] + samples[i], Cardinality(Having(handled[i], Successes)))
    BY <2>1 DEF Accounted
  <2>4. QED
    BY <2>2, <2>3 DEF Accounts
<1>10. QED
  BY <1>4, <1>6, <1>7, <1>9 DEF CInv

-----------------------------------------------------------------------------
(* Steps that count nothing.                                               *)

\* Whether a record has reached a recorder depends on the queue of the
\* recorder and on what it has counted.
LEMMA ReachedSame ==
  ASSUME UNCHANGED <<handled, counting>>
  PROVE  \A i, r : Reached(i, r)' <=> Reached(i, r)
BY DEF Reached

LEMMA AccountsSame ==
  ASSUME Accounts, UNCHANGED <<recorders, crashed, written, count, averaged, samples, handled>>
  PROVE  Accounts'
<1>1. Real' = Real
  BY DEF Real, Places
<1>2. QED
  BY <1>1 DEF Accounts, Accounted

LEMMA CountTypeSame ==
  ASSUME CountType, UNCHANGED <<recorders, counting, count, written, samples, averaged, handled>>,
         stored' \in [Places -> SUBSET Records]
  PROVE  CountType'
BY DEF CountType, Places

LEMMA OnlyOnceSame == OnlyOnce /\ UNCHANGED <<recorders, counting, handled>> => OnlyOnce'
BY DEF OnlyOnce, Places

LEMMA CProduceKeeps ==
  ASSUME IInv, CInv, NEW r \in Records, Produce(r)
  PROVE  CInv'
<1>1. /\ UNCHANGED <<recorders, counting, count, written, samples, averaged, handled, stored>>
      /\ UNCHANGED <<worker, crashed>>
      /\ r \notin produced /\ produced' = produced \cup {r}
  BY DEF Produce, tally, base
<1>2. CountType' /\ OnlyOnce' /\ Accounts'
  BY <1>1, CountTypeSame, OnlyOnceSame, AccountsSame DEF CInv, CountType
<1>3. \A i, q : Reached(i, q)' <=> Reached(i, q)
  BY <1>1, ReachedSame
<1>4. Places' = Places /\ Real' = Real
  BY <1>1 DEF Places, Real
<1>5. \A n \in 1 .. Len(queue') : queue'[n] = r \/ \E m \in 1 .. Len(queue) : queue'[n] = queue[m]
  <2>1. /\ queue \in Seq(Records) /\ Len(queue) \in Nat /\ Len(queue') = Len(queue) + 1
        /\ queue'[Len(queue) + 1] = r /\ \A n \in 1 .. Len(queue) : queue'[n] = queue[n]
    BY QueueLength, AppendProperties DEF Produce, IInv, PoolType
  <2>2. \A n \in 1 .. Len(queue') : n = Len(queue) + 1 \/ n \in 1 .. Len(queue)
    BY <2>1
  <2>3. QED
    BY <2>1, <2>2
<1>6. NotYet'
  BY <1>1, <1>3, <1>4, <1>5 DEF CInv, NotYet, Before
<1>7. Passed'
  BY <1>1, <1>3, <1>4 DEF CInv, Passed
<1>8. QED
  BY <1>2, <1>6, <1>7 DEF CInv

LEMMA CTakeKeeps ==
  ASSUME IInv, CInv, NEW t \in Threads, Take(t)
  PROVE  CInv'
<1>1. /\ UNCHANGED <<recorders, counting, count, written, samples, averaged, handled, stored>>
      /\ UNCHANGED <<produced, crashed>>
  BY DEF Take, tally, base
<1>2. CountType' /\ OnlyOnce' /\ Accounts'
  BY <1>1, CountTypeSame, OnlyOnceSame, AccountsSame DEF CInv, CountType
<1>3. \A i, q : Reached(i, q)' <=> Reached(i, q)
  BY <1>1, ReachedSame
<1>4. Places' = Places /\ Real' = Real
  BY <1>1 DEF Places, Real
<1>5. /\ 1 \in 1 .. Len(queue) /\ Head(queue) = queue[1]
      /\ \A n \in 1 .. Len(queue') : n + 1 \in 1 .. Len(queue) /\ queue'[n] = queue[n + 1]
  <2>1. /\ queue \in Seq(Records) /\ Len(queue) \in Nat \ {0} /\ Head(queue) = queue[1]
        /\ Len(queue') = Len(queue) - 1
        /\ \A n \in 1 .. Len(queue') : queue'[n] = queue[n + 1]
    BY EmptySeq, HeadTailProperties DEF Take, IInv, PoolType
  <2>2. QED
    BY <2>1
<1> DEFINE x == [rec |-> queue[1], at |-> 1, pc |-> "put"]
<1>6. worker' = [worker EXCEPT ![t] = x] /\ x.rec = queue[1] /\ x.pc = "put"
  BY <1>5 DEF Take
<1> HIDE DEF x
<1>7. worker'[t] = x /\ \A u \in Threads \ {t} : worker'[u] = worker[u]
  BY <1>6 DEF IInv, PoolType
<1>8. NotYet'
  <2>1. ASSUME NEW i \in Places, NEW u \in Threads, Before(u, i)' PROVE ~ Reached(i, worker'[u].rec)
    <3>1. CASE u = t
      BY <1>5, <1>6, <1>7, <3>1 DEF CInv, NotYet
    <3>2. CASE u # t
      BY <1>7, <2>1, <3>2 DEF CInv, NotYet, Before
    <3>3. QED
      BY <3>1, <3>2
  <2>2. \A i \in Places : \A n \in 1 .. Len(queue') : ~ Reached(i, queue'[n])
    BY <1>5 DEF CInv, NotYet
  <2>3. QED
    BY <1>1, <1>3, <1>4, <2>1, <2>2 DEF CInv, NotYet
<1>9. Passed'
  <2>1. \A u \in Threads : worker'[u].pc = "store" => worker'[u] = worker[u]
    BY <1>6, <1>7
  <2>2. QED
    BY <1>1, <1>3, <1>4, <2>1 DEF CInv, Passed
<1>10. QED
  BY <1>2, <1>8, <1>9 DEF CInv

\* The thread is done with a recorder: it goes on with the next, or with no record.
LEMMA CLeaves ==
  ASSUME IInv, CInv, NEW t \in Threads, NEW x, worker' = [worker EXCEPT ![t] = x],
         \/ x.rec = None /\ x.pc = "take"
         \/ /\ x.rec = worker[t].rec /\ x.pc = "put" /\ x.at = worker[t].at + 1
            /\ worker[t].rec # None /\ worker[t].at \in Nat,
         UNCHANGED <<recorders, queue, counting, count, written, samples, averaged, handled>>,
         UNCHANGED <<produced, crashed>>,
         stored' \in [Places -> SUBSET Records],
         ~ crashed => \A i \in Real : \A r \in stored'[i] :
                        Kind[r] # Resource => r \in stored[i] \/ Reached(i, r)
  PROVE  CInv'
<1>1. CountType' /\ OnlyOnce' /\ Accounts'
  BY CountTypeSame, OnlyOnceSame, AccountsSame DEF CInv
<1>2. \A i, q : Reached(i, q)' <=> Reached(i, q)
  BY ReachedSame
<1>3. Places' = Places /\ Real' = Real
  BY DEF Places, Real
<1>4. worker'[t] = x /\ \A u \in Threads \ {t} : worker'[u] = worker[u]
  BY DEF IInv, PoolType
<1>5. \A i \in Places, u \in Threads : Before(u, i)' => Before(u, i) /\ worker'[u].rec = worker[u].rec
  <2>1. ASSUME NEW i \in Places, NEW u \in Threads, Before(u, i)'
        PROVE  Before(u, i) /\ worker'[u].rec = worker[u].rec
    <3>1. CASE u = t
      <4>1. x.rec # None
        BY <1>4, <2>1, <3>1 DEF Before
      <4>2. /\ x.rec = worker[t].rec /\ x.at = worker[t].at + 1 /\ worker[t].at \in Nat
            /\ worker[t].rec # None
        BY <4>1
      <4>3. x.at <= i /\ i \in Nat
        BY <1>4, <2>1, <3>1, <4>2, PlacesAreNumbers DEF Before, CInv
      <4>4. worker[t].at < i
        BY <4>2, <4>3
      <4>5. QED
        BY <1>4, <3>1, <4>2, <4>4 DEF Before
    <3>2. CASE u # t
      BY <1>4, <2>1, <3>2 DEF Before
    <3>3. QED
      BY <3>1, <3>2
  <2>2. QED
    BY <2>1
<1>6. NotYet'
  BY <1>2, <1>3, <1>5 DEF CInv, NotYet
<1>7. Passed'
  <2>1. \A u \in Threads : worker'[u].pc = "store" => worker'[u] = worker[u]
    BY <1>4
  <2>2. QED
    BY <1>2, <1>3, <2>1 DEF CInv, Passed
<1>8. QED
  BY <1>1, <1>6, <1>7 DEF CInv

\* Where a thread that works on a record is.
LEMMA WorkerAt ==
  ASSUME IInv, NEW t \in Threads
  PROVE  worker[t] \in WorkerState /\ worker[t].at \in Nat /\ worker[t].rec \in Records \cup {None}
BY DEF IInv, PoolType, WorkerState

LEMMA CNextRecorderKeeps ==
  ASSUME IInv, CInv, NEW t \in Threads, NextRecorder(t), worker[t].rec # None,
         UNCHANGED <<recorders, queue, counting, count, written, samples, averaged, handled>>,
         UNCHANGED <<produced, crashed>>,
         stored' \in [Places -> SUBSET Records],
         ~ crashed => \A i \in Real : \A r \in stored'[i] :
                        Kind[r] # Resource => r \in stored[i] \/ Reached(i, r)
  PROVE  CInv'
<1>1. CASE worker' = [worker EXCEPT ![t].at = @ + 1, ![t].pc = "put"]
  <2> DEFINE x1 == [worker[t] EXCEPT !.at = @ + 1]
             x  == [x1 EXCEPT !.pc = "put"]
  <2>1. x1.rec = worker[t].rec /\ x1.at = worker[t].at + 1 /\ x1 \in WorkerState
    BY WorkerAt DEF WorkerState
  <2>2. x.rec = worker[t].rec /\ x.at = worker[t].at + 1 /\ x.pc = "put"
    <3> HIDE DEF x1
    <3> QED BY <2>1 DEF WorkerState
  <2>3. worker' = [worker EXCEPT ![t] = x]
    BY <1>1, Zenon DEF IInv, PoolType
  <2> HIDE DEF x
  <2>4. QED
    BY <2>2, <2>3, WorkerAt, CLeaves
<1>2. CASE worker' = [worker EXCEPT ![t] = Waiting]
  BY <1>2, WaitingType, CLeaves
<1>3. QED
  BY <1>1, <1>2, Zenon DEF NextRecorder

LEMMA CStoreKeeps ==
  ASSUME IInv, CInv, NEW t \in Threads, worker[t].rec # None, Store(t)
  PROVE  CInv'
<1> DEFINE p == worker[t].at
           q == worker[t].rec
<1>1. worker[t].pc = "store" /\ stored' = [stored EXCEPT ![p] = @ \cup {q}] /\ q \in Records
  BY WorkerAt DEF Store
<1>2. stored' \in [Places -> SUBSET Records]
  BY <1>1 DEF CInv, CountType
<1>3. ASSUME ~ crashed, NEW i \in Real, NEW r \in stored'[i], Kind[r] # Resource
      PROVE  r \in stored[i] \/ Reached(i, r)
  <2>1. CASE i = p /\ r = q
    BY <1>1, <1>3, <2>1 DEF CInv, Passed
  <2>2. CASE ~ (i = p /\ r = q)
    BY <1>1, <1>3, <2>2 DEF CInv, CountType, Real
  <2>3. QED
    BY <2>1, <2>2
<1>4. /\ UNCHANGED <<recorders, queue, counting, count, written, samples, averaged, handled>>
      /\ UNCHANGED <<produced, crashed>> /\ NextRecorder(t)
  BY DEF Store, tally
<1>5. QED
  BY <1>2, <1>3, <1>4, CNextRecorderKeeps

LEMMA CSkipKeeps ==
  ASSUME IInv, CInv, NEW t \in Threads, worker[t].rec # None, Skip(t)
  PROVE  CInv'
<1>1. /\ UNCHANGED <<recorders, queue, counting, count, written, samples, averaged, handled>>
      /\ UNCHANGED <<produced, crashed, stored>> /\ NextRecorder(t)
  BY DEF Skip, tally, base
<1>2. stored' \in [Places -> SUBSET Records]
  BY <1>1 DEF CInv, CountType
<1>3. QED
  BY <1>1, <1>2, CNextRecorderKeeps

LEMMA CRaiseKeeps ==
  ASSUME IInv, CInv, NEW t \in Threads, Raise(t)
  PROVE  CInv'
<1>1. /\ UNCHANGED <<recorders, queue, counting, count, written, samples, averaged, handled>>
      /\ UNCHANGED <<produced, crashed, stored>> /\ worker' = [worker EXCEPT ![t] = Waiting]
  BY DEF Raise, tally, base
<1>2. stored' \in [Places -> SUBSET Records]
  BY <1>1 DEF CInv, CountType
<1>3. QED
  BY <1>1, <1>2, WaitingType, CLeaves

\* A traffic record gets to the queue of a recorder, which it had not reached.
LEMMA CPutKeeps ==
  ASSUME IInv, CInv, NEW t \in Threads, worker[t].rec # None, Put(t)
  PROVE  CInv'
<1> DEFINE p == worker[t].at
           q == worker[t].rec
           skips == Kind[q] = Resource \/ recorders[p] = "missing"
<1>1. /\ UNCHANGED <<recorders, queue, count, written, samples, averaged, handled, stored>>
      /\ UNCHANGED <<produced, crashed>>
      /\ worker[t].pc = "put" /\ q \in Records
      /\ IF skips THEN counting' = counting
         ELSE counting' = [counting EXCEPT ![p] = Append(@, q)]
  BY WorkerAt DEF Put, Here, tally, base
<1>2. /\ worker'[t].pc = "store" /\ worker'[t].at = p /\ worker'[t].rec = q
      /\ \A u \in Threads \ {t} : worker'[u] = worker[u]
  <2>1. worker' = [worker EXCEPT ![t].pc = "store"]
    BY DEF Put
  <2>2. QED
    BY <2>1, WorkerAt DEF IInv, PoolType, WorkerState
<1>3. Places' = Places /\ Real' = Real /\ Places \subseteq Nat
  BY <1>1, PlacesAreNumbers DEF CInv, Places, Real
<1>4. \A i \in Places : (i # p \/ skips) => counting'[i] = counting[i]
  BY <1>1 DEF CInv, CountType
<1>5. ASSUME p \in Places, ~ skips
      PROVE  /\ counting'[p] \in Seq(Records) /\ Len(counting[p]) \in Nat
             /\ Len(counting'[p]) = Len(counting[p]) + 1
             /\ counting'[p][Len(counting[p]) + 1] = q
             /\ \A n \in 1 .. Len(counting[p]) : counting'[p][n] = counting[p][n]
  <2>1. counting[p] \in Seq(Records) /\ counting'[p] = Append(counting[p], q)
    BY <1>1, <1>5 DEF CInv, CountType
  <2>2. QED
    BY <1>1, <2>1, LenProperties, AppendProperties
<1> HIDE DEF skips
<1>6. CountType'
  <2>1. counting' \in [Places -> Seq(Records)]
    <3>1. DOMAIN counting' = Places /\ counting' = [i \in DOMAIN counting' |-> counting'[i]]
      BY <1>1 DEF CInv, CountType
    <3>2. \A i \in Places : counting'[i] \in Seq(Records)
      BY <1>4, <1>5 DEF CInv, CountType
    <3>3. QED
      BY <3>1, <3>2
  <2>2. QED
    BY <1>1, <1>3, <2>1 DEF CInv, CountType
<1>7. \A i \in Places : \A r : Reached(i, r)' <=> Reached(i, r) \/ (i = p /\ ~ skips /\ r = q)
  <2>1. TAKE i \in Places
  <2>2. CASE i = p /\ ~ skips
    <3>1. \A n \in 1 .. Len(counting'[p]) : n = Len(counting[p]) + 1 \/ n \in 1 .. Len(counting[p])
      BY <1>5, <2>2
    <3>2. /\ Len(counting[p]) + 1 \in 1 .. Len(counting'[p])
          /\ \A n \in 1 .. Len(counting[p]) : n \in 1 .. Len(counting'[p])
      BY <1>5, <2>2
    <3>3. QED
      BY <1>1, <1>5, <2>2, <3>1, <3>2 DEF Reached
  <2>3. CASE i # p \/ skips
    BY <1>1, <1>4, <2>3 DEF Reached
  <2>4. QED
    BY <2>2, <2>3
<1>8. p \in Places => Before(t, p) /\ ~ Reached(p, q)
  BY <1>1 DEF CInv, NotYet, Before
<1>9. OnlyOnce'
  <2>1. ASSUME NEW i \in Places
        PROVE  /\ \A m, n \in 1 .. Len(counting'[i]) : m # n => counting'[i][m] # counting'[i][n]
               /\ \A n \in 1 .. Len(counting'[i]) :
                    counting'[i][n] \notin handled[i] /\ Kind[counting'[i][n]] \in Kinds
    <3>1. CASE i = p /\ ~ skips
      <4>1. /\ q \notin handled[p] /\ \A n \in 1 .. Len(counting[p]) : counting[p][n] # q
        BY <1>8, <3>1 DEF Reached
      <4>2. Kind[q] \in Kinds
        BY <1>1, <3>1, RecordAssumption DEF skips
      <4>3. \A n \in 1 .. Len(counting'[p]) : n = Len(counting[p]) + 1 \/ n \in 1 .. Len(counting[p])
        BY <1>5, <3>1
      <4>4. \A m, n \in 1 .. Len(counting[p]) : m # n => counting[p][m] # counting[p][n]
        BY <3>1 DEF CInv, OnlyOnce
      <4>5. \A n \in 1 .. Len(counting[p]) :
              counting[p][n] \notin handled[p] /\ Kind[counting[p][n]] \in Kinds
        BY <3>1 DEF CInv, OnlyOnce
      <4> DEFINE last == Len(counting[p]) + 1
      <4>6. \A n \in 1 .. Len(counting[p]) : n # last
        BY <1>5, <3>1
      <4>7. counting'[p][last] = q /\ \A n \in 1 .. Len(counting'[p]) : n = last \/ n \in 1 .. Len(counting[p])
        BY <1>5, <3>1, <4>3
      <4>8. \A n \in 1 .. Len(counting[p]) : counting'[p][n] = counting[p][n]
        BY <1>5, <3>1
      <4> HIDE DEF last
      <4>9. \A m, n \in 1 .. Len(counting'[p]) : m # n => counting'[p][m] # counting'[p][n]
        BY <4>1, <4>4, <4>7, <4>8
      <4>10. \A n \in 1 .. Len(counting'[p]) :
               counting'[p][n] \notin handled[p] /\ Kind[counting'[p][n]] \in Kinds
        BY <4>1, <4>2, <4>5, <4>7, <4>8
      <4>11. QED
        BY <3>1, <4>9, <4>10
    <3>2. CASE i # p \/ skips
      BY <1>4, <3>2 DEF CInv, OnlyOnce
    <3>3. QED
      BY <3>1, <3>2
  <2>2. QED
    BY <1>1, <1>3, <2>1 DEF OnlyOnce
<1>10. NotYet'
  <2>1. q \in produced /\ \A n \in 1 .. Len(queue) : queue[n] # q
    BY DEF IInv, Known, Single
  <2>2. ASSUME NEW i \in Places, NEW u \in Threads, Before(u, i)'
        PROVE  ~ Reached(i, worker[u].rec)'
    <3>1. Before(u, i) /\ worker'[u].rec = worker[u].rec
      <4>1. CASE u = t
        BY <1>2, <2>2, <4>1 DEF Before
      <4>2. CASE u # t
        BY <1>2, <2>2, <4>2 DEF Before
      <4>3. QED
        BY <4>1, <4>2
    <3>2. ~ Reached(i, worker[u].rec)
      BY <3>1 DEF CInv, NotYet
    <3>3. ASSUME i = p PROVE worker[u].rec # q
      <4>1. u # t
        BY <1>2, <1>3, <2>2, <3>3 DEF Before
      <4>2. QED
        BY <3>1, <4>1 DEF IInv, Single, Before
    <3>4. QED
      BY <1>7, <3>1, <3>2, <3>3
  <2>3. QED
    BY <1>1, <1>3, <1>7, <2>1, <2>2 DEF CInv, NotYet
<1>11. Passed'
  <2>1. ASSUME ~ crashed, NEW i \in Real, NEW u \in Threads, worker'[u].pc = "store",
               worker'[u].at = i, Kind[worker'[u].rec] # Resource
        PROVE  Reached(i, worker[u].rec)'
    <3>1. i \in Places /\ recorders[i] # "missing"
      BY DEF Real
    <3>2. CASE u = t
      <4>1. i = p /\ ~ skips
        BY <1>2, <2>1, <3>1, <3>2 DEF skips
      <4>2. QED
        BY <1>2, <1>7, <3>1, <3>2, <4>1
    <3>3. CASE u # t
      BY <1>2, <1>7, <2>1, <3>1, <3>3 DEF CInv, Passed
    <3>4. QED
      BY <3>2, <3>3
  <2>2. QED
    BY <1>1, <1>3, <1>7, <2>1 DEF CInv, Passed, Real
<1>12. Accounts'
  BY <1>1, AccountsSame DEF CInv
<1>13. QED
  BY <1>6, <1>9, <1>10, <1>11, <1>12 DEF CInv

-----------------------------------------------------------------------------
(* The counting threads.                                                   *)

\* The records that have reached a recorder, and what there is before it, stay.
LEMMA CBookKeeps ==
  ASSUME CInv, CountType', Accounts',
         UNCHANGED <<recorders, queue, worker, counting, handled, stored, produced, crashed>>
  PROVE  CInv'
<1>1. Places' = Places /\ Real' = Real
  BY DEF Places, Real
<1>2. \A i, r : Reached(i, r)' <=> Reached(i, r)
  BY ReachedSame
<1>3. OnlyOnce' /\ NotYet'
  BY <1>1, <1>2 DEF CInv, OnlyOnce, NotYet, Before
<1>4. Passed'
  BY <1>1, <1>2 DEF CInv, Passed
<1>5. QED
  BY <1>3, <1>4 DEF CInv

\* new is what is left of the sum old: the elastic recorder may lose some of it.
Kept(i, old, new) == new <= old /\ (new = old \/ recorders[i] = "elastic")

\* Counts that are written, or lost, leave the accounts right.
LEMMA CFlushKeeps ==
  ASSUME CInv,
         UNCHANGED <<recorders, queue, worker, counting, handled, stored, produced, crashed>>,
         count' \in [Places -> Counters], written' \in [Places -> Counters],
         samples' \in [Places -> Nat], averaged' \in [Places -> Nat],
         \A i \in Real : \A k \in Kinds :
           Kept(i, written[i][k] + count[i][k], written'[i][k] + count'[i][k]),
         \A i \in Real : Kept(i, averaged[i] + samples[i], averaged'[i] + samples'[i])
  PROVE  CInv'
<1>1. Places' = Places /\ Real' = Real
  BY DEF Places, Real
<1>2. CountType'
  BY <1>1 DEF CInv, CountType
<1>3. ASSUME NEW i \in Real, NEW old \in Nat, NEW new \in Nat, Kept(i, old, new), NEW n \in Nat,
             Accounted(i, old, n)
      PROVE  Accounted(i, new, n)'
  BY <1>3 DEF Kept, Accounted
<1>4. \A i \in Real : \A ks : Cardinality(Having(handled[i], ks)) \in Nat
  BY CountedIsFinite DEF CInv, CountType, Real
<1>5. ASSUME NEW i \in Real, NEW k \in Kinds
      PROVE  Accounted(i, written[i][k] + count[i][k], Cardinality(Having(handled[i], {k})))'
  <2>1. /\ written[i][k] + count[i][k] \in Nat /\ written'[i][k] + count'[i][k] \in Nat
        /\ Accounted(i, written[i][k] + count[i][k], Cardinality(Having(handled[i], {k})))
    BY DEF CInv, CountType, Accounts, Real, Counters
  <2>2. QED
    BY <1>3, <1>4, <2>1
<1>6. ASSUME NEW i \in Real
      PROVE  Accounted(i, averaged[i] + samples[i], Cardinality(Having(handled[i], Successes)))'
  <2>1. /\ averaged[i] + samples[i] \in Nat /\ averaged'[i] + samples'[i] \in Nat
        /\ Accounted(i, averaged[i] + samples[i], Cardinality(Having(handled[i], Successes)))
    BY DEF CInv, CountType, Accounts, Real
  <2>2. QED
    BY <1>3, <1>4, <2>1
<1>7. Accounts'
  BY <1>1, <1>5, <1>6 DEF Accounts
<1>8. QED
  BY <1>2, <1>7, CBookKeeps

LEMMA FlushKindsKeeps ==
  ASSUME CInv, NEW i \in Real, NEW ks, NEW w \in BOOLEAN, w \/ recorders[i] = "elastic",
         FlushKinds(i, ks, w)
  PROVE  /\ count' \in [Places -> Counters] /\ written' \in [Places -> Counters]
         /\ \A j \in Real : \A k \in Kinds :
              Kept(j, written[j][k] + count[j][k], written'[j][k] + count'[j][k])
<1>1. /\ count \in [Places -> Counters] /\ written \in [Places -> Counters] /\ i \in Places
      /\ count[i] \in Counters /\ written[i] \in Counters
  BY DEF CInv, CountType, Real
<1> DEFINE c == [k \in Kinds |-> IF k \in ks THEN 0 ELSE count[i][k]]
           v == [k \in Kinds |-> written[i][k] + IF k \in ks THEN count[i][k] ELSE 0]
<1>2. /\ c \in Counters /\ v \in Counters
      /\ \A k \in Kinds : v[k] + c[k] = written[i][k] + count[i][k]
      /\ \A k \in Kinds : written[i][k] + c[k] <= written[i][k] + count[i][k]
  BY <1>1 DEF Counters
<1>3. count' = [count EXCEPT ![i] = c] /\ written' = IF w THEN [written EXCEPT ![i] = v] ELSE written
  BY DEF FlushKinds
<1> HIDE DEF c, v
<1>4. /\ count' \in [Places -> Counters] /\ written' \in [Places -> Counters]
      /\ count'[i] = c /\ written'[i] = IF w THEN v ELSE written[i]
      /\ \A j \in Places \ {i} : count'[j] = count[j] /\ written'[j] = written[j]
  BY <1>1, <1>2, <1>3
<1>5. ASSUME NEW j \in Real, NEW k \in Kinds
      PROVE  Kept(j, written[j][k] + count[j][k], written'[j][k] + count'[j][k])
  <2>1. j \in Places /\ written[j][k] \in Nat /\ count[j][k] \in Nat
    BY <1>1 DEF Counters, Real
  <2>2. CASE j = i
    BY <1>2, <1>4, <2>1, <2>2 DEF Kept
  <2>3. CASE j # i
    BY <1>4, <2>1, <2>3 DEF Kept
  <2>4. QED
    BY <2>2, <2>3
<1>6. QED
  BY <1>4, <1>5

\* The same counts and latency are kept.
LEMMA KeptSame ==
  ASSUME CInv
  PROVE  /\ \A i \in Real : \A k \in Kinds :
              Kept(i, written[i][k] + count[i][k], written[i][k] + count[i][k])
         /\ \A i \in Real : Kept(i, averaged[i] + samples[i], averaged[i] + samples[i])
<1>1. ASSUME NEW i \in Real PROVE i \in Places /\ averaged[i] + samples[i] \in Nat
  BY DEF CInv, CountType, Real
<1>2. ASSUME NEW i \in Real, NEW k \in Kinds PROVE written[i][k] + count[i][k] \in Nat
  BY <1>1 DEF CInv, CountType, Counters
<1>3. QED
  BY <1>1, <1>2 DEF Kept

LEMMA CFlushCountsKeeps ==
  ASSUME CInv, NEW i \in Real, FlushCounts(i)
  PROVE  CInv'
<1>1. /\ UNCHANGED <<recorders, queue, worker, counting, handled, stored, produced, crashed>>
      /\ UNCHANGED <<samples, averaged>>
  BY DEF FlushCounts, pool
<1>2. \E ks : \E w \in BOOLEAN : (w \/ recorders[i] = "elastic") /\ FlushKinds(i, ks, w)
  <2>1. CASE recorders[i] = "wavefront"
    BY <2>1 DEF FlushCounts
  <2>2. CASE recorders[i] # "wavefront"
    <3>1. PICK p \in handler[i].left : \E w \in IF recorders[i] = "elastic" THEN BOOLEAN ELSE {TRUE} :
                 FlushKinds(i, {k \in Kinds : Proto[k] = p}, w)
      BY <2>2 DEF FlushCounts
    <3>2. PICK w \in IF recorders[i] = "elastic" THEN BOOLEAN ELSE {TRUE} :
                 FlushKinds(i, {k \in Kinds : Proto[k] = p}, w)
      BY <3>1
    <3>3. w \in BOOLEAN /\ (w \/ recorders[i] = "elastic")
      OBVIOUS
    <3>4. QED
      BY <3>2, <3>3
  <2>3. QED
    BY <2>1, <2>2
<1>3. /\ count' \in [Places -> Counters] /\ written' \in [Places -> Counters]
      /\ \A j \in Real : \A k \in Kinds :
           Kept(j, written[j][k] + count[j][k], written'[j][k] + count'[j][k])
  BY <1>2, FlushKindsKeeps
<1>4. /\ samples' \in [Places -> Nat] /\ averaged' \in [Places -> Nat]
      /\ \A j \in Real : Kept(j, averaged[j] + samples[j], averaged'[j] + samples'[j])
  BY <1>1, KeptSame DEF CInv, CountType
<1>5. QED
  BY <1>1, <1>3, <1>4, CFlushKeeps

LEMMA CFlushLatencyKeeps ==
  ASSUME CInv, NEW i \in Real, FlushLatency(i)
  PROVE  CInv'
<1>1. /\ UNCHANGED <<recorders, queue, worker, counting, handled, stored, produced, crashed>>
      /\ UNCHANGED <<count, written>>
  BY DEF FlushLatency, pool
<1>2. /\ samples \in [Places -> Nat] /\ averaged \in [Places -> Nat] /\ i \in Places
  BY DEF CInv, CountType, Real
<1>3. /\ samples' = [samples EXCEPT ![i] = 0]
      /\ \/ averaged' = [averaged EXCEPT ![i] = @ + samples[i]]
         \/ averaged' = averaged /\ recorders[i] = "elastic"
  BY DEF FlushLatency
<1>4. samples' \in [Places -> Nat] /\ averaged' \in [Places -> Nat]
  BY <1>2, <1>3
<1>5. ASSUME NEW j \in Real PROVE Kept(j, averaged[j] + samples[j], averaged'[j] + samples'[j])
  <2>1. j \in Places /\ averaged[j] \in Nat /\ samples[j] \in Nat
    BY <1>2 DEF Real
  <2>2. CASE j = i
    BY <1>2, <1>3, <2>1, <2>2 DEF Kept
  <2>3. CASE j # i
    BY <1>2, <1>3, <2>1, <2>3 DEF Kept
  <2>4. QED
    BY <2>2, <2>3
<1>6. /\ count' \in [Places -> Counters] /\ written' \in [Places -> Counters]
      /\ \A j \in Real : \A k \in Kinds :
           Kept(j, written[j][k] + count[j][k], written'[j][k] + count'[j][k])
  BY <1>1, KeptSame DEF CInv, CountType
<1>7. QED
  BY <1>1, <1>4, <1>5, <1>6, CFlushKeeps

\* One record leaves the queue of the recorder and is counted.
LEMMA CCountKeeps ==
  ASSUME CInv, NEW i \in Real, Count(i)
  PROVE  CInv'
<1> DEFINE q == counting[i][1]
           k == Kind[q]
<1>1. /\ i \in Places /\ i \in Real /\ counting[i] \in Seq(Records)
      /\ count[i] \in Counters /\ written[i] \in Counters
      /\ samples[i] \in Nat /\ averaged[i] \in Nat /\ IsFiniteSet(handled[i])
      /\ count \in [Places -> Counters]
  BY DEF CInv, CountType, Real
<1>2. /\ Head(counting[i]) = q /\ q \in Records
      /\ Len(counting[i]) \in Nat \ {0} /\ Tail(counting[i]) \in Seq(Records)
      /\ Len(Tail(counting[i])) = Len(counting[i]) - 1
      /\ \A n \in 1 .. Len(Tail(counting[i])) : Tail(counting[i])[n] = counting[i][n + 1]
  BY <1>1, EmptySeq, HeadTailProperties DEF Count
<1>3. 1 \in 1 .. Len(counting[i]) /\ k \in Kinds /\ q \notin handled[i]
  <2>1. 1 \in 1 .. Len(counting[i])
    BY <1>2
  <2>2. QED
    BY <1>1, <2>1 DEF CInv, OnlyOnce
<1>4. /\ counting' = [counting EXCEPT ![i] = Tail(@)]
      /\ count' = [count EXCEPT ![i][k] = @ + 1]
      /\ samples' = [samples EXCEPT ![i] = IF k \in Successes THEN @ + 1 ELSE @]
      /\ handled' = [handled EXCEPT ![i] = @ \cup {q}]
      /\ UNCHANGED <<recorders, queue, worker, written, averaged, stored, produced, crashed>>
  BY <1>2 DEF Count, pool, base
<1> HIDE DEF q
<1> DEFINE tail == Tail(counting[i])
<1>5. /\ counting' \in [Places -> Seq(Records)] /\ counting'[i] = tail
      /\ handled' \in [Places -> SUBSET Records] /\ handled'[i] = handled[i] \cup {q}
      /\ samples' \in [Places -> Nat]
      /\ samples'[i] = samples[i] + IF k \in Successes THEN 1 ELSE 0
      /\ \A j \in Places \ {i} :
           counting'[j] = counting[j] /\ handled'[j] = handled[j] /\ samples'[j] = samples[j]
  BY <1>1, <1>2, <1>4 DEF CInv, CountType
<1>6. /\ count' \in [Places -> Counters] /\ \A j \in Places \ {i} : count'[j] = count[j]
      /\ \A x \in Kinds : count'[i][x] = count[i][x] + IF x = k THEN 1 ELSE 0
  <2> DEFINE c == [count[i] EXCEPT ![k] = @ + 1]
  <2>1. c \in Counters /\ \A x \in Kinds : c[x] = count[i][x] + IF x = k THEN 1 ELSE 0
    BY <1>1, <1>3 DEF Counters
  <2>2. count' = [count EXCEPT ![i] = c]
    BY <1>4
  <2> HIDE DEF c
  <2>3. QED
    BY <1>1, <2>1, <2>2
<1>7. Places' = Places /\ Real' = Real
  BY <1>4 DEF Places, Real
<1>8. CountType'
  <2>1. IsFiniteSet(handled[i] \cup {q})
    BY <1>1, FS_AddElement
  <2>2. QED
    BY <1>4, <1>5, <1>6, <1>7, <2>1 DEF CInv, CountType
<1>9. /\ \A n \in 1 .. Len(tail) : n + 1 \in 1 .. Len(counting[i]) /\ n + 1 # 1
      /\ \A n \in 1 .. Len(counting[i]) : n = 1 \/ n - 1 \in 1 .. Len(tail)
      /\ \A n \in 1 .. Len(tail) : tail[n] = counting[i][n + 1]
      /\ \A n \in 1 .. Len(counting[i]) : n # 1 => tail[n - 1] = counting[i][n]
  BY <1>2
<1> HIDE DEF tail
<1>10. \A j \in Places : \A r : Reached(j, r)' <=> Reached(j, r)
  <2>1. \A r : Reached(i, r)' <=> Reached(i, r)
    <3>1. \A n \in 1 .. Len(tail) : \E m \in 1 .. Len(counting[i]) : counting[i][m] = tail[n]
      BY <1>9
    <3>2. \A n \in 1 .. Len(counting[i]) :
            counting[i][n] = q \/ \E m \in 1 .. Len(tail) : tail[m] = counting[i][n]
      BY <1>9 DEF q
    <3>3. \E n \in 1 .. Len(counting[i]) : counting[i][n] = q
      BY <1>3 DEF q
    <3>4. counting'[i] = tail /\ handled'[i] = handled[i] \cup {q}
      BY <1>5
    <3>5. \A r : Reached(i, r)' <=> r \in handled[i] \cup {q} \/ \E n \in 1 .. Len(tail) : tail[n] = r
      BY <3>4 DEF Reached
    <3>6. \A r : Reached(i, r)
                  <=> r \in handled[i] \/ \E n \in 1 .. Len(counting[i]) : counting[i][n] = r
      BY DEF Reached
    <3>7. QED
      BY <3>1, <3>2, <3>3, <3>5, <3>6
  <2>2. ASSUME NEW j \in Places, j # i PROVE \A r : Reached(j, r)' <=> Reached(j, r)
    BY <1>5, <2>2 DEF Reached
  <2>3. QED
    BY <2>1, <2>2
<1>11. OnlyOnce'
  <2>1. \A m, n \in 1 .. Len(tail) : m # n => tail[m] # tail[n]
    BY <1>1, <1>9 DEF CInv, OnlyOnce
  <2>2. \A n \in 1 .. Len(tail) : tail[n] \notin handled[i] \cup {q} /\ Kind[tail[n]] \in Kinds
    BY <1>1, <1>3, <1>9 DEF CInv, OnlyOnce, q
  <2>3. ASSUME NEW j \in Places
        PROVE  /\ \A m, n \in 1 .. Len(counting'[j]) : m # n => counting'[j][m] # counting'[j][n]
               /\ \A n \in 1 .. Len(counting'[j]) :
                    counting'[j][n] \notin handled'[j] /\ Kind[counting'[j][n]] \in Kinds
    <3>1. CASE j = i
      BY <1>5, <2>1, <2>2, <3>1
    <3>2. CASE j # i
      <4>1. counting'[j] = counting[j] /\ handled'[j] = handled[j]
        BY <1>5, <3>2
      <4>2. /\ \A m, n \in 1 .. Len(counting[j]) : m # n => counting[j][m] # counting[j][n]
            /\ \A n \in 1 .. Len(counting[j]) :
                 counting[j][n] \notin handled[j] /\ Kind[counting[j][n]] \in Kinds
        BY DEF CInv, OnlyOnce
      <4>3. QED
        BY <4>1, <4>2
    <3>3. QED
      BY <3>1, <3>2
  <2>4. QED
    BY <1>7, <2>3 DEF OnlyOnce
<1>12. NotYet' /\ Passed'
  <2>1. NotYet'
    BY <1>4, <1>7, <1>10 DEF CInv, NotYet, Before
  <2>2. Passed'
    BY <1>4, <1>7, <1>10 DEF CInv, Passed, Real
  <2>3. QED
    BY <2>1, <2>2
<1>13. Accounts'
  <2>1. \A ks : Cardinality(Having(handled[i], ks)) \in Nat
    BY <1>1, CountedIsFinite
  <2>2. \A ks : Cardinality(Having(handled'[i], ks))
                  = Cardinality(Having(handled[i], ks)) + IF k \in ks THEN 1 ELSE 0
    <3>1. \A ks : Cardinality(Having(handled[i] \cup {q}, ks))
                    = Cardinality(Having(handled[i], ks)) + IF Kind[q] \in ks THEN 1 ELSE 0
      BY <1>1, <1>3, OneMore
    <3>2. QED
      BY <1>5, <3>1
  <2>3. ASSUME NEW sum \in Nat, NEW n \in Nat, NEW d \in {0, 1}, Accounted(i, sum, n)
        PROVE  Accounted(i, sum + d, n + d)'
    BY <1>4, <2>3 DEF Accounted
  <2>4. ASSUME NEW j \in Real, NEW x \in Kinds
        PROVE  Accounted(j, written[j][x] + count[j][x], Cardinality(Having(handled[j], {x})))'
    <3>1. CASE j = i
      <4> DEFINE d == IF x = k THEN 1 ELSE 0
                 s == written[i][x] + count[i][x]
                 n == Cardinality(Having(handled[i], {x}))
      <4>1. s \in Nat /\ written'[i][x] + count'[i][x] = s + d /\ d \in {0, 1}
        <5>1. /\ written[i][x] \in Nat /\ count[i][x] \in Nat /\ written' = written
              /\ count'[i][x] = count[i][x] + d /\ d \in {0, 1}
          BY <1>1, <1>4, <1>6 DEF Counters
        <5> HIDE DEF d
        <5>2. QED
          BY <5>1
      <4>2. n \in Nat /\ Cardinality(Having(handled'[i], {x})) = n + d
        BY <2>1, <2>2
      <4>3. Accounted(i, s, n)
        BY DEF CInv, Accounts
      <4> HIDE DEF d, s, n
      <4>4. QED
        BY <2>3, <3>1, <4>1, <4>2, <4>3
    <3>2. CASE j # i
      <4>1. j \in Places
        BY DEF Real
      <4>2. QED
        BY <1>4, <1>5, <1>6, <3>2, <4>1 DEF CInv, Accounts, Accounted
    <3>3. QED
      BY <3>1, <3>2
  <2>5. ASSUME NEW j \in Real
        PROVE  Accounted(j, averaged[j] + samples[j], Cardinality(Having(handled[j], Successes)))'
    <3>1. CASE j = i
      <4> DEFINE d == IF k \in Successes THEN 1 ELSE 0
                 s == averaged[i] + samples[i]
                 n == Cardinality(Having(handled[i], Successes))
      <4>1. s \in Nat /\ averaged'[i] + samples'[i] = s + d /\ d \in {0, 1}
        BY <1>1, <1>4, <1>5
      <4>2. n \in Nat /\ Cardinality(Having(handled'[i], Successes)) = n + d
        BY <2>1, <2>2
      <4>3. Accounted(i, s, n)
        BY DEF CInv, Accounts
      <4> HIDE DEF d, s, n
      <4>4. QED
        BY <2>3, <3>1, <4>1, <4>2, <4>3
    <3>2. CASE j # i
      <4>1. j \in Places
        BY DEF Real
      <4>2. QED
        BY <1>4, <1>5, <3>2, <4>1 DEF CInv, Accounts, Accounted
    <3>3. QED
      BY <3>1, <3>2
  <2>6. QED
    BY <1>7, <2>4, <2>5 DEF Accounts
<1>14. QED
  BY <1>8, <1>11, <1>12, <1>13 DEF CInv

-----------------------------------------------------------------------------
\* What was counted and not written is gone, and so is what was on its way.
LEMMA CRestartKeeps ==
  ASSUME IInv, CInv, Restart
  PROVE  CInv'
<1>1. /\ counting' = [i \in Places |-> <<>>] /\ queue' = <<>> /\ crashed'
      /\ worker' = [t \in Threads |-> Waiting]
      /\ count' = [i \in Places |-> Zero] /\ samples' = [i \in Places |-> 0]
      /\ UNCHANGED <<recorders, written, averaged, stored, produced, handled>>
  BY DEF Restart, base
<1>2. Places' = Places /\ Real' = Real
  BY <1>1 DEF Places, Real
<1>3. <<>> \in Seq(Records) /\ Len(<<>>) = 0
  BY EmptySeq
<1>4. Zero \in Counters /\ \A k \in Kinds : Zero[k] = 0
  BY DEF Zero, Counters
<1>5. CountType'
  BY <1>1, <1>2, <1>3, <1>4 DEF CInv, CountType
<1>6. \A i \in Places : \A r : Reached(i, r)' => Reached(i, r)
  BY <1>1, <1>3 DEF Reached
<1>7. OnlyOnce'
  BY <1>1, <1>2, <1>3 DEF OnlyOnce
<1>8. NotYet'
  BY <1>1, <1>2, <1>3, <1>6, WaitingType DEF CInv, NotYet, Before
<1>9. Passed'
  BY <1>1 DEF Passed
<1>10. \A i \in Real : \A ks : Cardinality(Having(handled[i], ks)) \in Nat
  BY CountedIsFinite DEF CInv, CountType, Real
<1>11. ASSUME NEW i \in Real, NEW k \in Kinds
       PROVE  Accounted(i, written[i][k] + count[i][k], Cardinality(Having(handled[i], {k})))'
  <2>1. written[i][k] \in Nat /\ count[i][k] \in Nat /\ i \in Places
    BY DEF CInv, CountType, Counters, Real
  <2>2. written[i][k] + count[i][k] <= Cardinality(Having(handled[i], {k}))
    BY DEF CInv, Accounts, Accounted
  <2>3. count'[i][k] = 0
    BY <1>1, <1>4, <2>1
  <2>4. written'[i][k] + count'[i][k] <= Cardinality(Having(handled[i], {k}))
    BY <1>1, <1>10, <2>1, <2>2, <2>3
  <2>5. QED
    BY <1>1, <2>4 DEF Accounted
<1>12. ASSUME NEW i \in Real
       PROVE  Accounted(i, averaged[i] + samples[i], Cardinality(Having(handled[i], Successes)))'
  <2>1. averaged[i] \in Nat /\ samples[i] \in Nat /\ i \in Places
    BY DEF CInv, CountType, Real
  <2>2. averaged[i] + samples[i] <= Cardinality(Having(handled[i], Successes))
    BY DEF CInv, Accounts, Accounted
  <2>3. averaged'[i] + samples'[i] <= Cardinality(Having(handled[i], Successes))
    <3>1. averaged'[i] = averaged[i] /\ samples'[i] = 0
      BY <1>1, <2>1
    <3>2. Cardinality(Having(handled[i], Successes)) \in Nat
      BY <1>10
    <3>3. QED
      BY <2>1, <2>2, <3>1, <3>2
  <2>4. QED
    BY <1>1, <2>3 DEF Accounted
<1>13. Accounts'
  BY <1>2, <1>11, <1>12 DEF Accounts
<1>14. QED
  BY <1>5, <1>7, <1>8, <1>9, <1>13 DEF CInv

\* A thread that does not wait for a record has one.
Busy == \A t \in Threads : worker[t].pc # "take" => worker[t].rec # None

LEMMA BusyKeeps ==
  ASSUME IInv, Busy, [Next]_vars
  PROVE  Busy'
<1>1. worker \in [Threads -> WorkerState]
  BY DEF IInv, PoolType
<1>2. ASSUME NEW t \in Threads, NEW x, worker' = [worker EXCEPT ![t] = x],
             x.pc # "take" => x.rec # None
      PROVE  Busy'
  BY <1>1, <1>2 DEF Busy
<1>3. ASSUME NEW t \in Threads, Take(t) PROVE Busy'
  <2>1. Head(queue) \in Records
    BY <1>3, EmptySeq, HeadTailProperties DEF Take, IInv, PoolType
  <2> DEFINE x == [rec |-> Head(queue), at |-> 1, pc |-> "put"]
  <2>2. worker' = [worker EXCEPT ![t] = x] /\ x.rec # None
    BY <1>3, <2>1, RecordAssumption DEF Take
  <2> HIDE DEF x
  <2>3. QED
    BY <1>2, <2>2
<1>4. ASSUME NEW t \in Threads, Put(t) PROVE Busy'
  BY <1>1, <1>4 DEF Put, Busy, WorkerState
<1>5. ASSUME NEW t \in Threads, NextRecorder(t), worker[t].pc = "store" PROVE Busy'
  <2>1. CASE worker' = [worker EXCEPT ![t].at = @ + 1, ![t].pc = "put"]
    BY <1>1, <1>5, <2>1 DEF Busy, WorkerState
  <2>2. CASE worker' = [worker EXCEPT ![t] = Waiting]
    BY <1>2, <2>2, WaitingType
  <2>3. QED
    BY <1>5, <2>1, <2>2, Zenon DEF NextRecorder
<1>6. ASSUME NEW t \in Threads, PoolStep(t) PROVE Busy'
  <2>1. CASE Raise(t)
    BY <1>2, <2>1, WaitingType DEF Raise
  <2>2. QED
    BY <1>3, <1>4, <1>5, <1>6, <2>1 DEF PoolStep, Store, Skip
<1>7. ASSUME UNCHANGED worker PROVE Busy'
  BY <1>7 DEF Busy
<1>8. CASE Restart
  BY <1>8, WaitingType DEF Restart, Busy
<1>9. QED
  BY <1>6, <1>7, <1>8
     DEF Next, vars, pool, Produce, CountStep, Count, FlushCounts, FlushLatency, FlushFails, Elapse

LEMMA CNextKeeps ==
  ASSUME IInv, Busy, CInv, [Next]_vars
  PROVE  CInv'
<1>1. ASSUME NEW t \in Threads, PoolStep(t) PROVE CInv'
  BY <1>1, CTakeKeeps, CPutKeeps, CStoreKeeps, CSkipKeeps, CRaiseKeeps
     DEF PoolStep, Put, Store, Skip, Busy
<1>2. ASSUME UNCHANGED <<recorders, queue, worker, counting, count, written, samples, averaged,
                         handled, stored, produced, crashed>>
      PROVE  CInv'
  <2>1. CountType' /\ Accounts'
    BY <1>2, CountTypeSame, AccountsSame DEF CInv, CountType
  <2>2. QED
    BY <1>2, <2>1, CBookKeeps
<1>3. ASSUME NEW i \in Real, CountStep(i) \/ Elapse(i) PROVE CInv'
  <2>1. CASE FlushFails(i) \/ Elapse(i)
    BY <1>2, <2>1 DEF FlushFails, Elapse, pool, base
  <2>2. QED
    BY <1>3, <2>1, CCountKeeps, CFlushCountsKeeps, CFlushLatencyKeeps DEF CountStep
<1>4. CASE UNCHANGED vars
  BY <1>2, <1>4 DEF vars, pool, tally, base
<1>5. QED
  BY <1>1, <1>3, <1>4, CProduceKeeps, CRestartKeeps DEF Next

LEMMA CountsHold == Spec => [](IInv /\ Busy /\ CInv)
<1>1. Init => Busy
  BY DEF Init, Busy, Waiting
<1>2. IInv /\ Busy /\ CInv /\ [Next]_vars => (IInv /\ Busy /\ CInv)'
  BY NextKeeps, BusyKeeps, CNextKeeps
<1>3. QED
  BY <1>1, <1>2, InitHolds, CInitHolds, PTL DEF Spec

\* What holds of each kind holds of the kinds that are asked for.
LEMMA AddsUp ==
  ASSUME CInv, NEW i \in Real, NEW ks \in SUBSET Kinds
  PROVE  /\ SumOver(written[i], ks) \in Nat /\ SumOver(count[i], ks) \in Nat
         /\ Cardinality(Having(handled[i], ks)) \in Nat
         /\ Accounted(i, SumOver(written[i], ks) + SumOver(count[i], ks),
                      Cardinality(Having(handled[i], ks)))
<1>1. written[i] \in Counters /\ count[i] \in Counters /\ IsFiniteSet(handled[i])
  BY DEF CInv, CountType, Real
<1>2. Tallied(written[i], count[i], handled[i], ks)
  BY <1>1, SumsByKind, RecordAssumption
<1>3. \A k \in ks :
        /\ written[i][k] + count[i][k] <= Cardinality(Having(handled[i], {k}))
        /\ (~ crashed /\ recorders[i] # "elastic")
             => written[i][k] + count[i][k] = Cardinality(Having(handled[i], {k}))
  BY DEF CInv, Accounts, Accounted
<1>4. QED
  BY <1>1, <1>2, <1>3, CountedIsFinite DEF Accounted, Tallied

(* What get_traffic_stats answers comes to the records that were counted,  *)
(* for any kinds, recorders and threads, whichever of the transactions of  *)
(* RecordCountHandler fails, and whenever the process restarts: for the    *)
(* elastic recorder, and after a restart, to no more than them.            *)
THEOREM StatsAddUp == Spec => []StatsConserved
<1>1. ASSUME CInv PROVE StatsConserved
  <2>1. ASSUME NEW i \in Real, NEW success \in BOOLEAN
        PROVE  Accounted(i, GetRequestCount(i, success) + InMemory(i, success), Handled(i, success))
    <3> DEFINE ks == Ok(success)
    <3>1. ks \in SUBSET Kinds
      BY RecordAssumption DEF Ok
    <3>2. /\ GetRequestCount(i, success) = SumOver(written[i], ks)
          /\ InMemory(i, success) = SumOver(count[i], ks)
          /\ Handled(i, success) = Cardinality(Having(handled[i], ks))
      BY DEF GetRequestCount, InMemory, Handled, Having
    <3> HIDE DEF ks
    <3>3. QED
      BY <1>1, <3>1, <3>2, AddsUp
  <2>2. ASSUME NEW i \in Real PROVE Accounted(i, LatencySamples(i) + samples[i], Handled(i, TRUE))
    <3>1. Handled(i, TRUE) = Cardinality(Having(handled[i], Successes))
      BY DEF Handled, Having, Ok
    <3>2. QED
      BY <1>1, <3>1 DEF CInv, Accounts, LatencySamples
  <2>3. QED
    BY <2>1, <2>2 DEF StatsConserved
<1>2. QED
  BY <1>1, CountsHold, PTL

(* get_success_count and get_failure_count never exceed what               *)
(* get_traffic_stats will come to: a record that the SQL recorder stores   *)
(* was put on the queue of its RecordCountHandler first.                   *)
THEOREM StoredAreCounted == Spec => []StoredIsCounted
<1>1. ASSUME CInv, ~ crashed, NEW i \in Real, NEW success \in BOOLEAN, recorders[i] = "sql"
      PROVE  GetRecordCount(i, success)
               <= GetRequestCount(i, success) + InMemory(i, success) + Queued(i, success)
  <2> DEFINE ks == Ok(success)
             A == Having(stored[i], ks)
             B == Having(handled[i], ks)
             Q == {n \in 1 .. Len(counting[i]) : Kind[counting[i][n]] \in ks}
             f == [r \in A \ B |-> CHOOSE n \in Q : counting[i][n] = r]
  <2>1. ks \in SUBSET Kinds
    BY RecordAssumption DEF Ok
  <2>2. /\ GetRequestCount(i, success) = SumOver(written[i], ks)
        /\ InMemory(i, success) = SumOver(count[i], ks)
        /\ Queued(i, success) = Cardinality(Q)
        /\ GetRecordCount(i, success) = Cardinality(A)
    BY DEF GetRequestCount, InMemory, Queued, GetRecordCount, Having
  <2> HIDE DEF ks
  <2>3. /\ SumOver(written[i], ks) \in Nat /\ SumOver(count[i], ks) \in Nat
        /\ SumOver(written[i], ks) + SumOver(count[i], ks) = Cardinality(B)
    BY <1>1, <2>1, AddsUp DEF Accounted
  <2>4. \A r \in A \ B : \E n \in Q : counting[i][n] = r
    <3>1. TAKE r \in A \ B
    <3>2. Kind[r] \in ks /\ Kind[r] # Resource /\ r \in stored[i] /\ r \notin handled[i]
      BY <2>1, RecordAssumption DEF Having
    <3>3. Reached(i, r)
      BY <1>1, <3>2 DEF CInv, Passed
    <3>4. QED
      BY <3>2, <3>3 DEF Reached
  <2>5. f \in Injection(A \ B, Q)
    <3> HIDE DEF A, B, Q
    <3>1. \A r \in A \ B : f[r] \in Q /\ counting[i][f[r]] = r
      BY <2>4
    <3>2. f \in [A \ B -> Q]
      BY <3>1
    <3> HIDE DEF f
    <3>3. \A r, s \in A \ B : f[r] = f[s] => r = s
      BY <3>1
    <3>4. QED
      BY <3>2, <3>3 DEF Injection, IsInjective
  <2>6. /\ IsFiniteSet(Q) /\ Cardinality(Q) \in Nat
        /\ IsFiniteSet(B) /\ Cardinality(B) \in Nat
    <3>1. IsFiniteSet(handled[i]) /\ counting[i] \in Seq(Records)
      BY <1>1 DEF CInv, CountType, Real
    <3>2. Len(counting[i]) \in Nat
      BY <3>1, LenProperties
    <3>3. IsFiniteSet(1 .. Len(counting[i])) /\ Q \in SUBSET (1 .. Len(counting[i]))
      BY <3>2, FS_Interval
    <3> HIDE DEF Q
    <3>4. QED
      BY <3>1, <3>3, FS_Subset, FS_CardinalityType, CountedIsFinite
  <2> HIDE DEF A, B, Q, f
  <2>7. /\ IsFiniteSet(A \ B) /\ Cardinality(A \ B) \in Nat
        /\ Cardinality(A \ B) <= Cardinality(Q)
    BY <2>5, <2>6, FS_Injection, FS_CardinalityType
  <2>8. /\ IsFiniteSet((A \ B) \cup B)
        /\ Cardinality((A \ B) \cup B) = Cardinality(A \ B) + Cardinality(B) - Cardinality({})
    <3>1. (A \ B) \cap B = {}
      OBVIOUS
    <3>2. QED
      BY <2>6, <2>7, <3>1, FS_Union, Zenon
  <2>9. Cardinality({}) = 0
    BY FS_EmptySet
  <2>10. Cardinality(A) \in Nat /\ Cardinality(A) <= Cardinality((A \ B) \cup B)
    <3>1. A \in SUBSET ((A \ B) \cup B)
      OBVIOUS
    <3>2. QED
      BY <2>8, <3>1, FS_Subset, FS_CardinalityType
  <2>11. QED
    BY <2>2, <2>3, <2>6, <2>7, <2>8, <2>9, <2>10
<1>2. CInv => StoredIsCounted
  BY <1>1 DEF StoredIsCounted
<1>3. QED
  BY <1>2, CountsHold, PTL
=============================================================================
