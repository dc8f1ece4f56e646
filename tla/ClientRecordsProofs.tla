-------------------------- MODULE ClientRecordsProofs --------------------------
(***************************************************************************)
(* Proofs about ClientRecords, for any destinations and rules, rates, and  *)
(* numbers of slots, with processes that are stopped at any moment or not, *)
(* pings that never end, and rules of a protocol that has no client.       *)
(***************************************************************************)
EXTENDS ClientRecords, FiniteSetTheorems, SequenceTheorems, TLAPS

PingState == [st : {"none", "ping", "record", "done"}, dest : ToSet(Dests) \cup {None}, ok : BOOLEAN]

\* A ping that runs has a destination.
Aimed == \A i \in Pings : ping[i].st # "none" => ping[i].dest \in ToSet(Dests)

\* What a record says of its ping.
Right(r) == r.success = (r.ok = (r.dest \in Connected \cap Allowed))

\* On its way to the pipe, too.
AllRight ==
  /\ \A n \in 1 .. Len(buffer) : Right(buffer[n])
  /\ hand # None => Right(hand)
  /\ \A n \in 1 .. Len(pipe) : Right(pipe[n])

\* A round raises when a rule has no client.
Raised == ends => ~ Understood

IInv == TypeOK /\ Aimed /\ AllRight /\ Raised /\ SlotsMatch

-----------------------------------------------------------------------------
LEMMA DestsNat == Len(Dests) \in Nat \ {0} /\ Dests \in [1 .. Len(Dests) -> ToSet(Dests)]
BY ClientRecordsAssumption, LenProperties, EmptySeq

LEMMA CycleType ==
  ASSUME NEW k \in Nat
  PROVE  Cycle(k) \in ToSet(Dests)
<1>1. k % Len(Dests) \in 0 .. Len(Dests) - 1
  BY DestsNat
<1>2. QED
  BY <1>1, DestsNat DEF Cycle

LEMMA PingsType == Pings \subseteq Nat \ {0} /\ Cardinality(Pings) \in Nat
<1>1. PICK n \in Nat : Pings = 1 .. n
  BY DestsNat, ClientRecordsAssumption DEF Pings
<1>2. QED
  BY <1>1, FS_Interval

\* The record of a ping says what the rule of its destination says.
LEMMA VerdictIsRight ==
  ASSUME NEW d \in ToSet(Dests), NEW ok \in BOOLEAN
  PROVE  LET r == [dest |-> d, ok |-> ok, success |-> Verdict(d, ok)] IN r \in Rec /\ Right(r)
<1> DEFINE r == [dest |-> d, ok |-> ok, success |-> Verdict(d, ok)]
<1>1. Verdict(d, ok) \in BOOLEAN
  BY DEF Verdict
<1>2. r \in Rec /\ r.dest = d /\ r.ok = ok /\ r.success = Verdict(d, ok)
  BY <1>1 DEF Rec
<1>3. Verdict(d, ok) = (ok = (d \in Connected \cap Allowed))
  BY DEF Verdict
<1> HIDE DEF r
<1>4. Right(r)
  BY <1>2, <1>3 DEF Right
<1>5. QED
  BY <1>2, <1>4 DEF r

-----------------------------------------------------------------------------
LEMMA InitHolds == Init => IInv
<1> SUFFICES ASSUME Init PROVE IInv
  OBVIOUS
<1>1. Quiet \in PingState /\ Quiet.st = "none"
  BY DEF Quiet, PingState
<1>2. ping \in [Pings -> PingState] /\ \A i \in Pings : ping[i] = Quiet
  BY <1>1 DEF Init
<1>3. TypeOK
  <2>1. protocol \in [ToSet(Dests) -> Kinds] /\ Slots \in Nat /\ 0 \in 0 .. Len(Dests) - 1
    BY DestsNat, ClientRecordsAssumption DEF Init
  <2>2. <<>> \in Seq(Rec)
    BY EmptySeq
  <2>3. stops \in BOOLEAN /\ ends \in BOOLEAN
    BY DEF Init
  <2>4. /\ client = None /\ fresh = Procs /\ next = 0 /\ buffer = <<>> /\ hand = None
        /\ lock = None /\ pipe = <<>> /\ free = Slots /\ taken = None
    BY DEF Init
  <2>5. QED
    BY <1>2, <2>1, <2>2, <2>3, <2>4 DEF TypeOK, PingState
<1>4. Aimed /\ AllRight
  BY <1>1, <1>2 DEF Init, Aimed, AllRight
<1>5. SlotsMatch
  BY ClientRecordsAssumption DEF Init, SlotsMatch
<1>6. Raised
  BY DEF Init, Raised
<1>7. QED
  BY <1>3, <1>4, <1>5, <1>6 DEF IInv

\* A step of the process that leaves the queue alone.
LEMMA PingStep ==
  ASSUME IInv, client' \in Procs \cup {None}, fresh' \subseteq Procs,
         next' \in 0 .. Len(Dests) - 1, ping' \in [Pings -> PingState], Aimed',
         Raised', ends' \in BOOLEAN, UNCHANGED <<stops, protocol, queue>>
  PROVE  IInv'
<1>1. TypeOK'
  BY DEF IInv, TypeOK, PingState, queue
<1>2. AllRight' /\ SlotsMatch'
  BY DEF IInv, AllRight, SlotsMatch, Understood, queue
<1>3. QED
  BY <1>1, <1>2 DEF IInv

LEMMA AllQuiet ==
  ASSUME ping' = [i \in Pings |-> Quiet]
  PROVE  ping' \in [Pings -> PingState] /\ Aimed'
<1>1. Quiet \in PingState /\ Quiet.st = "none"
  BY DEF Quiet, PingState
<1>2. QED
  BY <1>1 DEF Aimed

LEMMA StartKeeps ==
  ASSUME IInv, NEW p \in Procs, Start(p)
  PROVE  IInv'
BY PingStep, DestsNat DEF Start, IInv, TypeOK, Aimed, PingState, Raised, Understood

LEMMA RoundEndsKeeps ==
  ASSUME IInv, RoundEnds
  PROVE  IInv'
BY PingStep, AllQuiet DEF RoundEnds, IInv, TypeOK, PingState, Raised, Understood

LEMMA TurnType ==
  ASSUME IInv, NEW i \in Pings
  PROVE  Begun(Turn(i)) \in PingState /\ Begun(Turn(i)).dest \in ToSet(Dests)
<1>1. next + i - 1 \in Nat
  BY PingsType DEF IInv, TypeOK
<1>2. Turn(i) \in ToSet(Dests)
  BY <1>1, CycleType DEF Turn
<1>3. QED
  BY <1>2 DEF Begun, PingState

LEMMA RoundKeeps ==
  ASSUME IInv, Round
  PROVE  IInv'
<1> DEFINE c(i) == Begun(Turn(i))
<1>1. \A i \in Pings : c(i) \in PingState /\ c(i).dest \in ToSet(Dests)
  BY TurnType
<1>2. ping' = [i \in Pings |-> c(i)]
  BY DEF Round
<1> HIDE DEF c
<1>3. ping' \in [Pings -> PingState] /\ Aimed'
  BY <1>1, <1>2 DEF Aimed
<1>4. next' \in 0 .. Len(Dests) - 1
  BY PingsType, DestsNat DEF Round, IInv, TypeOK
<1>5. QED
  BY <1>3, <1>4, PingStep DEF Round, IInv, TypeOK, Raised, Understood

LEMMA RoundRaisesKeeps ==
  ASSUME IInv, RoundRaises
  PROVE  IInv'
<1>1. PICK b \in Pings : ping' = [i \in Pings |-> IF i < b THEN Begun(Turn(i)) ELSE Quiet]
  BY Zenon DEF RoundRaises
<1> DEFINE c(i) == IF i < b THEN Begun(Turn(i)) ELSE Quiet
<1>2. \A i \in Pings : c(i) \in PingState /\ (c(i).st # "none" => c(i).dest \in ToSet(Dests))
  <2>1. Quiet \in PingState /\ Quiet.st = "none"
    BY DEF Quiet, PingState
  <2>2. QED
    BY <2>1, TurnType
<1>3. ping' = [i \in Pings |-> c(i)]
  BY <1>1
<1> HIDE DEF c
<1>4. ping' \in [Pings -> PingState] /\ Aimed'
  BY <1>2, <1>3 DEF Aimed
<1>5. Raised'
  <2>1. PICK r \in Pings : protocol[Turn(r)] = "unknown"
    BY DEF RoundRaises
  <2>2. Turn(r) \in ToSet(Dests)
    BY TurnType DEF Begun
  <2>3. QED
    BY <2>1, <2>2 DEF RoundRaises, Raised, Understood
<1>6. QED
  BY <1>4, <1>5, PingStep DEF RoundRaises, IInv, TypeOK

LEMMA PingKeeps ==
  ASSUME IInv, NEW i \in Pings, ping[i].st = "ping", Finishes(i)
  PROVE  IInv'
<1>1. ping \in [Pings -> PingState] /\ ping[i].dest \in ToSet(Dests)
  BY DEF IInv, TypeOK, PingState, Aimed
<1>2. PICK ok \in BOOLEAN : ping' = [ping EXCEPT ![i].st = "record", ![i].ok = ok]
  BY Zenon DEF Finishes
<1> DEFINE c1 == [ping[i] EXCEPT !.st = "record"]
           c  == [c1 EXCEPT !.ok = ok]
<1>3. c1 \in PingState /\ c1.dest = ping[i].dest
  BY <1>1 DEF PingState
<1>4. c \in PingState /\ c.dest = ping[i].dest
  <2> HIDE DEF c1
  <2> QED BY <1>3 DEF PingState
<1>5. ping' = [ping EXCEPT ![i] = c]
  BY <1>1, <1>2, Zenon
<1> HIDE DEF c
<1>6. ping' \in [Pings -> PingState] /\ Aimed'
  BY <1>1, <1>4, <1>5 DEF IInv, Aimed
<1>7. QED
  BY <1>6, PingStep DEF Finishes, IInv, TypeOK, Raised, Understood

-----------------------------------------------------------------------------
(* Steps of the queue.                                                     *)

LEMMA GoneKeeps ==
  ASSUME IInv, Gone, stops \/ ~ Understood
  PROVE  IInv'
<1>1. ping' \in [Pings -> PingState] /\ Aimed'
  BY AllQuiet DEF Gone
<1>2. TypeOK'
  BY <1>1, EmptySeq DEF Gone, IInv, TypeOK, PingState
<1>3. AllRight'
  BY DEF Gone, IInv, AllRight
<1>4. Raised'
  BY DEF Gone, Raised
<1>5. SlotsMatch'
  <2>1. /\ Len(buffer) \in Nat /\ Len(pipe) \in Nat /\ free \in Nat
        /\ Len(buffer') = 0
    BY LenProperties, EmptySeq DEF Gone, IInv, TypeOK
  <2>2. QED
    BY <2>1, ClientRecordsAssumption DEF Gone, IInv, SlotsMatch, Understood
<1>6. QED
  BY <1>1, <1>2, <1>3, <1>4, <1>5 DEF IInv

LEMMA RecordKeeps ==
  ASSUME IInv, NEW i \in Pings, Record(i)
  PROVE  IInv'
<1>1. /\ ping \in [Pings -> PingState] /\ ping[i].dest \in ToSet(Dests)
      /\ ping[i].ok \in BOOLEAN
  BY DEF Record, IInv, TypeOK, PingState, Aimed
<1>2. Made(i) \in Rec /\ Right(Made(i))
  BY <1>1, VerdictIsRight DEF Made
<1>3. /\ buffer \in Seq(Rec) /\ Len(buffer) \in Nat /\ Len(pipe) \in Nat
      /\ free \in 1 .. Slots /\ free' = free - 1 /\ Slots \in Nat
  BY LenProperties, ClientRecordsAssumption DEF Record, IInv, TypeOK
<1>4. ping' \in [Pings -> PingState] /\ Aimed'
  <2> DEFINE c == [ping[i] EXCEPT !.st = "done"]
  <2>1. c \in PingState /\ c.dest = ping[i].dest /\ ping' = [ping EXCEPT ![i] = c]
    BY <1>1 DEF Record, PingState
  <2> HIDE DEF c
  <2>2. QED
    BY <1>1, <2>1 DEF IInv, Aimed
<1>5. Raised' /\ UNCHANGED <<stops, protocol, client, fresh, next, ends, hand, lock, pipe, taken>>
  BY DEF Record, IInv, Raised, Understood
<1>6. CASE ends
  <2>1. buffer' = buffer /\ ~ Understood
    BY <1>6 DEF Record, IInv, Raised
  <2>2. TypeOK' /\ AllRight'
    BY <1>3, <1>4, <1>5, <2>1 DEF IInv, TypeOK, PingState, AllRight
  <2>3. SlotsMatch'
    <3> DEFINE h == IF hand = None THEN 0 ELSE 1
    <3>1. h \in 0 .. 1 /\ h' = h /\ free + (Len(buffer) + Len(pipe) + h) <= Slots
      BY <1>5 DEF IInv, SlotsMatch
    <3>2. free' + (Len(buffer') + Len(pipe') + h') <= Slots
      <4> HIDE DEF h
      <4> QED BY <1>3, <1>5, <2>1, <3>1
    <3>3. ~ Understood'
      BY <1>5, <2>1 DEF Understood
    <3>4. QED
      BY <3>2, <3>3 DEF SlotsMatch
  <2>4. QED
    BY <1>4, <1>5, <2>2, <2>3 DEF IInv
<1>7. CASE ~ ends
  <2>1. buffer' = Append(buffer, Made(i))
    BY <1>7 DEF Record
  <2>2. /\ buffer' \in Seq(Rec) /\ Len(buffer') = Len(buffer) + 1
        /\ buffer'[Len(buffer) + 1] = Made(i)
        /\ \A n \in 1 .. Len(buffer) : buffer'[n] = buffer[n]
    BY <1>2, <1>3, <2>1, AppendProperties
  <2>3. TypeOK'
    BY <1>3, <1>4, <1>5, <2>2 DEF IInv, TypeOK, PingState
  <2>4. AllRight'
    <3>1. ASSUME NEW n \in 1 .. Len(buffer') PROVE Right(buffer'[n])
      BY <1>2, <1>3, <2>2 DEF IInv, AllRight
    <3>2. QED
      BY <3>1 DEF Record, IInv, AllRight
  <2>5. SlotsMatch'
    <3> DEFINE h == IF hand = None THEN 0 ELSE 1
    <3>1. /\ h \in 0 .. 1 /\ h' = h
          /\ free + (Len(buffer) + Len(pipe) + h) <= Slots
          /\ (~ stops /\ Understood) => free + (Len(buffer) + Len(pipe) + h) = Slots
      BY <1>5 DEF IInv, SlotsMatch
    <3>2. free' + (Len(buffer') + Len(pipe') + h') = free + (Len(buffer) + Len(pipe) + h)
      <4> HIDE DEF h
      <4> QED BY <1>3, <1>5, <2>2, <3>1
    <3>3. (~ stops' /\ Understood') => (~ stops /\ Understood)
      BY <1>5 DEF Understood
    <3> HIDE DEF h
    <3>4. /\ free' + (Len(buffer') + Len(pipe') + h') <= Slots
          /\ (~ stops' /\ Understood') => free' + (Len(buffer') + Len(pipe') + h') = Slots
      BY <3>1, <3>2, <3>3, Zenon
    <3>5. QED
      BY <3>4 DEF SlotsMatch, h
  <2>6. QED
    BY <1>4, <1>5, <2>3, <2>4, <2>5 DEF IInv
<1>8. QED
  BY <1>6, <1>7

LEMMA FeedLockKeeps ==
  ASSUME IInv, FeedLock
  PROVE  IInv'
<1>1. /\ buffer \in Seq(Rec) /\ buffer # <<>> /\ Len(buffer) \in Nat \ {0}
      /\ hand' = buffer[1] /\ hand' \in Rec
      /\ buffer' \in Seq(Rec) /\ Len(buffer') = Len(buffer) - 1
      /\ \A n \in 1 .. Len(buffer') : buffer'[n] = buffer[n + 1]
  BY EmptySeq, HeadTailProperties DEF FeedLock, IInv, TypeOK
<1>2. hand' # None /\ hand = None
  BY <1>1, ClientRecordsAssumption DEF FeedLock, Rec
<1>3. TypeOK' /\ Aimed' /\ Raised'
  BY <1>1 DEF FeedLock, IInv, TypeOK, Aimed, Raised, Understood, process
<1>4. AllRight'
  BY <1>1 DEF FeedLock, IInv, AllRight
<1>5. SlotsMatch'
  <2>1. Len(pipe) \in Nat /\ free \in Nat
    BY LenProperties DEF IInv, TypeOK
  <2>2. QED
    BY <1>1, <1>2, <2>1 DEF FeedLock, IInv, SlotsMatch, Understood, process
<1>6. QED
  BY <1>3, <1>4, <1>5 DEF IInv

LEMMA FeedWriteKeeps ==
  ASSUME IInv, FeedWrite
  PROVE  IInv'
<1>1. hand \in Rec /\ hand # None /\ pipe \in Seq(Rec) /\ Len(pipe) \in Nat
  BY LenProperties DEF FeedWrite, IInv, TypeOK
<1>2. /\ pipe' \in Seq(Rec) /\ Len(pipe') = Len(pipe) + 1 /\ pipe'[Len(pipe) + 1] = hand
      /\ \A n \in 1 .. Len(pipe) : pipe'[n] = pipe[n]
  BY <1>1, AppendProperties DEF FeedWrite
<1>3. TypeOK' /\ Aimed' /\ Raised'
  BY <1>2 DEF FeedWrite, IInv, TypeOK, Aimed, Raised, Understood, process
<1>4. AllRight'
  <2>1. ASSUME NEW n \in 1 .. Len(pipe') PROVE Right(pipe'[n])
    BY <1>1, <1>2 DEF IInv, AllRight
  <2>2. QED
    BY <2>1 DEF FeedWrite, IInv, AllRight
<1>5. SlotsMatch'
  <2>1. Len(buffer) \in Nat /\ free \in Nat
    BY LenProperties DEF IInv, TypeOK
  <2>2. QED
    BY <1>1, <1>2, <2>1 DEF FeedWrite, IInv, SlotsMatch, Understood, process
<1>6. QED
  BY <1>3, <1>4, <1>5 DEF IInv

LEMMA FeedReleaseKeeps ==
  ASSUME IInv, FeedRelease
  PROVE  IInv'
BY DEF FeedRelease, IInv, TypeOK, Aimed, AllRight, Raised, SlotsMatch, Understood, process

LEMMA TakeKeeps ==
  ASSUME IInv, Take
  PROVE  IInv'
<1>1. /\ pipe \in Seq(Rec) /\ Len(pipe) \in Nat \ {0} /\ taken' \in Rec
      /\ pipe' \in Seq(Rec) /\ Len(pipe') = Len(pipe) - 1
      /\ \A n \in 1 .. Len(pipe') : pipe'[n] = pipe[n + 1]
  BY EmptySeq, HeadTailProperties DEF Take, IInv, TypeOK
<1>2. Len(buffer) \in Nat /\ free \in Nat
  BY LenProperties DEF IInv, TypeOK
<1>3. SlotsMatch' /\ free' \in 0 .. Slots
  <2>1. /\ free' = free + 1 /\ Len(pipe') = Len(pipe) - 1
        /\ buffer' = buffer /\ hand' = hand /\ stops' = stops
        /\ Understood' = Understood
    BY <1>1 DEF Take, process, Understood
  <2> DEFINE h == IF hand = None THEN 0 ELSE 1
  <2>2. h \in 0 .. 1 /\ h' = h
    BY <2>1
  <2>3. /\ free + (Len(buffer) + Len(pipe) + h) <= Slots
        /\ (~ stops /\ Understood) => free + (Len(buffer) + Len(pipe) + h) = Slots
    BY DEF IInv, SlotsMatch
  <2>4. /\ free' + (Len(buffer') + Len(pipe') + h') <= Slots
        /\ (~ stops' /\ Understood') => free' + (Len(buffer') + Len(pipe') + h') = Slots
    <3> HIDE DEF h
    <3>1. free' + (Len(buffer') + Len(pipe') + h') = free + (Len(buffer) + Len(pipe) + h)
      BY <1>1, <1>2, <2>1, <2>2
    <3>2. (~ stops' /\ Understood') => (~ stops /\ Understood)
      BY <2>1, Zenon
    <3>3. QED
      BY <2>3, <3>1, <3>2, Zenon
  <2>5. SlotsMatch'
    BY <2>4 DEF SlotsMatch
  <2>6. free' \in 0 .. Slots
    <3> HIDE DEF h
    <3> QED BY <1>1, <1>2, <2>1, <2>2, <2>4, ClientRecordsAssumption
  <2>7. QED
    BY <2>5, <2>6
<1>4. TypeOK' /\ Aimed' /\ Raised'
  BY <1>1, <1>3 DEF Take, IInv, TypeOK, Aimed, Raised, Understood, process
<1>5. AllRight'
  BY <1>1 DEF Take, IInv, AllRight
<1>6. QED
  BY <1>3, <1>4, <1>5 DEF IInv

-----------------------------------------------------------------------------
LEMMA NextKeeps == IInv /\ [Next]_vars => IInv'
<1> SUFFICES ASSUME IInv, [Next]_vars PROVE IInv'
  OBVIOUS
<1>1. CASE UNCHANGED vars
  BY <1>1 DEF vars, process, queue, IInv, TypeOK, Aimed, AllRight, Raised, Understood, SlotsMatch
<1>2. CASE Stop \/ Exit
  BY <1>2, GoneKeeps DEF Stop, Exit, IInv, Raised
<1>3. CASE \E i \in Pings : ClientStep(i) \/ PingHttp(i)
  BY <1>3, PingKeeps, RecordKeeps DEF ClientStep, Ping, PingHttp
<1>4. QED
  BY <1>1, <1>2, <1>3, StartKeeps, RoundKeeps, RoundRaisesKeeps, RoundEndsKeeps,
     FeedLockKeeps, FeedWriteKeeps, FeedReleaseKeeps, TakeKeeps DEF Next, Feed

-----------------------------------------------------------------------------
(* The state of the process and of the record queue is well typed.         *)
THEOREM ClientTypes == Spec => []TypeOK
<1>1. IInv => TypeOK
  BY DEF IInv
<1>2. QED
  BY <1>1, InitHolds, NextKeeps, PTL DEF Spec

(* Slots that are taken and records that are on their way match, for any   *)
(* size of the queue and any number of ping threads (multiprocessing.Queue *)
(* as TrafficClient uses it) and rules of any protocol: a process that is  *)
(* stopped, or ends after a round that raised, may lose slots, and gives   *)
(* none back twice.                                                        *)
THEOREM SlotsKept == Spec => []SlotsMatch
<1>1. IInv => SlotsMatch
  BY DEF IInv
<1>2. QED
  BY <1>1, InitHolds, NextKeeps, PTL DEF Spec

(* Every record that the pool threads find agrees with the rule of its     *)
(* destination (is_traffic_successful), for any rules.                     *)
THEOREM RecordsRight == Spec => []VerdictRight
<1>1. IInv => VerdictRight
  <2> SUFFICES ASSUME IInv, NEW r \in ToSet(pipe)
               PROVE  Right(r)
    BY DEF VerdictRight, Right
  <2>1. PICK n \in DOMAIN pipe : r = pipe[n]
    BY DEF ToSet
  <2>2. n \in 1 .. Len(pipe)
    BY <2>1, LenProperties DEF IInv, TypeOK
  <2>3. QED
    BY <2>1, <2>2 DEF IInv, AllRight
<1>2. QED
  BY <1>1, InitHolds, NextKeeps, PTL DEF Spec
=============================================================================
