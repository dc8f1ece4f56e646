------------------------------ MODULE ClientRecords ------------------------------
(***************************************************************************)
(* The client process of an Axon node: TrafficClient, which pings its      *)
(* destinations in rounds, and the clients that record each ping on the    *)
(* record queue, from which the pool threads of the Axon process take it.  *)
(*                                                                         *)
(* The queue is a multiprocessing.Queue (external): put takes one of a     *)
(* number of slots and appends to a buffer of the putting process; a       *)
(* feeder thread of that process takes the write lock, writes the record   *)
(* to a pipe and releases the lock; get takes a record off the pipe and    *)
(* gives its slot back. Slots and lock are shared by all processes.        *)
(***************************************************************************)
EXTENDS Integers, SequencesExt

CONSTANTS
  Procs,     \* bound: client processes, one after the other
  Dests,     \* the destinations of the client rules, in their order
  Connected, \* the destinations whose rule says connected
  Allowed,   \* the destinations whose rule has the action ALLOW
  Protocols, \* what is looked at: functions from the destinations to a kind of protocol
  Rate,      \* request_rate: pings in a round
  Slots,     \* RECORD_QUEUE_SIZE
  None       \* no process, no record

\* What the protocol of a rule comes to: a socket with a timeout (TCP, UDP), urlopen
\* without one (HTTP), or no client at all.
Kinds == {"socket", "http", "unknown"}

ASSUME ClientRecordsAssumption ==
  /\ Dests \in Seq(ToSet(Dests)) /\ Dests # <<>> /\ IsInjective(Dests)
  /\ Protocols \subseteq [ToSet(Dests) -> Kinds]
  /\ Rate \in Nat \ {0} /\ Slots \in Nat \ {0}
  /\ None \notin Procs \cup [dest : ToSet(Dests), ok : BOOLEAN, success : BOOLEAN]

VARIABLES
  stops,    \* can the process be told to stop (SIGTERM)? It never changes
  protocol, \* protocol[d]: of the rule for d; it never changes
  client,   \* the client process that runs, or None
  fresh,    \* processes not used yet
  next,     \* position of the cycle through Dests
  ping,     \* ping[i]: the i-th ping thread of the round
  ends,     \* has the round raised, so that the process is about to end?
  buffer,   \* records the process has put and its feeder has not written
  hand,     \* the record the feeder is writing
  lock,     \* the process that holds the write lock
  pipe,     \* records in the pipe
  free,     \* free slots
  taken     \* the record a pool thread took last

process == <<stops, protocol, client, fresh, next, ping, ends>>
queue == <<buffer, hand, lock, pipe, free, taken>>
vars == <<process, queue>>

\* A round has no more pings than there are destinations.
Pings == 1 .. IF Rate < Len(Dests) THEN Rate ELSE Len(Dests)

Quiet == [st |-> "none", dest |-> None, ok |-> FALSE]

\* Every rule has a protocol that has a client.
Understood == \A d \in ToSet(Dests) : protocol[d] # "unknown"

Init ==
  /\ stops \in BOOLEAN
  /\ protocol \in Protocols
  /\ client = None /\ ends = FALSE
  /\ fresh = Procs
  /\ next = 0
  /\ ping = [i \in Pings |-> Quiet]
  /\ buffer = <<>> /\ hand = None /\ lock = None
  /\ pipe = <<>> /\ free = Slots /\ taken = None

Start(p) ==
  /\ client = None /\ p \in fresh
  /\ client' = p
  /\ fresh' = fresh \ {p}
  /\ next' = 0
  /\ UNCHANGED <<stops, protocol, ping, ends, queue>>

\* The process is gone with all its threads, and what they hold of the queue is
\* not given back.
Gone ==
  /\ client' = None /\ ends' = FALSE
  /\ ping' = [i \in Pings |-> Quiet]
  /\ buffer' = <<>> /\ hand' = None
  /\ UNCHANGED <<stops, protocol, fresh, next, lock, pipe, free, taken>>

\* SIGTERM ends the process wherever its threads are.
Stop == stops /\ client # None /\ Gone

\* A process whose round has raised waits until its feeder has written what was put
\* before, and ends.
Exit == client # None /\ ends /\ buffer = <<>> /\ hand = None /\ lock # client /\ Gone

-----------------------------------------------------------------------------
(* A round of pings.                                                       *)

Cycle(k) == Dests[(k % Len(Dests)) + 1]

Turn(i) == Cycle(next + i - 1)

\* A thread has been started that pings d.
Begun(d) == [st |-> "ping", dest |-> d, ok |-> FALSE]

RoundBegins == client # None /\ ~ ends /\ \A i \in Pings : ping[i].st = "none"

\* Mutant: every round begins with the first destination.
RoundFromStart ==
  /\ RoundBegins /\ \A i \in Pings : protocol[Cycle(i - 1)] # "unknown"
  /\ ping' = [i \in Pings |-> Begun(Cycle(i - 1))]
  /\ UNCHANGED <<stops, protocol, client, fresh, next, ends, queue>>

\* The cycle goes on where the last round left it.
Round ==
  /\ RoundBegins /\ \A i \in Pings : protocol[Turn(i)] # "unknown"
  /\ ping' = [i \in Pings |-> Begun(Turn(i))]
  /\ next' = (next + Cardinality(Pings)) % Len(Dests)
  /\ UNCHANGED <<stops, protocol, client, fresh, ends, queue>>

\* A rule without a client: the main thread raises, when it has started the pings of
\* the rules before, and nobody joins them.
RoundRaises ==
  /\ RoundBegins
  /\ \E b \in Pings :
       /\ protocol[Turn(b)] = "unknown"
       /\ \A i \in Pings : i < b => protocol[Turn(i)] # "unknown"
       /\ ping' = [i \in Pings |-> IF i < b THEN Begun(Turn(i)) ELSE Quiet]
  /\ ends' = TRUE
  /\ UNCHANGED <<stops, protocol, client, fresh, next, queue>>

\* A ping succeeds or fails.
Finishes(i) ==
  /\ \E ok \in BOOLEAN : ping' = [ping EXCEPT ![i].st = "record", ![i].ok = ok]
  /\ UNCHANGED <<stops, protocol, client, fresh, next, ends, queue>>

\* Over a socket: two attempts, with a timeout each.
Ping(i) == ping[i].st = "ping" /\ protocol[ping[i].dest] # "http" /\ Finishes(i)

\* urlopen without a timeout ends when the other side does something, if it ever does.
PingHttp(i) == ping[i].st = "ping" /\ protocol[ping[i].dest] = "http" /\ Finishes(i)

\* Mutant: only the action is looked at.
VerdictOfAction(d, ok) == (d \in Allowed) = ok

\* is_traffic_successful
Verdict(d, ok) ==
  IF d \notin Connected THEN (d \in Connected) = ok ELSE (d \in Allowed) = ok

\* What a ping puts on the queue.
Made(i) ==
  [dest |-> ping[i].dest, ok |-> ping[i].ok, success |-> Verdict(ping[i].dest, ping[i].ok)]

\* Mutant: a record that finds the queue full is dropped.
RecordDrops(i) ==
  /\ ping[i].st = "record"
  /\ ping' = [ping EXCEPT ![i].st = "done"]
  /\ IF free = 0 THEN UNCHANGED <<free, buffer>>
     ELSE /\ free' = free - 1
          /\ buffer' = IF ends THEN buffer ELSE Append(buffer, Made(i))
  /\ UNCHANGED <<stops, protocol, client, fresh, next, ends, hand, lock, pipe, taken>>

\* put waits for a free slot. A feeder that has been told to end does not write what
\* is put after that.
Record(i) ==
  /\ ping[i].st = "record" /\ free > 0
  /\ ping' = [ping EXCEPT ![i].st = "done"]
  /\ free' = free - 1
  /\ buffer' = IF ends THEN buffer ELSE Append(buffer, Made(i))
  /\ UNCHANGED <<stops, protocol, client, fresh, next, ends, hand, lock, pipe, taken>>

\* Mutant: the process ends with the round, and does not wait for its feeder.
RoundEndsProcess == (\A i \in Pings : ping[i].st = "done") /\ Gone

\* All ping threads are joined, and the process sleeps.
RoundEnds ==
  /\ \A i \in Pings : ping[i].st = "done"
  /\ ping' = [i \in Pings |-> Quiet]
  /\ UNCHANGED <<stops, protocol, client, fresh, next, ends, queue>>

-----------------------------------------------------------------------------
(* The record queue.                                                       *)

FeedLock ==
  /\ client # None /\ buffer # <<>> /\ hand = None /\ lock = None
  /\ lock' = client
  /\ hand' = Head(buffer)
  /\ buffer' = Tail(buffer)
  /\ UNCHANGED <<process, pipe, free, taken>>

FeedWrite ==
  /\ client # None /\ lock = client /\ hand # None
  /\ pipe' = Append(pipe, hand)
  /\ hand' = None
  /\ UNCHANGED <<process, buffer, lock, free, taken>>

FeedRelease ==
  /\ client # None /\ lock = client /\ hand = None
  /\ lock' = None
  /\ UNCHANGED <<process, buffer, hand, pipe, free, taken>>

\* A pool thread of the Axon process gets a record.
Take ==
  /\ pipe # <<>>
  /\ taken' = Head(pipe)
  /\ pipe' = Tail(pipe)
  /\ free' = free + 1
  /\ UNCHANGED <<process, buffer, hand, lock>>

-----------------------------------------------------------------------------
ClientStep(i) == Ping(i) \/ Record(i)

Feed == FeedLock \/ FeedWrite \/ FeedRelease

Next ==
  \/ \E p \in Procs : Start(p)
  \/ Stop \/ Exit
  \/ Round \/ RoundRaises \/ RoundEnds
  \/ \E i \in Pings : ClientStep(i) \/ PingHttp(i)
  \/ Feed
  \/ Take

Spec == Init /\ [][Next]_vars

\* The threads of the process run on, and so do the pool threads. Nobody has to answer
\* an HTTP request.
FairSpec ==
  /\ Spec
  /\ WF_vars(Round) /\ WF_vars(RoundRaises) /\ WF_vars(RoundEnds) /\ WF_vars(Exit)
  /\ WF_vars(Feed) /\ WF_vars(Take)
  /\ \A i \in Pings : WF_vars(ClientStep(i))

-----------------------------------------------------------------------------
Rec == [dest : ToSet(Dests), ok : BOOLEAN, success : BOOLEAN]

TypeOK ==
  /\ stops \in BOOLEAN
  /\ protocol \in [ToSet(Dests) -> Kinds] /\ ends \in BOOLEAN
  /\ client \in Procs \cup {None} /\ fresh \subseteq Procs
  /\ next \in 0 .. Len(Dests) - 1
  /\ ping \in [Pings -> [st : {"none", "ping", "record", "done"},
                         dest : ToSet(Dests) \cup {None}, ok : BOOLEAN]]
  /\ buffer \in Seq(Rec) /\ hand \in Rec \cup {None} /\ lock \in Procs \cup {None}
  /\ pipe \in Seq(Rec) /\ free \in 0 .. Slots /\ taken \in Rec \cup {None}

(* A record says success when the ping did what its rule says: it got      *)
(* through if and only if the two are connected and the traffic allowed.   *)
VerdictRight ==
  \A r \in ToSet(pipe) : r.success = (r.ok = (r.dest \in Connected \cap Allowed))

(* Every slot that is taken belongs to a record that is on its way, so the *)
(* queue does not fill up by itself, as long as no process is stopped and  *)
(* every rule has a client; and where processes end early, no slot is given*)
(* back twice, so that the queue never holds more than its room.           *)
SlotsMatch ==
  LET held == Len(buffer) + Len(pipe) + (IF hand = None THEN 0 ELSE 1)
  IN free + held <= Slots /\ ((~ stops /\ Understood) => free + held = Slots)

\* The ping waits for an answer to its HTTP request.
Waits(i) == ping[i].st = "ping" /\ protocol[ping[i].dest] = "http"

(* With more destinations than pings in a round, every destination still   *)
(* has its turn again and again: as long as no process is stopped, every   *)
(* rule has a client, and no HTTP request waits for ever, which nothing in *)
(* the code sees to (urlopen in HTTPClient has no timeout).                *)
EveryDestServed ==
  (\A i \in Pings : []<>~ Waits(i)) =>
    \A d \in ToSet(Dests) :
      (client # None /\ ~ stops /\ Understood) ~> (\E i \in Pings : ping[i].dest = d)

(* A ping is recorded: its record reaches a pool thread, if no process is  *)
(* stopped and every rule has a client, also when another ping of the      *)
(* round never ends.                                                       *)
RecordArrives ==
  \A d \in ToSet(Dests) :
    (~ stops /\ Understood
       /\ \E i \in Pings : ping[i] = [st |-> "record", dest |-> d, ok |-> TRUE])
      ~> (taken # None /\ taken.dest = d)

(* As the rounds should be: no destination keeps the others from theirs.   *)
ServedAlways ==
  \A d \in ToSet(Dests) :
    (client # None /\ ~ stops) ~> (\E i \in Pings : ping[i].dest = d)

(* As it should be when processes are stopped too: a record arrives unless *)
(* its own process is stopped, and not because an earlier one was.         *)
ArrivesDespiteStops ==
  \A d \in ToSet(Dests), p \in Procs :
    (client = p /\ \E i \in Pings : ping[i] = [st |-> "record", dest |-> d, ok |-> TRUE])
      ~> (client # p \/ (taken # None /\ taken.dest = d))
=============================================================================
