---------------------------- MODULE NodePartsProofs ----------------------------
(***************************************************************************)
(* Proofs about NodeParts: what the configuration store and the client     *)
(* agent of a node promise, for any parameters and values, managers and    *)
(* processes, when calls do not overlap.                                   *)
(***************************************************************************)
EXTENDS NodeParts, TLAPS

OneAtATime == \A t, u \in Threads : t = u

(***************************************************************************)
(* The configuration store.                                                *)
(***************************************************************************)
\* A call that has a value to write has a parameter to write it to, and the
\* value is one that may be found; what is acknowledged is in the table.
Called ==
  \A t \in Threads :
    call[t].pc # "idle" =>
      /\ call[t].param \in Params /\ call[t].val \in Kinds
      /\ call[t].val \in may[call[t].param]
      /\ call[t].pc = "reply" => db[call[t].param] = Config!Row(call[t].val)

ConfigInv == Config!TypeOK /\ Called /\ Config!AckedSurvives

-----------------------------------------------------------------------------
(* A value is what Back says when it has come back from its row, and comes *)
(* back from there unchanged.                                              *)
LEMMA Converts ==
  ASSUME NEW v \in Config!Held
  PROVE  /\ v \in Config!Value /\ v # Absent /\ Config!Row(v) # Absent
         /\ Config!TypeHandler(Config!Row(v)) = Config!Back(v)
         /\ Config!Back(v) \in Config!Held /\ Config!Back(Config!Back(v)) = Config!Back(v)
<1>1. v \in Config!Value
  BY PartsAssumption DEF Config!ConfigAssumption, Config!Held, Config!Back, Config!Value
<1>2. /\ v = [type |-> v.type, data |-> v.data] /\ v.type \in Config!Types
      /\ v.type = "bool" => v \in {Config!False, Config!True}
      /\ v.type # "bool" => v.data \in STRING
  BY <1>1 DEF Config!Value, Config!Types, Config!False, Config!True
<1> DEFINE j == [type |-> IF v.type \in {"tuple", "set"} THEN "list" ELSE v.type, data |-> v.data]
           row == [value |-> j, typename |-> v.type]
<1>3. j \in Config!Value /\ j.data = v.data
  BY <1>1, <1>2 DEF Config!Value, Config!Types, Config!False, Config!True
<1>4. row = Config!Row(v) /\ row.value = j /\ row.typename = v.type
  BY DEF Config!Row
<1>5. row \in [value : Config!Value, typename : Config!Types]
  BY <1>2, <1>3
<1>6. Config!Row(v) # Absent /\ v # Absent
  BY PartsAssumption, <1>1, <1>4, <1>5 DEF Config!ConfigAssumption
<1>7. v.type # "bool" => Config!Back(v) = v
  BY DEF Config!Back, Config!True
<1>8. v.type = "bool" => Config!Back(v) = [type |-> "bool", data |-> "false"]
  BY <1>2 DEF Config!Back, Config!True, Config!False
<1>9. Config!TypeHandler(Config!Row(v)) = Config!Back(v)
  <2>1. CASE v.type \in {"tuple", "set"}
    BY <1>2, <1>3, <1>4, <1>7, <2>1 DEF Config!TypeHandler
  <2>2. CASE v.type = "bool"
    <3>1. j.type = "bool" /\ j # [type |-> "str", data |-> "True"]
      BY <2>2
    <3>2. QED
      BY <1>2, <1>4, <1>8, <2>2, <3>1 DEF Config!TypeHandler
  <2>3. CASE v.type \notin {"tuple", "set", "bool"}
    <3>1. j = v
      BY <1>2, <2>3
    <3>2. QED
      BY <1>4, <1>7, <2>3, <3>1 DEF Config!TypeHandler
  <2>4. QED
    BY <2>1, <2>2, <2>3
<1>10. Config!Back(v) \in Config!Held
  BY DEF Config!Held, Config!Back
<1>11. Config!Back(Config!Back(v)) = Config!Back(v)
  BY DEF Config!Back, Config!True, Config!False
<1>12. QED
  BY <1>1, <1>6, <1>9, <1>10, <1>11

\* What is loaded of a table is what the values its rows were made of have become.
LEMMA LoadedValue ==
  ASSUME NEW table, NEW p \in Params
  PROVE  /\ table[p] = Absent => Config!Loaded(table)[p] = Default[p]
         /\ \A v \in Config!Held : table[p] = Config!Row(v) => Config!Loaded(table)[p] = Config!Back(v)
         /\ Default[p] \in Kinds \cup {Absent}
BY PartsAssumption, Converts DEF Config!Loaded, Config!ConfigAssumption

\* No value stands for itself as no value.
LEMMA BackOfNone == Config!Back(Absent) = Absent /\ Kinds \subseteq Config!Held
<1>1. Config!True \in Config!Value
  BY DEF Config!Value
<1>2. Absent # Config!True
  BY <1>1, PartsAssumption DEF Config!ConfigAssumption
<1>3. QED
  BY <1>2 DEF Config!Back, Config!Held

LEMMA ConfigInit == OneAtATime /\ Config!Init => ConfigInv
<1> SUFFICES ASSUME OneAtATime, Config!Init PROVE ConfigInv
  OBVIOUS
<1>1. db = [p \in Params |-> IF Default[p] = Absent THEN Absent ELSE Config!Row(Default[p])]
  BY DEF Config!Init, Config!Stored
<1>2. db \in [Params -> {Absent} \cup {Config!Row(v) : v \in Config!Held}]
  BY PartsAssumption, BackOfNone, <1>1 DEF Config!ConfigAssumption
<1>3. \A p \in Params : Config!Loaded(db)[p] = Config!Back(Default[p])
  BY <1>1, LoadedValue, BackOfNone
<1>4. Config!TypeOK
  BY PartsAssumption, BackOfNone, <1>2 DEF Config!Init, Config!TypeOK, Config!Idle, Config!ConfigAssumption
<1>5. Called
  BY DEF Config!Init, Called, Config!Idle
<1>6. Config!AckedSurvives
  BY <1>3 DEF Config!Init, Config!AckedSurvives
<1>7. QED
  BY <1>4, <1>5, <1>6 DEF ConfigInv

-----------------------------------------------------------------------------
LEMMA BeginKeeps ==
  ASSUME OneAtATime, ConfigInv, NEW t \in Threads, NEW p \in Params, NEW v \in Kinds, Config!Begin(t, p, v)
  PROVE  ConfigInv'
<1> DEFINE c == [pc |-> "read", param |-> p, val |-> v, found |-> FALSE]
<1>1. /\ cache' = [cache EXCEPT ![p] = v] /\ call' = [call EXCEPT ![t] = c]
      /\ may' = [may EXCEPT ![p] = @ \cup {v}] /\ db' = db
  BY DEF Config!Begin
<1>2. call'[t] = c /\ \A u \in Threads : u = t
  BY <1>1 DEF ConfigInv, Config!TypeOK, OneAtATime
<1>3. may'[p] = may[p] \cup {v} /\ \A q \in Params : may[q] \subseteq may'[q]
  BY <1>1 DEF ConfigInv, Config!TypeOK
<1>4. Config!TypeOK'
  BY <1>1, BackOfNone DEF ConfigInv, Config!TypeOK
<1>5. Called'
  BY <1>2, <1>3 DEF Called
<1>6. Config!AckedSurvives'
  BY <1>1, <1>3 DEF ConfigInv, Config!AckedSurvives, Config!Loaded
<1>7. QED
  BY <1>4, <1>5, <1>6 DEF ConfigInv

LEMMA SetCachedKeeps ==
  ASSUME OneAtATime, ConfigInv, NEW t \in Threads, NEW p \in Params, NEW v \in Kinds, Config!SetCached(t, p, v)
  PROVE  ConfigInv'
<1>1. Config!TypeOK'
  BY BackOfNone DEF Config!SetCached, ConfigInv, Config!TypeOK
<1>2. Called' /\ Config!AckedSurvives'
  BY DEF Config!SetCached, ConfigInv, Called, Config!AckedSurvives, Config!Loaded
<1>3. QED
  BY <1>1, <1>2 DEF ConfigInv

LEMMA ReadRowKeeps ==
  ASSUME OneAtATime, ConfigInv, NEW t \in Threads, Config!ReadRow(t)
  PROVE  ConfigInv'
<1> DEFINE c == [call[t] EXCEPT !.pc = "write", !.found = db[call[t].param] # Absent]
<1>1. call' = [call EXCEPT ![t] = c] /\ UNCHANGED <<cache, db, may>> /\ call[t].pc = "read"
  BY DEF Config!ReadRow, Config!At
<1>2. c \in [pc : {"idle", "read", "write", "reply"}, param : Params \cup {Absent},
             val : Kinds \cup {Absent}, found : BOOLEAN]
  BY DEF ConfigInv, Config!TypeOK
<1>3. c.pc = "write" /\ c.param = call[t].param /\ c.val = call[t].val
  BY DEF ConfigInv, Config!TypeOK
<1> HIDE DEF c
<1>4. call'[t] = c /\ \A u \in Threads : u = t
  BY <1>1 DEF ConfigInv, Config!TypeOK, OneAtATime
<1>5. Config!TypeOK'
  BY <1>1, <1>2 DEF ConfigInv, Config!TypeOK
<1>6. Called'
  BY <1>1, <1>3, <1>4 DEF ConfigInv, Called
<1>7. Config!AckedSurvives'
  BY <1>1 DEF ConfigInv, Config!AckedSurvives, Config!Loaded
<1>8. QED
  BY <1>5, <1>6, <1>7 DEF ConfigInv

\* A call that ends, with nothing done, takes nothing away.
LEMMA EndKeeps ==
  ASSUME OneAtATime, ConfigInv, NEW t \in Threads, call' = [call EXCEPT ![t] = Config!Idle],
         UNCHANGED <<cache, db, may>>
  PROVE  ConfigInv'
<1>1. call'[t] = Config!Idle /\ \A u \in Threads : u = t
  BY DEF ConfigInv, Config!TypeOK, OneAtATime
<1>2. Config!TypeOK'
  BY DEF ConfigInv, Config!TypeOK, Config!Idle
<1>3. Called'
  BY <1>1 DEF Called, Config!Idle
<1>4. Config!AckedSurvives'
  BY DEF ConfigInv, Config!AckedSurvives, Config!Loaded
<1>5. QED
  BY <1>2, <1>3, <1>4 DEF ConfigInv

LEMMA WriteRowKeeps ==
  ASSUME OneAtATime, ConfigInv, NEW t \in Threads, Config!WriteRow(t)
  PROVE  ConfigInv'
<1> DEFINE p == call[t].param
           v == call[t].val
           c == [call[t] EXCEPT !.pc = "reply"]
<1>1. CASE ~ call[t].found /\ db[p] # Absent
  BY <1>1, EndKeeps DEF Config!WriteRow
<1>2. CASE ~ (~ call[t].found /\ db[p] # Absent)
  <2>1. /\ db' = [db EXCEPT ![p] = Config!Row(v)] /\ call' = [call EXCEPT ![t] = c]
        /\ UNCHANGED <<cache, may>> /\ call[t].pc = "write"
    BY <1>2 DEF Config!WriteRow, Config!At
  <2>2. p \in Params /\ v \in Kinds /\ v \in may[p]
    BY <2>1 DEF ConfigInv, Called
  <2>3. c \in [pc : {"idle", "read", "write", "reply"}, param : Params \cup {Absent},
               val : Kinds \cup {Absent}, found : BOOLEAN]
    BY DEF ConfigInv, Config!TypeOK
  <2>4. c.pc = "reply" /\ c.param = p /\ c.val = v
    BY DEF ConfigInv, Config!TypeOK
  <2> HIDE DEF c, p, v
  <2>5. call'[t] = c /\ \A u \in Threads : u = t
    BY <2>1 DEF ConfigInv, Config!TypeOK, OneAtATime
  <2>6. Config!TypeOK'
    BY <2>1, <2>2, <2>3, BackOfNone DEF ConfigInv, Config!TypeOK
  <2>7. db'[p] = Config!Row(v) /\ \A q \in Params \ {p} : db'[q] = db[q]
    BY <2>1, <2>2 DEF ConfigInv, Config!TypeOK
  <2>8. Called'
    BY <2>1, <2>2, <2>4, <2>5, <2>7 DEF Called
  <2>9. Config!AckedSurvives'
    <3>1. Config!Loaded(db')[p] = Config!Back(v)
      BY <2>2, <2>7, LoadedValue, BackOfNone
    <3>2. \A q \in Params \ {p} : Config!Loaded(db')[q] = Config!Loaded(db)[q]
      BY <2>7 DEF Config!Loaded
    <3>3. QED
      BY <2>1, <2>2, <3>1, <3>2 DEF ConfigInv, Config!AckedSurvives
  <2>10. QED
    BY <2>6, <2>8, <2>9 DEF ConfigInv
<1>3. QED
  BY <1>1, <1>2

LEMMA ReplyKeeps ==
  ASSUME OneAtATime, ConfigInv, NEW t \in Threads, Config!Reply(t)
  PROVE  ConfigInv'
<1> DEFINE p == call[t].param
           v == call[t].val
<1>1. /\ call' = [call EXCEPT ![t] = Config!Idle] /\ may' = [may EXCEPT ![p] = {v}]
      /\ UNCHANGED <<cache, db>> /\ call[t].pc = "reply"
  BY DEF Config!Reply, Config!At
<1>2. p \in Params /\ v \in Kinds /\ db[p] = Config!Row(v)
  BY <1>1 DEF ConfigInv, Called
<1> HIDE DEF p, v
<1>3. call'[t] = Config!Idle /\ \A u \in Threads : u = t
  BY <1>1 DEF ConfigInv, Config!TypeOK, OneAtATime
<1>4. may'[p] = {v} /\ \A q \in Params \ {p} : may'[q] = may[q]
  BY <1>1, <1>2 DEF ConfigInv, Config!TypeOK
<1>5. Config!TypeOK'
  BY <1>1, <1>2 DEF ConfigInv, Config!TypeOK, Config!Idle
<1>6. Called'
  BY <1>3 DEF Called, Config!Idle
<1>7. Config!Loaded(db)[p] = Config!Back(v)
  BY <1>2, LoadedValue, BackOfNone
<1>8. Config!AckedSurvives'
  BY <1>1, <1>4, <1>7 DEF ConfigInv, Config!AckedSurvives, Config!Loaded
<1>9. QED
  BY <1>5, <1>6, <1>8 DEF ConfigInv

\* What was loaded is written back, and is what was there.
LEMMA RestartKeeps ==
  ASSUME OneAtATime, ConfigInv, Config!Restart
  PROVE  ConfigInv'
<1>1. /\ cache' = Config!Loaded(db) /\ db' = Config!Stored(cache', db) /\ may' = may
      /\ call' = [t \in Threads |-> Config!Idle]
  BY DEF Config!Restart
<1>2. \A p \in Params : Config!Loaded(db)[p] \in Config!Held \cup {Absent}
  BY LoadedValue, Converts, BackOfNone DEF ConfigInv, Config!TypeOK
<1>3. cache' \in [Params -> Config!Held \cup {Absent}]
  BY <1>1, <1>2 DEF Config!Loaded
<1>4. db' \in [Params -> {Absent} \cup {Config!Row(v) : v \in Config!Held}]
  BY <1>1, <1>3 DEF Config!Stored, ConfigInv, Config!TypeOK
<1>5. Config!TypeOK'
  BY <1>1, <1>3, <1>4 DEF ConfigInv, Config!TypeOK, Config!Idle
<1>6. Called'
  BY <1>1 DEF Called, Config!Idle
<1>7. \A p \in Params : Config!Loaded(db')[p] = Config!Back(Config!Loaded(db)[p])
  <2> SUFFICES ASSUME NEW p \in Params PROVE Config!Loaded(db')[p] = Config!Back(Config!Loaded(db)[p])
    OBVIOUS
  <2>1. CASE Config!Loaded(db)[p] = Absent
    <3>1. db'[p] = db[p]
      BY <1>1, <2>1 DEF Config!Stored
    <3>2. QED
      BY <2>1, <3>1, BackOfNone DEF Config!Loaded
  <2>2. CASE Config!Loaded(db)[p] # Absent
    <3>1. Config!Loaded(db)[p] \in Config!Held /\ db'[p] = Config!Row(Config!Loaded(db)[p])
      BY <1>1, <1>2, <2>2 DEF Config!Stored
    <3>2. QED
      BY <3>1, LoadedValue
  <2>3. QED
    BY <2>1, <2>2
<1>8. Config!AckedSurvives'
  <2>1. \A v : Config!Back(Config!Back(v)) = Config!Back(v)
    BY DEF Config!Back, Config!True, Config!False
  <2>2. QED
    BY <1>1, <1>7, <2>1 DEF ConfigInv, Config!AckedSurvives
<1>9. QED
  BY <1>5, <1>6, <1>8 DEF ConfigInv

LEMMA ConfigNext ==
  ASSUME OneAtATime, ConfigInv, [Config!Next]_config
  PROVE  ConfigInv'
<1>1. CASE UNCHANGED config
  <2>1. UNCHANGED <<cache, db, call, may>>
    BY <1>1 DEF config
  <2>2. Config!TypeOK'
    BY <2>1 DEF ConfigInv, Config!TypeOK
  <2>3. Called' /\ Config!AckedSurvives'
    BY <2>1 DEF ConfigInv, Called, Config!AckedSurvives, Config!Loaded
  <2>4. QED
    BY <2>2, <2>3 DEF ConfigInv
<1>2. ASSUME NEW t \in Threads, Config!DbError(t) PROVE ConfigInv'
  BY <1>2, EndKeeps DEF Config!DbError
<1>3. QED
  BY <1>1, <1>2, BeginKeeps, SetCachedKeeps, ReadRowKeeps, WriteRowKeeps, ReplyKeeps, RestartKeeps
     DEF Config!Next

(***************************************************************************)
(* The client agent: one thread serves, so an RPC is alone.                *)
(***************************************************************************)
\* A process that runs is in the registry of the map, or in that of the manager
\* which an RPC has in hand, or has just been started.
Serves(p) ==
  \/ mngr # None /\ reg[mngr] = p
  \/ \E t \in Threads : th[t].pc \in {"check", "publish"} /\ reg[th[t].mine] = p
  \/ \E t \in Threads : th[t].pc = "enroll" /\ th[t].held = p

\* The manager in hand is the one of the map, or there is none yet. Nothing runs
\* when a process is to be started, and when one was told to stop.
Hand(t) ==
  /\ th[t].pc \in {"check", "spawn", "enroll", "publish"} =>
       th[t].mine \in Mngrs /\ mngr \in {None, th[t].mine}
  /\ th[t].pc \in {"kill", "remove"} => mngr \in Mngrs /\ th[t].mine = mngr
  /\ th[t].pc = "kill" => th[t].held = reg[mngr]
  /\ th[t].pc \in {"spawn", "remove"} => \A p \in Procs : ~ Clients!Running(p)
  /\ th[t].pc = "enroll" => \A p \in Procs : Clients!Running(p) => p = th[t].held

ClientsInv ==
  /\ Clients!TypeOK
  /\ \A p \in Procs : Clients!Running(p) => Serves(p)
  /\ \A t \in Threads : Hand(t)

-----------------------------------------------------------------------------
LEMMA ClientsInit == ASSUME Clients!Init PROVE ClientsInv
BY DEF Clients!Init, ClientsInv, Clients!TypeOK, Clients!IdleThread, Clients!Running, Hand

\* What the RPC of the only thread becomes, with the invariant of the rest.
LEMMA Alone ==
  ASSUME OneAtATime, ClientsInv, NEW t \in Threads, NEW c, th' = [th EXCEPT ![t] = c]
  PROVE  th'[t] = c /\ \A u \in Threads : u = t
BY DEF OneAtATime, ClientsInv, Clients!TypeOK

\* A process that runs, when nothing is in hand, is the one of the map.
LEMMA Resting ==
  ASSUME OneAtATime, ClientsInv, NEW t \in Threads, NEW p \in Procs, Clients!Running(p),
         th[t].pc \notin {"check", "publish", "enroll"}
  PROVE  mngr \in Mngrs /\ mngr # None /\ reg[mngr] = p
BY DEF OneAtATime, ClientsInv, Serves, Clients!TypeOK

\* Steps that leave managers, registries and processes alone.
LEMMA MovesOn ==
  ASSUME OneAtATime, ClientsInv, NEW t \in Threads, UNCHANGED <<mngr, reg, proc>>,
         Clients!TypeOK', Hand(t)',
         \A p \in Procs : Clients!Running(p) => Serves(p)'
  PROVE  ClientsInv'
BY DEF OneAtATime, ClientsInv, Clients!Running

LEMMA BeginClients ==
  ASSUME OneAtATime, ClientsInv, NEW t \in Threads,
         NEW o \in {"start", "stopall", "stop"}, NEW l \in {"load", "visit", "match"},
         Clients!Begin(t, o, l)
  PROVE  ClientsInv'
<1>1. Clients!TypeOK' /\ th'[t].pc = l /\ th[t].pc = "idle" /\ UNCHANGED <<mngr, reg, proc>>
  BY DEF Clients!Begin, Clients!At, ClientsInv, Clients!TypeOK
<1>2. Hand(t)'
  BY <1>1 DEF Hand
<1>3. \A p \in Procs : Clients!Running(p) => Serves(p)'
  BY <1>1, Resting DEF Serves, ClientsInv, Clients!TypeOK
<1>4. QED
  BY <1>1, <1>2, <1>3, MovesOn

LEMMA LoadClients ==
  ASSUME OneAtATime, ClientsInv, NEW t \in Threads, Clients!Load(t) \/ Clients!Match(t)
  PROVE  ClientsInv'
<1>1. /\ Clients!TypeOK' /\ th'[t].pc \in {"idle", "lookup"} /\ th[t].pc \in {"load", "match"}
      /\ UNCHANGED <<mngr, reg, proc>>
  BY DEF Clients!Load, Clients!Match, Clients!Finish, Clients!IdleThread, Clients!At, ClientsInv,
         Clients!TypeOK
<1>2. Hand(t)'
  BY <1>1 DEF Hand
<1>3. \A p \in Procs : Clients!Running(p) => Serves(p)'
  BY <1>1, Resting DEF Serves
<1>4. QED
  BY <1>1, <1>2, <1>3, MovesOn

LEMMA LookupClients ==
  ASSUME OneAtATime, ClientsInv, NEW t \in Threads, Clients!Lookup(t)
  PROVE  ClientsInv'
<1>1. PICK m \in Mngrs :
        /\ IF mngr # None THEN m = mngr /\ UNCHANGED reg ELSE reg' = [reg EXCEPT ![m] = None]
        /\ th' = [th EXCEPT ![t].mine = m, ![t].pc = "check"]
  BY DEF Clients!Lookup
<1>2. th[t].pc = "lookup" /\ UNCHANGED <<saved, mngr, proc>>
  BY DEF Clients!Lookup, Clients!At
<1>3. Clients!TypeOK' /\ th'[t].pc = "check" /\ th'[t].mine = m
  BY <1>1, <1>2 DEF ClientsInv, Clients!TypeOK
<1>4. \A p \in Procs : Clients!Running(p) => mngr \in Mngrs /\ reg[mngr] = p
  BY <1>2, Resting
<1>5. Hand(t)'
  BY <1>1, <1>2, <1>3 DEF Hand
<1>6. \A p \in Procs : Clients!Running(p)' => Serves(p)'
  BY <1>1, <1>2, <1>3, <1>4, PartsAssumption
     DEF Serves, Clients!Running, Clients!ClientAgentAssumption
<1>7. QED
  BY <1>3, <1>5, <1>6 DEF ClientsInv, OneAtATime

LEMMA CheckClients ==
  ASSUME OneAtATime, ClientsInv, NEW t \in Threads, Clients!Check(t)
  PROVE  ClientsInv'
<1> DEFINE q == reg[th[t].mine]
<1>1. /\ th[t].pc = "check" /\ UNCHANGED <<mngr, reg, proc>>
      /\ th' = [th EXCEPT ![t].pc = IF q # None /\ Clients!Alive(q) THEN "publish" ELSE "spawn"]
      /\ UNCHANGED saved
  BY DEF Clients!Check, Clients!At
<1>2. Clients!TypeOK' /\ th'[t].mine = th[t].mine
      /\ th'[t].pc = IF q # None /\ Clients!Alive(q) THEN "publish" ELSE "spawn"
  BY <1>1 DEF ClientsInv, Clients!TypeOK
<1>3. th[t].mine \in Mngrs /\ mngr \in {None, th[t].mine}
  BY <1>1 DEF ClientsInv, Hand
<1>4. \A p \in Procs : Clients!Running(p) => q = p
  BY <1>1, <1>3 DEF ClientsInv, Serves, OneAtATime
<1>5. \A p \in Procs : Clients!Running(p) => q # None /\ Clients!Alive(q)
  BY <1>4, PartsAssumption DEF Clients!Running, Clients!Alive, Clients!ClientAgentAssumption
<1>6. Hand(t)'
  BY <1>1, <1>2, <1>3, <1>5 DEF Hand, Clients!Running
<1>7. \A p \in Procs : Clients!Running(p) => Serves(p)'
  BY <1>1, <1>2, <1>4, <1>5 DEF Serves
<1>8. QED
  BY <1>1, <1>2, <1>6, <1>7, MovesOn

LEMMA SpawnClients ==
  ASSUME OneAtATime, ClientsInv, NEW t \in Threads, Clients!Spawn(t)
  PROVE  ClientsInv'
<1>1. th[t].pc = "spawn" /\ UNCHANGED <<saved, mngr, reg>>
  BY DEF Clients!Spawn, Clients!At
<1>2. \A p \in Procs : ~ Clients!Running(p)
  BY <1>1 DEF ClientsInv, Hand
<1>3. CASE Clients!Finish(t) /\ UNCHANGED proc
  <2>1. Clients!TypeOK' /\ th'[t].pc = "idle"
    BY <1>1, <1>3 DEF Clients!Finish, Clients!IdleThread, ClientsInv, Clients!TypeOK
  <2>2. QED
    BY <1>1, <1>2, <1>3, <2>1, MovesOn DEF Hand
<1>4. ASSUME NEW p \in Procs, proc' = [proc EXCEPT ![p] = "running"],
             th' = [th EXCEPT ![t].held = p, ![t].pc = "enroll"]
      PROVE  ClientsInv'
  <2>1. Clients!TypeOK' /\ th'[t].pc = "enroll" /\ th'[t].held = p /\ th'[t].mine = th[t].mine
    BY <1>1, <1>4 DEF ClientsInv, Clients!TypeOK
  <2>2. \A q \in Procs : Clients!Running(q)' => q = p
    BY <1>2, <1>4 DEF ClientsInv, Clients!TypeOK, Clients!Running
  <2>3. Hand(t)'
    BY <1>1, <2>1, <2>2 DEF ClientsInv, Hand
  <2>4. QED
    BY <2>1, <2>2, <2>3 DEF ClientsInv, Serves, OneAtATime
<1>5. QED
  BY <1>3, <1>4 DEF Clients!Spawn, Clients!FreeProcs

LEMMA EnrollClients ==
  ASSUME OneAtATime, ClientsInv, NEW t \in Threads, Clients!Enroll(t)
  PROVE  ClientsInv'
<1>1. /\ th[t].pc = "enroll" /\ reg' = [reg EXCEPT ![th[t].mine] = th[t].held]
      /\ th' = [th EXCEPT ![t].held = None, ![t].pc = "publish"] /\ UNCHANGED <<saved, mngr, proc>>
  BY DEF Clients!Enroll, Clients!At
<1>2. th[t].mine \in Mngrs /\ mngr \in {None, th[t].mine}
      /\ \A p \in Procs : Clients!Running(p) => p = th[t].held
  BY <1>1 DEF ClientsInv, Hand
<1>3. Clients!TypeOK' /\ th'[t].pc = "publish" /\ th'[t].mine = th[t].mine
      /\ reg'[th[t].mine] = th[t].held
  BY <1>1, <1>2 DEF ClientsInv, Clients!TypeOK
<1>4. Hand(t)'
  BY <1>1, <1>2, <1>3 DEF Hand
<1>5. \A p \in Procs : Clients!Running(p)' => Serves(p)'
  BY <1>1, <1>2, <1>3 DEF Serves, Clients!Running
<1>6. QED
  BY <1>3, <1>4, <1>5 DEF ClientsInv, OneAtATime

LEMMA PublishClients ==
  ASSUME OneAtATime, ClientsInv, NEW t \in Threads, Clients!Publish(t)
  PROVE  ClientsInv'
<1>1. /\ th[t].pc = "publish" /\ mngr' = th[t].mine /\ th' = [th EXCEPT ![t] = Clients!IdleThread]
      /\ UNCHANGED <<saved, reg, proc>>
  BY DEF Clients!Publish, Clients!At, Clients!Finish
<1>2. th[t].mine \in Mngrs /\ mngr \in {None, th[t].mine}
  BY <1>1 DEF ClientsInv, Hand
<1>3. Clients!TypeOK' /\ th'[t].pc = "idle"
  BY <1>1, <1>2 DEF ClientsInv, Clients!TypeOK, Clients!IdleThread
<1>4. \A p \in Procs : Clients!Running(p) => reg[th[t].mine] = p
  BY <1>1, <1>2 DEF ClientsInv, Serves, OneAtATime
<1>5. \A p \in Procs : Clients!Running(p)' => Serves(p)'
  BY <1>1, <1>2, <1>4, PartsAssumption DEF Serves, Clients!Running, Clients!ClientAgentAssumption
<1>6. QED
  BY <1>3, <1>5 DEF ClientsInv, Hand, OneAtATime

LEMMA VisitClients ==
  ASSUME OneAtATime, ClientsInv, NEW t \in Threads, Clients!Visit(t)
  PROVE  ClientsInv'
<1>1. /\ th[t].pc = "visit" /\ UNCHANGED <<saved, mngr, reg, proc>>
      /\ IF mngr = None \/ reg[mngr] = None THEN th' = [th EXCEPT ![t] = Clients!IdleThread]
         ELSE th' = [th EXCEPT ![t].mine = mngr, ![t].held = reg[mngr], ![t].pc = "kill"]
  BY DEF Clients!Visit, Clients!At, Clients!Finish
<1>2. Clients!TypeOK'
  BY <1>1 DEF ClientsInv, Clients!TypeOK, Clients!IdleThread
<1>3. Hand(t)'
  BY <1>1 DEF Hand, ClientsInv, Clients!TypeOK, Clients!IdleThread
<1>4. \A p \in Procs : Clients!Running(p) => Serves(p)'
  BY <1>1, Resting, PartsAssumption DEF Serves, Clients!ClientAgentAssumption
<1>5. QED
  BY <1>1, <1>2, <1>3, <1>4, MovesOn

LEMMA KillClients ==
  ASSUME OneAtATime, ClientsInv, NEW t \in Threads, Clients!Kill(t)
  PROVE  ClientsInv'
<1>1. /\ th[t].pc = "kill" /\ UNCHANGED <<saved, mngr, reg>>
      /\ proc' = IF Clients!Running(th[t].held) THEN [proc EXCEPT ![th[t].held] = "stopping"] ELSE proc
      /\ th' = [th EXCEPT ![t].held = None, ![t].pc = "remove"]
  BY DEF Clients!Kill, Clients!At
<1>2. mngr \in Mngrs /\ th[t].mine = mngr /\ th[t].held = reg[mngr]
  BY <1>1 DEF ClientsInv, Hand
<1>3. Clients!TypeOK' /\ th'[t].pc = "remove" /\ th'[t].mine = mngr
  BY <1>1, <1>2 DEF ClientsInv, Clients!TypeOK
<1>4. \A p \in Procs : Clients!Running(p) => p = th[t].held
  BY <1>1, <1>2, Resting
<1>5. \A p \in Procs : ~ Clients!Running(p)'
  BY <1>1, <1>4 DEF ClientsInv, Clients!TypeOK, Clients!Running
<1>6. QED
  BY <1>1, <1>2, <1>3, <1>5 DEF ClientsInv, Hand, OneAtATime

LEMMA RemoveClients ==
  ASSUME OneAtATime, ClientsInv, NEW t \in Threads, Clients!Remove(t)
  PROVE  ClientsInv'
<1>1. /\ th[t].pc = "remove" /\ UNCHANGED <<saved, mngr, proc>>
      /\ reg' = [reg EXCEPT ![th[t].mine] = None] /\ th' = [th EXCEPT ![t] = Clients!IdleThread]
  BY DEF Clients!Remove, Clients!At, Clients!Finish
<1>2. Clients!TypeOK' /\ th'[t].pc = "idle"
  BY <1>1 DEF ClientsInv, Clients!TypeOK, Clients!IdleThread
<1>3. \A p \in Procs : ~ Clients!Running(p)'
  BY <1>1 DEF ClientsInv, Hand, Clients!Running
<1>4. QED
  BY <1>2, <1>3 DEF ClientsInv, Hand, OneAtATime

\* Processes that end, rules that change: nothing more runs.
LEMMA FewerRun ==
  ASSUME OneAtATime, ClientsInv, UNCHANGED <<mngr, reg, th>>, saved' \in BOOLEAN,
         proc' \in [Procs -> {"running", "stopping", "dead"}],
         \A p \in Procs : Clients!Running(p)' => Clients!Running(p)
  PROVE  ClientsInv'
<1>1. Clients!TypeOK'
  BY DEF ClientsInv, Clients!TypeOK
<1>2. \A p \in Procs : Serves(p)' <=> Serves(p)
  BY DEF Serves
<1>3. \A t \in Threads : Hand(t)'
  BY DEF ClientsInv, Hand
<1>4. QED
  BY <1>1, <1>2, <1>3 DEF ClientsInv

LEMMA RestartClients ==
  ASSUME OneAtATime, ClientsInv, NEW t \in Threads, Clients!Restart(t)
  PROVE  ClientsInv'
<1>1. /\ mngr' = None /\ reg' = [m \in Mngrs |-> None] /\ proc' = [p \in Procs |-> "dead"]
      /\ th' = [u \in Threads |-> IF u = t THEN [Clients!IdleThread EXCEPT !.pc = "load", !.op = "boot"]
                                  ELSE Clients!IdleThread]
      /\ UNCHANGED saved
  BY DEF Clients!Restart
<1>2. Clients!TypeOK' /\ th'[t].pc = "load"
  BY <1>1 DEF ClientsInv, Clients!TypeOK, Clients!IdleThread
<1>3. \A p \in Procs : ~ Clients!Running(p)'
  BY <1>1 DEF Clients!Running
<1>4. QED
  BY <1>2, <1>3 DEF ClientsInv, Hand, OneAtATime

LEMMA ClientsNext ==
  ASSUME OneAtATime, ClientsInv, [Clients!Next]_clients
  PROVE  ClientsInv'
<1>1. CASE UNCHANGED clients
  <2>1. UNCHANGED <<saved, mngr, reg, proc, th>>
    BY <1>1 DEF clients
  <2>2. proc' \in [Procs -> {"running", "stopping", "dead"}] /\ saved' \in BOOLEAN
    BY <2>1 DEF ClientsInv, Clients!TypeOK
  <2>3. QED
    BY <2>1, <2>2, FewerRun DEF Clients!Running
<1>2. ASSUME NEW t \in Threads,
             Clients!BeginStartClients(t) \/ Clients!BeginStopClients(t) \/ Clients!BeginStopClient(t)
      PROVE  ClientsInv'
  BY <1>2, BeginClients
     DEF Clients!BeginStartClients, Clients!BeginStopClients, Clients!BeginStopClient
<1>3. ASSUME NEW t \in Threads, Clients!ChangeRules(t) PROVE ClientsInv'
  BY <1>3, FewerRun DEF Clients!ChangeRules, ClientsInv, Clients!TypeOK, Clients!Running
<1>4. ASSUME NEW p \in Procs, Clients!Die(p) \/ Clients!ClientDies(p) PROVE ClientsInv'
  <2>1. proc' = [proc EXCEPT ![p] = "dead"] /\ UNCHANGED <<saved, mngr, reg, th>>
    BY <1>4 DEF Clients!Die, Clients!ClientDies
  <2>2. /\ proc' \in [Procs -> {"running", "stopping", "dead"}] /\ saved' \in BOOLEAN
        /\ \A q \in Procs : Clients!Running(q)' => Clients!Running(q)
    BY <2>1 DEF ClientsInv, Clients!TypeOK, Clients!Running
  <2>3. QED
    BY <2>1, <2>2, FewerRun
<1>5. ASSUME NEW t \in Threads, Clients!Step(t) PROVE ClientsInv'
  BY <1>5, LoadClients, LookupClients, CheckClients, SpawnClients, EnrollClients, PublishClients,
     VisitClients, KillClients, RemoveClients DEF Clients!Step
<1>6. QED
  BY <1>1, <1>2, <1>3, <1>4, <1>5, RestartClients DEF Clients!Next

\* With fewer events, an agent does nothing else.
LEMMA SendingNext == ASSUME Sending!Next PROVE Clients!Next
<1>1. \A t \in Threads : \A o, l : Sending!Begin(t, o, l) => Clients!Begin(t, o, l)
  BY DEF Sending!Begin, Clients!Begin, Sending!At, Clients!At, Sending!Booting, Clients!Booting
<1>2. \A t \in Threads : Sending!Load(t) => Clients!Load(t)
  BY DEF Sending!Load, Clients!Load, Sending!At, Clients!At, Sending!Finish, Clients!Finish,
         Sending!IdleThread, Clients!IdleThread
<1>3. \A t \in Threads : Sending!Lookup(t) => Clients!Lookup(t)
  BY DEF Sending!Lookup, Clients!Lookup, Sending!At, Clients!At, Sending!FreeMngrs,
         Clients!FreeMngrs
<1>4. \A t \in Threads : Sending!Check(t) => Clients!Check(t)
  BY DEF Sending!Check, Clients!Check, Sending!At, Clients!At, Sending!Alive, Clients!Alive
<1>5. \A t \in Threads : Sending!Spawn(t) => Clients!Spawn(t)
  BY DEF Sending!Spawn, Clients!Spawn, Sending!At, Clients!At, Sending!Finish, Clients!Finish,
         Sending!IdleThread, Clients!IdleThread, Sending!FreeProcs, Clients!FreeProcs,
         Sending!Alive, Clients!Alive
<1>6. \A t \in Threads : Sending!Enroll(t) => Clients!Enroll(t)
  BY DEF Sending!Enroll, Clients!Enroll, Sending!At, Clients!At
<1>7. \A t \in Threads : Sending!Publish(t) => Clients!Publish(t)
  BY DEF Sending!Publish, Clients!Publish, Sending!At, Clients!At, Sending!Finish,
         Clients!Finish, Sending!IdleThread, Clients!IdleThread
<1>8. \A t \in Threads : Sending!Visit(t) => Clients!Visit(t)
  BY DEF Sending!Visit, Clients!Visit, Sending!At, Clients!At, Sending!Finish, Clients!Finish,
         Sending!IdleThread, Clients!IdleThread
<1>9. \A t \in Threads : Sending!Kill(t) => Clients!Kill(t)
  BY DEF Sending!Kill, Clients!Kill, Sending!At, Clients!At, Sending!Running, Clients!Running
<1>10. \A t \in Threads : Sending!Remove(t) => Clients!Remove(t)
  BY DEF Sending!Remove, Clients!Remove, Sending!At, Clients!At, Sending!Finish, Clients!Finish,
         Sending!IdleThread, Clients!IdleThread
<1>11. \A t \in Threads : Sending!Match(t) => Clients!Match(t)
  BY DEF Sending!Match, Clients!Match, Sending!At, Clients!At, Sending!Finish, Clients!Finish,
         Sending!IdleThread, Clients!IdleThread
<1>12. \A t \in Threads : Sending!ChangeRules(t) => Clients!ChangeRules(t)
  BY DEF Sending!ChangeRules, Clients!ChangeRules, Sending!At, Clients!At, Sending!Booting,
         Clients!Booting
<1>13. \A t \in Threads : Sending!Restart(t) => Clients!Restart(t)
  BY DEF Sending!Restart, Clients!Restart, Sending!IdleThread, Clients!IdleThread
<1>14. \A p \in Procs : Sending!Die(p) => Clients!Die(p)
  BY DEF Sending!Die, Clients!Die
<1>15. \A p \in Procs : Sending!ClientDies(p) => Clients!ClientDies(p)
  BY DEF Sending!ClientDies, Clients!ClientDies, Sending!Running, Clients!Running
<1>16. QED
  BY <1>1, <1>2, <1>3, <1>4, <1>5, <1>6, <1>7, <1>8, <1>9, <1>10, <1>11, <1>12, <1>13, <1>14,
       <1>15 DEF Sending!Next, Clients!Next, Sending!Step, Clients!Step,
       Sending!BeginStartClients, Clients!BeginStartClients, Sending!BeginStopClients,
       Clients!BeginStopClients, Sending!BeginStopClient, Clients!BeginStopClient

LEMMA OneRuns == ASSUME OneAtATime, ClientsInv PROVE OneClient
<1> SUFFICES ASSUME NEW p \in Procs, NEW q \in Procs, Clients!Running(p), Clients!Running(q)
             PROVE  p = q
  BY DEF OneClient, Clients!OneClient
<1>1. CASE \E t \in Threads : th[t].pc = "enroll"
  BY <1>1 DEF ClientsInv, Hand
<1>2. CASE \E t \in Threads : th[t].pc \in {"check", "publish"}
  BY <1>2 DEF ClientsInv, Hand, Serves, OneAtATime
<1>3. CASE \A t \in Threads : th[t].pc \notin {"enroll", "check", "publish"}
  BY <1>3 DEF ClientsInv, Serves
<1>4. QED
  BY <1>1, <1>2, <1>3

-----------------------------------------------------------------------------
(***************************************************************************)
(* The parts put together: one of them moves, and the others rest.         *)
(***************************************************************************)
LEMMA AlwaysClients == OneAtATime => (Spec => []ClientsInv)
<1> SUFFICES ASSUME OneAtATime PROVE Spec => []ClientsInv
  OBVIOUS
<1>1. Init => ClientsInv
  BY ClientsInit DEF Init
<1>2. ClientsInv /\ [Next]_vars => ClientsInv'
  BY SendingNext, ClientsNext
     DEF Next, ClientsStep, MonitorStep, ConfigStep, ServiceStep, vars
<1>3. QED
  BY <1>1, <1>2, PTL DEF Spec

LEMMA AlwaysConfig == OneAtATime => (Spec => []ConfigInv)
<1> SUFFICES ASSUME OneAtATime PROVE Spec => []ConfigInv
  OBVIOUS
<1>1. Init => ConfigInv
  BY ConfigInit DEF Init
<1>2. ConfigInv /\ [Next]_vars => ConfigInv'
  BY ConfigNext DEF Next, ClientsStep, MonitorStep, ConfigStep, ServiceStep, vars
<1>3. QED
  BY <1>1, <1>2, PTL DEF Spec

(* Two client processes never run at a time, for any managers and          *)
(* processes, across stops, deaths, failing forks and restarts, when one   *)
(* RPC is served at a time (start_client looks whether the process in the  *)
(* registry lives).                                                        *)
THEOREM OneClientRuns == OneAtATime => (Spec => []OneClient)
<1> SUFFICES ASSUME OneAtATime PROVE Spec => []OneClient
  OBVIOUS
<1>1. ClientsInv => OneClient
  BY OneRuns
<1>2. QED
  BY <1>1, AlwaysClients, PTL

(* The map, the registries, the processes and the RPCs of the client agent *)
(* are well typed.                                                         *)
THEOREM AgentTypes == OneAtATime => (Spec => []Clients!TypeOK)
<1> SUFFICES ASSUME OneAtATime PROVE Spec => []Clients!TypeOK
  OBVIOUS
<1>1. ClientsInv => Clients!TypeOK
  BY DEF ClientsInv
<1>2. QED
  BY <1>1, AlwaysClients, PTL

(* What a caller of set_param was told is stored is what a restart loads,  *)
(* in value and type, but for True, which comes back as False: for any     *)
(* parameters and values, through failing statements and restarts, as long *)
(* as calls do not overlap.                                                *)
THEOREM AcknowledgedSurvives == OneAtATime => (Spec => []AckedSurvives)
<1> SUFFICES ASSUME OneAtATime PROVE Spec => []AckedSurvives
  OBVIOUS
<1>1. ConfigInv => AckedSurvives
  BY DEF ConfigInv, AckedSurvives
<1>2. QED
  BY <1>1, AlwaysConfig, PTL

(* The cache, the table and the calls are well typed, under the same       *)
(* conditions.                                                             *)
THEOREM ConfigTypes == OneAtATime => (Spec => []Config!TypeOK)
<1> SUFFICES ASSUME OneAtATime PROVE Spec => []Config!TypeOK
  OBVIOUS
<1>1. ConfigInv => Config!TypeOK
  BY DEF ConfigInv
<1>2. QED
  BY <1>1, AlwaysConfig, PTL
=============================================================================
