--------------------------- MODULE ServerAgentProofs ---------------------------
(***************************************************************************)
(* Proofs about ServerAgent, for any endpoints, servers, processes and     *)
(* events: types in every regime, and what the agent promises when RPCs    *)
(* are served one at a time and none raises.                               *)
(***************************************************************************)
EXTENDS ServerAgent, FiniteSetTheorems, TLAPS

(***************************************************************************)
(* Types: which locals an RPC has at each point.                           *)
(***************************************************************************)
Shape(c) ==
  /\ c.pc \in {"lookup", "load", "check", "spawn", "enroll", "persist", "publish", "find"}
       => c.ep \in Endpoints
  /\ c.pc \in {"load", "check", "spawn", "enroll", "persist", "publish", "kill", "remove"}
       => c.mine \in Mngrs
  /\ c.pc \in {"spawn", "enroll", "remove"} => c.cur \in Servers
  /\ c.pc = "enroll" => c.new \in Procs
  /\ c.op \in {"add", "stop"} => c.srv \in Servers
  /\ c.pc = "persist" => c.op = "add"
  /\ c.pc = "find" => c.op = "stop"
  /\ c.pc = "visit" => c.op = "stopall"
  /\ c.pc = "primary" => c.op # "add"

\* A manager that is still to be visited is in the map: none is taken out of it.
Visits == \A t \in Threads : th[t].left \subseteq Mapped

TypeInv == TypeOK /\ (\A t \in Threads : Shape(th[t])) /\ Visits

-----------------------------------------------------------------------------
LEMMA IdleType == IdleThread \in Thread /\ Shape(IdleThread) /\ IdleThread.left = {}
BY DEF IdleThread, Thread, Shape

LEMMA DeadType == Dead \in Process /\ Dead.st = "dead"
BY DEF Dead, Process

LEMMA RegimeType ==
  ASSUME TypeOK
  PROVE  regime.threads \subseteq Threads /\ regime.endpoints \subseteq Endpoints
         /\ regime.servers \subseteq Servers
BY ServerAgentAssumption DEF TypeOK

\* A thread changes its own locals, and the map does not shrink.
LEMMA ThreadMoves ==
  ASSUME TypeInv, NEW t \in Threads, NEW c \in Thread, th' = [th EXCEPT ![t] = c],
         Shape(c), c.left \subseteq Mapped', Mapped \subseteq Mapped',
         regime' \in Regimes, rules' \in [Endpoints -> (SUBSET Servers) \cup {None}],
         primary' \in Endpoints \cup {None}, mngrs' \in [Endpoints -> Mngrs \cup {None}],
         reg' \in [Mngrs -> [Servers -> Procs \cup {None}]], proc' \in [Procs -> Process]
  PROVE  TypeInv' /\ th'[t] = c
<1>1. th' \in [Threads -> Thread] /\ th'[t] = c /\ \A u \in Threads \ {t} : th'[u] = th[u]
  BY DEF TypeInv, TypeOK
<1>2. TypeOK'
  BY <1>1 DEF TypeOK
<1>3. \A u \in Threads : Shape(th'[u])
  BY <1>1 DEF TypeInv
<1>4. (\A u \in Threads : Shape(th[u]))'
  BY <1>3 DEF Shape
<1>5. Visits'
  BY <1>1 DEF TypeInv, Visits
<1>6. QED
  BY <1>1, <1>2, <1>4, <1>5 DEF TypeInv

\* The same, when nothing else changes.
LEMMA OnlyThread ==
  ASSUME TypeInv, NEW t \in Threads, NEW c \in Thread, th' = [th EXCEPT ![t] = c],
         Shape(c), c.left \subseteq Mapped,
         UNCHANGED <<regime, rules, primary, mngrs, reg, proc>>
  PROVE  TypeInv' /\ th'[t] = c
<1>1. Mapped' = Mapped
  BY DEF Mapped
<1>2. QED
  BY <1>1, ThreadMoves DEF TypeInv, TypeOK

LEMMA FinishTypes ==
  ASSUME TypeInv, NEW t \in Threads, Finish(t),
         UNCHANGED <<regime, rules, mngrs, reg, proc>>, primary' \in Endpoints \cup {None}
  PROVE  TypeInv' /\ th'[t] = IdleThread
<1>1. Mapped' = Mapped
  BY DEF Mapped
<1>2. QED
  BY <1>1, ThreadMoves, IdleType DEF TypeInv, TypeOK, Finish

LEMMA InitTypes == Init => TypeInv
<1> SUFFICES ASSUME Init PROVE TypeInv
  OBVIOUS
<1>1. TypeOK
  <2>1. rules \in [Endpoints -> (SUBSET Servers) \cup {None}]
    BY DEF Init
  <2>2. reg \in [Mngrs -> [Servers -> Procs \cup {None}]]
    BY DEF Init
  <2>3. th \in [Threads -> Thread] /\ proc \in [Procs -> Process]
    BY IdleType, DeadType DEF Init
  <2>4. QED
    BY <2>1, <2>2, <2>3 DEF Init, TypeOK
<1>2. (\A t \in Threads : Shape(th[t])) /\ Visits
  BY IdleType DEF Init, Visits
<1>3. QED
  BY <1>1, <1>2 DEF TypeInv

-----------------------------------------------------------------------------
(* The RPCs begin. Each lemma says what the thread is about to do.         *)

LEMMA BeginTypes ==
  ASSUME TypeInv, NEW t \in Threads, NEW c \in Thread, Begin(t, c), Shape(c),
         c.left \subseteq Mapped
  PROVE  TypeInv' /\ th'[t] = c /\ th[t].pc = "idle"
         /\ UNCHANGED <<regime, rules, primary, mngrs, reg, proc>>
BY OnlyThread DEF Begin, At

LEMMA StartServersTypes ==
  ASSUME TypeInv, NEW t \in Threads, BeginStartServers(t)
  PROVE  /\ TypeInv' /\ th[t].pc = "idle" /\ th'[t].pc = "primary" /\ th'[t].op = "start"
         /\ UNCHANGED <<regime, rules, primary, mngrs, reg, proc>>
<1> DEFINE c == [IdleThread EXCEPT !.pc = "primary", !.op = "start"]
<1>1. c \in Thread /\ Shape(c) /\ c.left = {} /\ c.pc = "primary" /\ c.op = "start"
  BY DEF IdleThread, Thread, Shape
<1>2. Begin(t, c)
  BY DEF BeginStartServers
<1> HIDE DEF c
<1>3. QED
  BY <1>1, <1>2, BeginTypes

LEMMA AddServerTypes ==
  ASSUME TypeInv, NEW t \in Threads, NEW e \in Endpoints, NEW s \in Servers,
         BeginAddServer(t, e, s)
  PROVE  /\ TypeInv' /\ th[t].pc = "idle" /\ th'[t].pc = "lookup" /\ th'[t].op = "add"
         /\ th'[t].srv = s /\ th'[t].todo = {s} /\ (s \in Unknown => Faulty)
         /\ UNCHANGED <<regime, rules, primary, mngrs, reg, proc>>
<1> DEFINE c == [IdleThread EXCEPT !.pc = "lookup", !.op = "add", !.ep = e, !.srv = s,
                                   !.todo = {s}]
<1>1. /\ c \in Thread /\ Shape(c) /\ c.left = {} /\ c.pc = "lookup" /\ c.op = "add"
      /\ c.srv = s /\ c.todo = {s}
  BY DEF IdleThread, Thread, Shape
<1>2. Begin(t, c) /\ (s \in Unknown => Faulty)
  BY DEF BeginAddServer
<1> HIDE DEF c
<1>3. QED
  BY <1>1, <1>2, BeginTypes

LEMMA StopServerTypes ==
  ASSUME TypeInv, NEW t \in Threads, NEW e \in Endpoints \cup {None}, NEW s \in Servers,
         BeginStopServer(t, e, s)
  PROVE  /\ TypeInv' /\ th[t].pc = "idle" /\ th'[t].pc \in {"primary", "find"}
         /\ th'[t].op = "stop"
         /\ UNCHANGED <<regime, rules, primary, mngrs, reg, proc>>
<1> DEFINE l == IF e = None THEN "primary" ELSE "find"
           c == [IdleThread EXCEPT !.pc = l, !.op = "stop", !.ep = e, !.srv = s]
<1>1. l \in {"primary", "find"} /\ (l = "find" => e \in Endpoints)
  OBVIOUS
<1>2. Begin(t, c)
  BY DEF BeginStopServer
<1> HIDE DEF l
<1>3. c \in Thread /\ Shape(c) /\ c.left = {} /\ c.pc = l /\ c.op = "stop"
  BY <1>1 DEF IdleThread, Thread, Shape
<1> HIDE DEF c
<1>4. QED
  BY <1>1, <1>2, <1>3, BeginTypes

LEMMA StopServersTypes ==
  ASSUME TypeInv, NEW t \in Threads, BeginStopServers(t)
  PROVE  /\ TypeInv' /\ th[t].pc = "idle" /\ th'[t].pc = "visit" /\ th'[t].op = "stopall"
         /\ th'[t].left = Mapped
         /\ UNCHANGED <<regime, rules, primary, mngrs, reg, proc>>
<1> DEFINE n == Cardinality(Mapped)
           c == [IdleThread EXCEPT !.pc = "visit", !.op = "stopall", !.left = Mapped, !.size = n]
<1>1. n \in Nat /\ Mapped \subseteq Endpoints
  <2>1. Mapped \subseteq Endpoints
    BY DEF Mapped
  <2>2. QED
    BY <2>1, ServerAgentAssumption, FS_Subset, FS_CardinalityType
<1>2. Begin(t, c)
  BY DEF BeginStopServers
<1> HIDE DEF n
<1>3. c \in Thread /\ Shape(c) /\ c.left = Mapped /\ c.pc = "visit" /\ c.op = "stopall"
  BY <1>1 DEF IdleThread, Thread, Shape
<1> HIDE DEF c
<1>4. QED
  BY <1>2, <1>3, BeginTypes

-----------------------------------------------------------------------------
(* The steps of an RPC that starts servers.                                *)

LEMMA PrimaryTypes ==
  ASSUME TypeInv, NEW t \in Threads, Primary(t)
  PROVE  /\ TypeInv' /\ th[t].pc = "primary" /\ UNCHANGED <<regime, rules, mngrs, reg, proc>>
         /\ th'[t].pc \in {"idle", "lookup", "find"}
         /\ th'[t].op \in {th[t].op, "none"}
         /\ th'[t].op = "add" => th'[t].srv = th[t].srv /\ th'[t].todo = th[t].todo
<1>0. th[t].pc = "primary" /\ UNCHANGED <<regime, rules, mngrs, reg, proc>>
  BY DEF Primary, At
<1>1. CASE Finish(t) /\ UNCHANGED primary
  BY <1>0, <1>1, FinishTypes DEF IdleThread, TypeInv, TypeOK
<1>2. ASSUME NEW e \in Endpoints, primary' = e,
             th' = [th EXCEPT ![t].ep = e,
                              ![t].pc = IF th[t].op = "stop" THEN "find" ELSE "lookup"]
      PROVE  /\ TypeInv' /\ th'[t].pc \in {"lookup", "find"} /\ th'[t].op = th[t].op
             /\ th'[t].srv = th[t].srv /\ th'[t].todo = th[t].todo
  <2> DEFINE l == IF th[t].op = "stop" THEN "find" ELSE "lookup"
             c == [th[t] EXCEPT !.ep = e, !.pc = l]
  <2>1. l \in {"lookup", "find"} /\ (l = "find" => th[t].op = "stop")
    OBVIOUS
  <2>2. th' = [th EXCEPT ![t] = c]
    BY <1>2
  <2> HIDE DEF l
  <2>3. th[t] \in Thread /\ Shape(th[t]) /\ th[t].left \subseteq Mapped
    BY DEF TypeInv, TypeOK, Visits
  <2>4. /\ c \in Thread /\ c.pc = l /\ c.ep = e /\ c.op = th[t].op /\ c.srv = th[t].srv
        /\ c.todo = th[t].todo /\ c.left = th[t].left
    BY <2>1, <2>3 DEF Thread
  <2> HIDE DEF c
  <2>5. Shape(c)
    BY <2>1, <2>3, <2>4 DEF Shape
  <2>6. Mapped' = Mapped
    BY <1>0 DEF Mapped
  <2>7. TypeInv' /\ th'[t] = c
    BY <1>0, <1>2, <2>2, <2>3, <2>4, <2>5, <2>6, ThreadMoves DEF TypeInv, TypeOK
  <2>8. QED
    BY <2>1, <2>4, <2>7
<1>3. QED
  BY <1>0, <1>1, <1>2, FinishTypes DEF Primary, IdleThread

LEMMA LookupTypes ==
  ASSUME TypeInv, NEW t \in Threads, Lookup(t)
  PROVE  /\ TypeInv' /\ th[t].pc = "lookup" /\ UNCHANGED <<regime, rules, primary, mngrs, proc>>
         /\ th'[t].pc = IF th[t].op = "add" THEN "check" ELSE "load"
         /\ th'[t].mine \in Mngrs /\ th'[t].ep = th[t].ep /\ th'[t].op = th[t].op
         /\ th'[t].srv = th[t].srv /\ th'[t].todo = th[t].todo
         /\ \/ th'[t].mine = mngrs[th[t].ep] /\ reg' = reg
            \/ /\ mngrs[th[t].ep] = None /\ \A e \in Endpoints : mngrs[e] # th'[t].mine
               /\ reg' = [reg EXCEPT ![th'[t].mine] = [s \in Servers |-> None]]
<1>1. PICK m \in Mngrs :
        /\ IF mngrs[th[t].ep] # None
           THEN m = mngrs[th[t].ep] /\ UNCHANGED reg
           ELSE m \in FreeMngrs /\ reg' = [reg EXCEPT ![m] = [s \in Servers |-> None]]
        /\ th' = [th EXCEPT ![t].mine = m, ![t].pc = IF th[t].op = "add" THEN "check" ELSE "load"]
  BY DEF Lookup
<1> DEFINE l == IF th[t].op = "add" THEN "check" ELSE "load"
           c == [th[t] EXCEPT !.mine = m, !.pc = l]
<1>2. th[t].pc = "lookup" /\ UNCHANGED <<regime, rules, primary, mngrs, proc>>
  BY DEF Lookup, At
<1>3. l \in {"check", "load"} /\ th' = [th EXCEPT ![t] = c]
  BY <1>1
<1>4. l = IF th[t].op = "add" THEN "check" ELSE "load"
  OBVIOUS
<1> HIDE DEF l
<1>5. th[t] \in Thread /\ Shape(th[t]) /\ th[t].left \subseteq Mapped
  BY DEF TypeInv, TypeOK, Visits
<1>6. /\ c \in Thread /\ c.pc = l /\ c.mine = m /\ c.ep = th[t].ep /\ c.op = th[t].op
      /\ c.srv = th[t].srv /\ c.todo = th[t].todo /\ c.left = th[t].left
  BY <1>3, <1>5 DEF Thread
<1> HIDE DEF c
<1>7. Shape(c)
  BY <1>2, <1>3, <1>5, <1>6 DEF Shape
<1>8. Mapped' = Mapped
  BY <1>2 DEF Mapped
<1>9. reg' \in [Mngrs -> [Servers -> Procs \cup {None}]]
  <2>1. [s \in Servers |-> None] \in [Servers -> Procs \cup {None}]
    OBVIOUS
  <2>2. QED
    BY <1>1, <2>1 DEF TypeInv, TypeOK
<1>10. TypeInv' /\ th'[t] = c
  BY <1>2, <1>3, <1>5, <1>6, <1>7, <1>8, <1>9, ThreadMoves DEF TypeInv, TypeOK
<1>11. m \in FreeMngrs => \A e \in Endpoints : mngrs[e] # m
  BY DEF FreeMngrs
<1>12. QED
  BY <1>1, <1>2, <1>4, <1>6, <1>10, <1>11

LEMMA LoadTypes ==
  ASSUME TypeInv, NEW t \in Threads, Load(t)
  PROVE  /\ TypeInv' /\ th[t].pc = "load"
         /\ UNCHANGED <<regime, rules, primary, mngrs, reg, proc>>
         /\ th'[t].pc = (IF Saved(th[t].ep) = {} THEN "publish" ELSE "check")
         /\ th'[t].mine = th[t].mine
         /\ th'[t].ep = th[t].ep /\ th'[t].op = th[t].op /\ th'[t].srv = th[t].srv
         /\ th'[t].todo = Saved(th[t].ep)
<1> DEFINE l == IF Saved(th[t].ep) = {} THEN "publish" ELSE "check"
           c == [th[t] EXCEPT !.todo = Saved(th[t].ep), !.pc = l]
<1>1. /\ th[t].pc = "load" /\ UNCHANGED <<regime, rules, primary, mngrs, reg, proc>>
      /\ th' = [th EXCEPT ![t] = c] /\ l \in {"publish", "check"}
      /\ l = (IF Saved(th[t].ep) = {} THEN "publish" ELSE "check")
  BY DEF Load, At
<1> HIDE DEF l
<1>2. th[t] \in Thread /\ Shape(th[t]) /\ th[t].left \subseteq Mapped
  BY DEF TypeInv, TypeOK, Visits
<1>3. Saved(th[t].ep) \subseteq Servers
  BY <1>1, <1>2 DEF TypeInv, TypeOK, Shape, Saved
<1>4. /\ c \in Thread /\ c.pc = l /\ c.mine = th[t].mine /\ c.ep = th[t].ep /\ c.op = th[t].op
      /\ c.srv = th[t].srv /\ c.todo = Saved(th[t].ep) /\ c.left = th[t].left
  BY <1>1, <1>2, <1>3 DEF Thread
<1> HIDE DEF c
<1>5. Shape(c)
  BY <1>1, <1>2, <1>4 DEF Shape
<1>6. TypeInv' /\ th'[t] = c
  BY <1>1, <1>2, <1>4, <1>5, OnlyThread
<1>7. QED
  BY <1>1, <1>4, <1>6

\* Where an RPC goes on when a server is started.
LEMMA AfterStartType ==
  ASSUME NEW t, NEW rest
  PROVE  /\ AfterStart(t, rest) \in {"check", "persist", "publish"}
         /\ AfterStart(t, rest) = "persist" => th[t].op = "add"
         /\ rest # {} => AfterStart(t, rest) = "check"
BY DEF AfterStart

LEMMA CheckTypes ==
  ASSUME TypeInv, NEW t \in Threads, NEW s \in Servers, Check(t, s)
  PROVE  /\ TypeInv' /\ th[t].pc = "check" /\ s \in th[t].todo
         /\ UNCHANGED <<regime, rules, primary, mngrs, reg, proc>>
         /\ th'[t].mine = th[t].mine /\ th'[t].ep = th[t].ep /\ th'[t].op = th[t].op
         /\ th'[t].srv = th[t].srv /\ th'[t].todo = th[t].todo \ {s}
         /\ \/ /\ th'[t].pc = AfterStart(t, th[t].todo \ {s})
               /\ th'[t].pc \in {"check", "persist", "publish"} /\ reg[th[t].mine][s] # None
            \/ /\ th'[t].pc = "spawn" /\ th'[t].cur = s
               /\ reg[th[t].mine][s] # None => ~ Alive(reg[th[t].mine][s])
<1> DEFINE p == reg[th[t].mine][s]
           rest == th[t].todo \ {s}
           l == AfterStart(t, rest)
           c == [th[t] EXCEPT !.todo = rest, !.pc = l]
           d == [th[t] EXCEPT !.todo = rest, !.cur = s, !.pc = "spawn"]
<1>1. /\ th[t].pc = "check" /\ s \in th[t].todo
      /\ UNCHANGED <<regime, rules, primary, mngrs, reg, proc>>
      /\ \/ th' = [th EXCEPT ![t] = c] /\ p # None
         \/ th' = [th EXCEPT ![t] = d] /\ (p # None => ~ Alive(p))
  BY DEF Check, At
<1>2. /\ l \in {"check", "persist", "publish"} /\ (l = "persist" => th[t].op = "add")
      /\ l = AfterStart(t, th[t].todo \ {s})
  BY AfterStartType
<1> HIDE DEF l
<1>3. th[t] \in Thread /\ Shape(th[t]) /\ th[t].left \subseteq Mapped
  BY DEF TypeInv, TypeOK, Visits
<1>4. /\ c \in Thread /\ c.pc = l /\ c.mine = th[t].mine /\ c.ep = th[t].ep /\ c.op = th[t].op
      /\ c.srv = th[t].srv /\ c.todo = rest /\ c.left = th[t].left
  BY <1>2, <1>3 DEF Thread
<1>5. /\ d \in Thread /\ d.pc = "spawn" /\ d.mine = th[t].mine /\ d.ep = th[t].ep
      /\ d.op = th[t].op /\ d.srv = th[t].srv /\ d.todo = rest /\ d.left = th[t].left
      /\ d.cur = s
  BY <1>3 DEF Thread
<1> HIDE DEF c, d
<1>6. Shape(c) /\ Shape(d)
  BY <1>1, <1>2, <1>3, <1>4, <1>5 DEF Shape
<1>7. TypeInv' /\ ((th'[t] = c /\ p # None) \/ (th'[t] = d /\ (p # None => ~ Alive(p))))
  BY <1>1, <1>3, <1>4, <1>5, <1>6, OnlyThread
<1>8. QED
  BY <1>1, <1>2, <1>4, <1>5, <1>7

LEMMA SpawnTypes ==
  ASSUME TypeInv, NEW t \in Threads, Spawn(t)
  PROVE  /\ TypeInv' /\ th[t].pc = "spawn" /\ UNCHANGED <<regime, rules, primary, mngrs, reg>>
         /\ \/ th[t].cur \in Unknown /\ th'[t] = IdleThread
            \/ \E p \in Procs :
                 /\ ~ Alive(p) /\ \A m \in Mngrs, s \in Servers : reg[m][s] # p
                 /\ proc' = [proc EXCEPT ![p] =
                              [st |-> "starting", ep |-> th[t].ep, srv |-> th[t].cur]]
                 /\ th'[t].new = p /\ th'[t].pc = "enroll" /\ th'[t].mine = th[t].mine
                 /\ th'[t].ep = th[t].ep /\ th'[t].op = th[t].op /\ th'[t].srv = th[t].srv
                 /\ th'[t].todo = th[t].todo /\ th'[t].cur = th[t].cur
<1>1. th[t].pc = "spawn" /\ UNCHANGED <<regime, rules, primary, mngrs, reg>>
  BY DEF Spawn, At
<1>2. CASE th[t].cur \in Unknown /\ Finish(t) /\ UNCHANGED proc
  BY <1>1, <1>2, FinishTypes DEF TypeInv, TypeOK
<1>3. ASSUME NEW p \in FreeProcs,
             proc' = [proc EXCEPT ![p] = [st |-> "starting", ep |-> th[t].ep, srv |-> th[t].cur]],
             th' = [th EXCEPT ![t].new = p, ![t].pc = "enroll"]
      PROVE  /\ TypeInv' /\ th'[t].new = p /\ th'[t].pc = "enroll" /\ th'[t].mine = th[t].mine
             /\ th'[t].ep = th[t].ep /\ th'[t].op = th[t].op /\ th'[t].srv = th[t].srv
             /\ th'[t].todo = th[t].todo /\ th'[t].cur = th[t].cur
  <2> DEFINE c == [th[t] EXCEPT !.new = p, !.pc = "enroll"]
             x == [st |-> "starting", ep |-> th[t].ep, srv |-> th[t].cur]
  <2>1. p \in Procs /\ th' = [th EXCEPT ![t] = c] /\ proc' = [proc EXCEPT ![p] = x]
    BY <1>3 DEF FreeProcs
  <2>2. th[t] \in Thread /\ Shape(th[t]) /\ th[t].left \subseteq Mapped
    BY DEF TypeInv, TypeOK, Visits
  <2>3. /\ c \in Thread /\ c.new = p /\ c.pc = "enroll" /\ c.mine = th[t].mine /\ c.ep = th[t].ep
        /\ c.op = th[t].op /\ c.srv = th[t].srv /\ c.todo = th[t].todo /\ c.cur = th[t].cur
        /\ c.left = th[t].left
    BY <2>1, <2>2 DEF Thread
  <2>4. x \in Process
    BY <2>2 DEF Thread, Process
  <2> HIDE DEF c, x
  <2>5. Shape(c)
    BY <1>1, <2>1, <2>2, <2>3 DEF Shape
  <2>6. Mapped' = Mapped
    BY <1>1 DEF Mapped
  <2>7. proc' \in [Procs -> Process]
    BY <2>1, <2>4 DEF TypeInv, TypeOK
  <2>8. TypeInv' /\ th'[t] = c
    BY <1>1, <2>1, <2>2, <2>3, <2>5, <2>6, <2>7, ThreadMoves DEF TypeInv, TypeOK
  <2>9. QED
    BY <2>3, <2>8
<1>4. QED
  BY <1>1, <1>2, <1>3 DEF Spawn, FreeProcs

LEMMA EnrollTypes ==
  ASSUME TypeInv, NEW t \in Threads, Enroll(t)
  PROVE  /\ TypeInv' /\ th[t].pc = "enroll" /\ UNCHANGED <<regime, rules, primary, mngrs, proc>>
         /\ \A m \in Mngrs, s \in Servers :
              reg'[m][s] = IF m = th[t].mine /\ s = th[t].cur THEN th[t].new ELSE reg[m][s]
         /\ th'[t].mine = th[t].mine /\ th'[t].ep = th[t].ep /\ th'[t].op = th[t].op
         /\ th'[t].srv = th[t].srv /\ th'[t].todo = th[t].todo
         /\ th'[t].pc = AfterStart(t, th[t].todo)
<1> DEFINE l == AfterStart(t, th[t].todo)
           c == [th[t] EXCEPT !.cur = None, !.new = None, !.pc = l]
<1>1. /\ th[t].pc = "enroll" /\ UNCHANGED <<regime, rules, primary, mngrs, proc>>
      /\ reg' = [reg EXCEPT ![th[t].mine][th[t].cur] = th[t].new]
      /\ th' = [th EXCEPT ![t] = c]
  BY DEF Enroll, At
<1>2. l \in {"check", "persist", "publish"} /\ (l = "persist" => th[t].op = "add")
  BY AfterStartType
<1>3. l = AfterStart(t, th[t].todo)
  OBVIOUS
<1> HIDE DEF l
<1>4. th[t] \in Thread /\ Shape(th[t]) /\ th[t].left \subseteq Mapped
  BY DEF TypeInv, TypeOK, Visits
<1>5. /\ c \in Thread /\ c.pc = l /\ c.mine = th[t].mine /\ c.ep = th[t].ep /\ c.op = th[t].op
      /\ c.srv = th[t].srv /\ c.todo = th[t].todo /\ c.left = th[t].left
  BY <1>2, <1>4 DEF Thread
<1> HIDE DEF c
<1>6. Shape(c)
  BY <1>1, <1>2, <1>4, <1>5 DEF Shape
<1>7. th[t].mine \in Mngrs /\ th[t].cur \in Servers /\ th[t].new \in Procs
  BY <1>1, <1>4 DEF Shape
<1>8. reg \in [Mngrs -> [Servers -> Procs \cup {None}]]
  BY DEF TypeInv, TypeOK
<1>9. /\ reg' \in [Mngrs -> [Servers -> Procs \cup {None}]]
      /\ \A m \in Mngrs, s \in Servers :
           reg'[m][s] = IF m = th[t].mine /\ s = th[t].cur THEN th[t].new ELSE reg[m][s]
  BY <1>1, <1>7, <1>8
<1>10. Mapped' = Mapped
  BY <1>1 DEF Mapped
<1>11. TypeInv' /\ th'[t] = c
  BY <1>1, <1>4, <1>5, <1>6, <1>9, <1>10, ThreadMoves DEF TypeInv, TypeOK
<1>12. QED
  BY <1>1, <1>3, <1>5, <1>9, <1>11

LEMMA PersistTypes ==
  ASSUME TypeInv, NEW t \in Threads, Persist(t)
  PROVE  /\ TypeInv' /\ th[t].pc = "persist" /\ UNCHANGED <<regime, primary, mngrs, reg, proc>>
         /\ th[t].op = "add" /\ th[t].srv \in Servers
         /\ \A e \in Endpoints :
              Saved(e)' = IF e = th[t].ep THEN Saved(e) \cup {th[t].srv} ELSE Saved(e)
         /\ th'[t].pc = "publish" /\ th'[t].mine = th[t].mine /\ th'[t].ep = th[t].ep
         /\ th'[t].op = th[t].op /\ th'[t].srv = th[t].srv
<1> DEFINE c == [th[t] EXCEPT !.pc = "publish"]
           x == Saved(th[t].ep) \cup {th[t].srv}
<1>1. /\ th[t].pc = "persist" /\ UNCHANGED <<regime, primary, mngrs, reg, proc>>
      /\ rules' = [rules EXCEPT ![th[t].ep] = x] /\ th' = [th EXCEPT ![t] = c]
  BY DEF Persist, At
<1>2. th[t] \in Thread /\ Shape(th[t]) /\ th[t].left \subseteq Mapped
  BY DEF TypeInv, TypeOK, Visits
<1>3. th[t].ep \in Endpoints /\ th[t].mine \in Mngrs /\ th[t].op = "add" /\ th[t].srv \in Servers
  BY <1>1, <1>2 DEF Shape
<1>4. /\ c \in Thread /\ c.pc = "publish" /\ c.mine = th[t].mine /\ c.ep = th[t].ep
      /\ c.op = th[t].op /\ c.srv = th[t].srv /\ c.left = th[t].left
  BY <1>2 DEF Thread
<1>5. x \subseteq Servers
  BY <1>3 DEF Saved, TypeInv, TypeOK
<1>6. x = Saved(th[t].ep) \cup {th[t].srv}
  OBVIOUS
<1> HIDE DEF c, x
<1>7. Shape(c)
  BY <1>2, <1>3, <1>4 DEF Shape
<1>8. /\ rules' \in [Endpoints -> (SUBSET Servers) \cup {None}]
      /\ \A e \in Endpoints : rules'[e] = IF e = th[t].ep THEN x ELSE rules[e]
  BY <1>1, <1>3, <1>5 DEF TypeInv, TypeOK
<1>9. Mapped' = Mapped
  BY <1>1 DEF Mapped
<1>10. TypeInv' /\ th'[t] = c
  BY <1>1, <1>2, <1>4, <1>7, <1>8, <1>9, ThreadMoves DEF TypeInv, TypeOK
<1>11. x # None
  BY <1>5, ServerAgentAssumption
<1>12. \A e \in Endpoints :
         Saved(e)' = IF e = th[t].ep THEN Saved(e) \cup {th[t].srv} ELSE Saved(e)
  BY <1>6, <1>8, <1>11 DEF Saved
<1>13. QED
  BY <1>1, <1>3, <1>4, <1>10, <1>12

LEMMA PublishTypes ==
  ASSUME TypeInv, NEW t \in Threads, Publish(t)
  PROVE  /\ TypeInv' /\ th[t].pc = "publish" /\ UNCHANGED <<regime, rules, primary, reg, proc>>
         /\ \A e \in Endpoints : mngrs'[e] = IF e = th[t].ep THEN th[t].mine ELSE mngrs[e]
         /\ th'[t] = IdleThread
<1>1. /\ th[t].pc = "publish" /\ UNCHANGED <<regime, rules, primary, reg, proc>>
      /\ mngrs' = [mngrs EXCEPT ![th[t].ep] = th[t].mine]
      /\ th' = [th EXCEPT ![t] = IdleThread]
  BY DEF Publish, At, Finish
<1>2. th[t].ep \in Endpoints /\ th[t].mine \in Mngrs
  BY <1>1 DEF TypeInv, Shape
<1>3. /\ mngrs' \in [Endpoints -> Mngrs \cup {None}]
      /\ \A e \in Endpoints : mngrs'[e] = IF e = th[t].ep THEN th[t].mine ELSE mngrs[e]
  BY <1>1, <1>2 DEF TypeInv, TypeOK
<1>4. Mapped \subseteq Mapped'
  BY <1>2, <1>3, ServerAgentAssumption DEF Mapped
<1>5. TypeInv' /\ th'[t] = IdleThread
  BY <1>1, <1>3, <1>4, IdleType, ThreadMoves DEF TypeInv, TypeOK
<1>6. QED
  BY <1>1, <1>3, <1>5

-----------------------------------------------------------------------------
(* The steps of an RPC that stops servers.                                 *)

LEMMA EntriesType ==
  ASSUME TypeOK, NEW m \in Mngrs
  PROVE  /\ Entries(m) \subseteq Servers \X Procs
         /\ \A v \in Entries(m) : v[1] \in Servers /\ v[2] \in Procs /\ reg[m][v[1]] = v[2]
BY DEF Entries, TypeOK

LEMMA VisitTypes ==
  ASSUME TypeInv, NEW t \in Threads, Visit(t)
  PROVE  /\ TypeInv' /\ th[t].pc = "visit" /\ UNCHANGED <<regime, rules, primary, mngrs, reg, proc>>
         /\ th'[t].op \in {th[t].op, "none"}
         /\ th'[t].op = "add" => th'[t].op = th[t].op /\ th'[t].srv = th[t].srv
         /\ \/ th'[t] = IdleThread
            \/ /\ th'[t].pc = "kill" /\ th'[t].mine \in Mngrs
               /\ th'[t].victims = Entries(th'[t].mine)
               /\ \E e \in th[t].left : th'[t].mine = mngrs[e] /\ th'[t].left = th[t].left \ {e}
<1>1. th[t].pc = "visit" /\ UNCHANGED <<regime, rules, primary, mngrs, reg, proc>>
  BY DEF Visit, At
<1>2. CASE Finish(t)
  <2>1. TypeInv' /\ th'[t] = IdleThread
    BY <1>1, <1>2, FinishTypes DEF TypeInv, TypeOK
  <2>2. QED
    BY <1>1, <2>1 DEF IdleThread
<1>3. ASSUME NEW e \in th[t].left,
             th' = [th EXCEPT ![t].left = @ \ {e}, ![t].mine = mngrs[e],
                              ![t].victims = Entries(mngrs[e]), ![t].pc = "kill"]
      PROVE  /\ TypeInv' /\ th'[t].pc = "kill" /\ th'[t].mine \in Mngrs
             /\ th'[t].victims = Entries(th'[t].mine)
             /\ th'[t].mine = mngrs[e] /\ th'[t].left = th[t].left \ {e}
             /\ th'[t].op = th[t].op /\ th'[t].srv = th[t].srv
  <2> DEFINE c == [th[t] EXCEPT !.left = th[t].left \ {e}, !.mine = mngrs[e],
                                !.victims = Entries(mngrs[e]), !.pc = "kill"]
  <2>1. th' = [th EXCEPT ![t] = c]
    BY <1>3
  <2>2. th[t] \in Thread /\ Shape(th[t]) /\ th[t].left \subseteq Mapped
    BY DEF TypeInv, TypeOK, Visits
  <2>3. mngrs[e] \in Mngrs
    BY <2>2 DEF Mapped, TypeInv, TypeOK
  <2>4. Entries(mngrs[e]) \subseteq Servers \X Procs
    BY <2>3, EntriesType DEF TypeInv
  <2>5. /\ c \in Thread /\ c.pc = "kill" /\ c.mine = mngrs[e] /\ c.victims = Entries(mngrs[e])
        /\ c.left = th[t].left \ {e} /\ c.left \subseteq Mapped /\ c.op = th[t].op
        /\ c.srv = th[t].srv
    BY <2>2, <2>3, <2>4 DEF Thread
  <2> HIDE DEF c
  <2>6. Shape(c)
    BY <2>2, <2>3, <2>5 DEF Shape
  <2>7. TypeInv' /\ th'[t] = c
    BY <1>1, <2>1, <2>5, <2>6, OnlyThread
  <2>8. QED
    BY <2>3, <2>5, <2>7
<1>4. QED
  <2>1. Finish(t) \/ \E e \in th[t].left :
          th' = [th EXCEPT ![t].left = @ \ {e}, ![t].mine = mngrs[e],
                           ![t].victims = Entries(mngrs[e]), ![t].pc = "kill"]
    BY DEF Visit
  <2>2. QED
    BY <1>1, <1>2, <1>3, <2>1

LEMMA FindTypes ==
  ASSUME TypeInv, NEW t \in Threads, Find(t)
  PROVE  /\ TypeInv' /\ th[t].pc = "find" /\ UNCHANGED <<regime, rules, primary, mngrs, reg, proc>>
         /\ th'[t].op \in {th[t].op, "none"}
         /\ th'[t].op = "add" => th'[t].op = th[t].op /\ th'[t].srv = th[t].srv
         /\ \/ th'[t] = IdleThread
            \/ /\ th'[t].pc = "kill" /\ th'[t].mine \in Mngrs
               /\ \A v \in th'[t].victims : reg[th'[t].mine][v[1]] = v[2]
<1> DEFINE m == mngrs[th[t].ep]
           v == <<th[t].srv, reg[m][th[t].srv]>>
           c == [th[t] EXCEPT !.mine = m, !.pc = "kill", !.victims = {v}]
<1>1. th[t].pc = "find" /\ UNCHANGED <<regime, rules, primary, mngrs, reg, proc>>
  BY DEF Find, At
<1>2. CASE Finish(t)
  <2>1. TypeInv' /\ th'[t] = IdleThread
    BY <1>1, <1>2, FinishTypes DEF TypeInv, TypeOK
  <2>2. QED
    BY <1>1, <2>1 DEF IdleThread
<1>3. CASE m # None /\ reg[m][th[t].srv] # None /\ th' = [th EXCEPT ![t] = c]
  <2>1. th[t] \in Thread /\ Shape(th[t]) /\ th[t].left \subseteq Mapped
    BY DEF TypeInv, TypeOK, Visits
  <2>2. th[t].ep \in Endpoints /\ th[t].srv \in Servers
    BY <1>1, <2>1 DEF Shape
  <2>3. m \in Mngrs
    BY <1>3, <2>2 DEF TypeInv, TypeOK
  <2> HIDE DEF m
  <2>4. reg[m][th[t].srv] \in Procs
    BY <1>3, <2>2, <2>3 DEF TypeInv, TypeOK
  <2>5. v \in Servers \X Procs /\ v[1] = th[t].srv /\ v[2] = reg[m][th[t].srv]
    BY <2>2, <2>4
  <2> HIDE DEF v
  <2>6. /\ c \in Thread /\ c.pc = "kill" /\ c.mine = m /\ c.victims = {v}
        /\ c.left = th[t].left /\ c.op = th[t].op /\ c.srv = th[t].srv
    BY <2>1, <2>3, <2>5 DEF Thread
  <2>7. th' = [th EXCEPT ![t] = c]
    BY <1>3
  <2> HIDE DEF c
  <2>8. Shape(c)
    BY <2>1, <2>2, <2>3, <2>6 DEF Shape
  <2>9. TypeInv' /\ th'[t] = c
    BY <1>1, <2>1, <2>6, <2>7, <2>8, OnlyThread
  <2>10. QED
    BY <1>1, <2>3, <2>5, <2>6, <2>9
<1>4. QED
  BY <1>2, <1>3 DEF Find

LEMMA KillTypes ==
  ASSUME TypeInv, NEW t \in Threads, Kill(t)
  PROVE  /\ TypeInv' /\ th[t].pc = "kill" /\ UNCHANGED <<regime, rules, primary, mngrs, reg>>
         /\ th'[t].op \in {th[t].op, "none"}
         /\ th'[t].op = "add" => th'[t].op = th[t].op /\ th'[t].srv = th[t].srv
         /\ \/ th'[t] = IdleThread /\ proc' = proc
            \/ /\ th[t].victims = {} /\ th[t].op = "stopall" /\ proc' = proc
               /\ th'[t].pc = "visit" /\ th'[t].left = th[t].left
            \/ \E v \in th[t].victims :
                 /\ v[1] \in Servers /\ v[2] \in Procs
                 /\ \A p \in Procs : p # v[2] => proc'[p] = proc[p]
                 /\ ~ Running(v[2])'
                 /\ th'[t].pc = "remove" /\ th'[t].mine = th[t].mine /\ th'[t].cur = v[1]
                 /\ th'[t].victims = th[t].victims \ {v} /\ th'[t].left = th[t].left
<1>1. th[t].pc = "kill" /\ UNCHANGED <<regime, rules, primary, mngrs, reg>>
  BY DEF Kill, At
<1>2. th[t] \in Thread /\ Shape(th[t]) /\ th[t].left \subseteq Mapped
  BY DEF TypeInv, TypeOK, Visits
<1>3. CASE Finish(t) /\ UNCHANGED proc
  <2>1. TypeInv' /\ th'[t] = IdleThread
    BY <1>1, <1>3, FinishTypes DEF TypeInv, TypeOK
  <2>2. QED
    BY <1>1, <1>3, <2>1 DEF IdleThread
<1>4. CASE /\ th' = [th EXCEPT ![t].pc = "visit"] /\ UNCHANGED proc
           /\ th[t].victims = {} /\ th[t].op = "stopall"
  <2> DEFINE c == [th[t] EXCEPT !.pc = "visit"]
  <2>1. th' = [th EXCEPT ![t] = c]
    BY <1>4
  <2>2. /\ c \in Thread /\ c.pc = "visit" /\ c.left = th[t].left /\ c.op = th[t].op
        /\ c.srv = th[t].srv
    BY <1>2 DEF Thread
  <2> HIDE DEF c
  <2>3. Shape(c)
    BY <1>2, <1>4, <2>2 DEF Shape
  <2>4. TypeInv' /\ th'[t] = c
    BY <1>1, <1>2, <1>4, <2>1, <2>2, <2>3, OnlyThread
  <2>5. QED
    BY <1>1, <1>4, <2>2, <2>4
<1>5. ASSUME NEW v \in th[t].victims,
             proc' = IF Alive(v[2]) THEN [proc EXCEPT ![v[2]].st = "stopping"] ELSE proc,
             th' = [th EXCEPT ![t].victims = @ \ {v}, ![t].cur = v[1], ![t].pc = "remove"]
      PROVE  /\ TypeInv' /\ v[1] \in Servers /\ v[2] \in Procs
             /\ \A p \in Procs : p # v[2] => proc'[p] = proc[p]
             /\ ~ Running(v[2])'
             /\ th'[t].pc = "remove" /\ th'[t].mine = th[t].mine /\ th'[t].cur = v[1]
             /\ th'[t].victims = th[t].victims \ {v} /\ th'[t].left = th[t].left
             /\ th'[t].op = th[t].op /\ th'[t].srv = th[t].srv
  <2> DEFINE rest == th[t].victims \ {v}
             c == [th[t] EXCEPT !.victims = rest, !.cur = v[1], !.pc = "remove"]
             x == [proc[v[2]] EXCEPT !.st = "stopping"]
  <2>1. th' = [th EXCEPT ![t] = c]
    BY <1>5
  <2>2. v[1] \in Servers /\ v[2] \in Procs /\ rest \subseteq Servers \X Procs
    BY <1>2 DEF Thread
  <2> HIDE DEF rest
  <2>3. /\ c \in Thread /\ c.pc = "remove" /\ c.cur = v[1] /\ c.victims = rest
        /\ c.left = th[t].left /\ c.op = th[t].op /\ c.srv = th[t].srv /\ c.mine = th[t].mine
    BY <1>2, <2>2 DEF Thread
  <2>4. proc[v[2]] \in Process /\ x \in Process /\ x.st = "stopping"
    BY <2>2 DEF TypeInv, TypeOK, Process
  <2>5. proc' = IF Alive(v[2]) THEN [proc EXCEPT ![v[2]] = x] ELSE proc
    BY <1>5
  <2> HIDE DEF c, x
  <2>6. Shape(c)
    BY <1>1, <1>2, <2>2, <2>3 DEF Shape
  <2>7. proc' \in [Procs -> Process] /\ \A p \in Procs : p # v[2] => proc'[p] = proc[p]
    BY <2>2, <2>4, <2>5 DEF TypeInv, TypeOK
  <2>8. ~ Running(v[2])'
    BY <2>2, <2>4, <2>5 DEF TypeInv, TypeOK, Alive, Running
  <2>9. Mapped' = Mapped
    BY <1>1 DEF Mapped
  <2>10. TypeInv' /\ th'[t] = c
    BY <1>1, <1>2, <2>1, <2>3, <2>6, <2>7, <2>9, ThreadMoves DEF TypeInv, TypeOK
  <2>11. QED
    BY <2>2, <2>3, <2>7, <2>8, <2>10 DEF rest
<1>6. QED
  <2>1. \/ Finish(t) /\ UNCHANGED proc
        \/ /\ th' = [th EXCEPT ![t].pc = "visit"] /\ UNCHANGED proc
           /\ th[t].victims = {} /\ th[t].op = "stopall"
        \/ \E v \in th[t].victims :
             /\ proc' = IF Alive(v[2]) THEN [proc EXCEPT ![v[2]].st = "stopping"] ELSE proc
             /\ th' = [th EXCEPT ![t].victims = @ \ {v}, ![t].cur = v[1], ![t].pc = "remove"]
    BY DEF Kill
  <2>2. QED
    BY <1>1, <1>3, <1>4, <1>5, <2>1

LEMMA RemoveTypes ==
  ASSUME TypeInv, NEW t \in Threads, Remove(t)
  PROVE  /\ TypeInv' /\ th[t].pc = "remove" /\ UNCHANGED <<regime, rules, primary, mngrs, proc>>
         /\ th[t].mine \in Mngrs /\ th[t].cur \in Servers
         /\ \A m \in Mngrs, s \in Servers :
              reg'[m][s] = IF m = th[t].mine /\ s = th[t].cur THEN None ELSE reg[m][s]
         /\ th'[t].pc = "kill" /\ th'[t].mine = th[t].mine /\ th'[t].op = th[t].op
         /\ th'[t].srv = th[t].srv /\ th'[t].victims = th[t].victims /\ th'[t].left = th[t].left
<1> DEFINE c == [th[t] EXCEPT !.cur = None, !.pc = "kill"]
<1>1. /\ th[t].pc = "remove" /\ UNCHANGED <<regime, rules, primary, mngrs, proc>>
      /\ reg' = [reg EXCEPT ![th[t].mine][th[t].cur] = None]
      /\ th' = [th EXCEPT ![t] = c]
  BY DEF Remove, At
<1>2. th[t] \in Thread /\ Shape(th[t]) /\ th[t].left \subseteq Mapped
  BY DEF TypeInv, TypeOK, Visits
<1>3. /\ c \in Thread /\ c.pc = "kill" /\ c.mine = th[t].mine /\ c.op = th[t].op
      /\ c.srv = th[t].srv /\ c.victims = th[t].victims /\ c.left = th[t].left
  BY <1>2 DEF Thread
<1> HIDE DEF c
<1>4. th[t].mine \in Mngrs /\ th[t].cur \in Servers
  BY <1>1, <1>2 DEF Shape
<1>5. Shape(c)
  BY <1>2, <1>3, <1>4 DEF Shape
<1>6. reg \in [Mngrs -> [Servers -> Procs \cup {None}]]
  BY DEF TypeInv, TypeOK
<1>7. /\ reg' \in [Mngrs -> [Servers -> Procs \cup {None}]]
      /\ \A m \in Mngrs, s \in Servers :
           reg'[m][s] = IF m = th[t].mine /\ s = th[t].cur THEN None ELSE reg[m][s]
  BY <1>1, <1>4, <1>6
<1>8. Mapped' = Mapped
  BY <1>1 DEF Mapped
<1>9. TypeInv' /\ th'[t] = c
  BY <1>1, <1>2, <1>3, <1>5, <1>7, <1>8, ThreadMoves DEF TypeInv, TypeOK
<1>10. QED
  BY <1>1, <1>3, <1>4, <1>7, <1>9

-----------------------------------------------------------------------------
(* What happens around the RPCs.                                           *)

LEMMA DbErrorTypes ==
  ASSUME TypeInv, NEW t \in Threads, DbError(t)
  PROVE  TypeInv' /\ Faulty /\ UNCHANGED regime
BY FinishTypes DEF DbError, TypeInv, TypeOK

\* Steps that leave the threads and the map alone.
LEMMA ThreadsRest ==
  ASSUME TypeInv, UNCHANGED <<regime, primary, mngrs, reg, th>>,
         rules' \in [Endpoints -> (SUBSET Servers) \cup {None}], proc' \in [Procs -> Process]
  PROVE  TypeInv'
<1>1. TypeOK'
  BY DEF TypeInv, TypeOK
<1>2. (\A t \in Threads : Shape(th[t]))'
  BY DEF TypeInv, Shape
<1>3. Visits'
  BY DEF TypeInv, Visits, Mapped
<1>4. QED
  BY <1>1, <1>2, <1>3 DEF TypeInv

LEMMA RegisterRuleTypes ==
  ASSUME TypeInv, NEW t \in Threads, NEW e \in Endpoints, NEW s \in Servers,
         RegisterRule(t, e, s)
  PROVE  /\ TypeInv' /\ th[t].pc = "idle" /\ UNCHANGED <<regime, primary, mngrs, reg, proc, th>>
         /\ s \in Unknown => Faulty
         /\ \A f \in Endpoints : Saved(f)' = IF f = e THEN Saved(f) \cup {s} ELSE Saved(f)
<1> DEFINE x == Saved(e) \cup {s}
<1>1. /\ th[t].pc = "idle" /\ UNCHANGED <<regime, primary, mngrs, reg, proc, th>>
      /\ (s \in Unknown => Faulty) /\ rules' = [rules EXCEPT ![e] = x]
  BY DEF RegisterRule, At
<1>2. x \subseteq Servers /\ x = Saved(e) \cup {s}
  BY DEF Saved, TypeInv, TypeOK
<1> HIDE DEF x
<1>3. x # None
  BY <1>2, ServerAgentAssumption
<1>4. /\ rules' \in [Endpoints -> (SUBSET Servers) \cup {None}]
      /\ \A f \in Endpoints : rules'[f] = IF f = e THEN x ELSE rules[f]
  BY <1>1, <1>2 DEF TypeInv, TypeOK
<1>5. TypeInv'
  BY <1>1, <1>4, ThreadsRest DEF TypeInv, TypeOK
<1>6. \A f \in Endpoints : Saved(f)' = IF f = e THEN Saved(f) \cup {s} ELSE Saved(f)
  BY <1>2, <1>3, <1>4 DEF Saved
<1>7. QED
  BY <1>1, <1>5, <1>6

LEMMA DeleteRulesTypes ==
  ASSUME TypeInv, NEW t \in Threads, NEW e \in Endpoints, DeleteRules(t, e)
  PROVE  TypeInv' /\ Faulty /\ UNCHANGED regime
<1>1. Faulty /\ UNCHANGED <<regime, primary, mngrs, reg, proc, th>>
      /\ rules' = [rules EXCEPT ![e] = None]
  BY DEF DeleteRules
<1>2. rules' \in [Endpoints -> (SUBSET Servers) \cup {None}]
  BY <1>1 DEF TypeInv, TypeOK
<1>3. QED
  BY <1>1, <1>2, ThreadsRest DEF TypeInv, TypeOK

\* A worker that is not told to stop was not told before, and serves the same.
LEMMA WorkerTypes ==
  ASSUME TypeInv, NEW p \in Procs, Bind(p) \/ Die(p) \/ WorkerDies(p)
  PROVE  /\ TypeInv' /\ UNCHANGED <<regime, rules, primary, mngrs, reg, th>>
         /\ \A q \in Procs : Running(q)' =>
              Running(q) /\ proc'[q].ep = proc[q].ep /\ proc'[q].srv = proc[q].srv
<1> DEFINE x == [proc[p] EXCEPT !.st = "serving"]
<1>1. /\ UNCHANGED <<regime, rules, primary, mngrs, reg, th>>
      /\ \/ proc' = [proc EXCEPT ![p] = Dead]
         \/ proc[p].st = "starting" /\ proc' = [proc EXCEPT ![p] = x]
  BY DEF Bind, Die, WorkerDies
<1>2. x \in Process /\ x.ep = proc[p].ep /\ x.srv = proc[p].srv
  BY DEF TypeInv, TypeOK, Process
<1> HIDE DEF x
<1>3. proc' \in [Procs -> Process]
  BY <1>1, <1>2, DeadType DEF TypeInv, TypeOK
<1>4. TypeInv'
  BY <1>1, <1>3, ThreadsRest DEF TypeInv, TypeOK
<1>5. \A q \in Procs : q # p => proc'[q] = proc[q]
  BY <1>1 DEF TypeInv, TypeOK
<1>6. proc'[p] = Dead \/ (proc[p].st = "starting" /\ proc'[p] = x)
  BY <1>1 DEF TypeInv, TypeOK
<1>7. QED
  BY <1>1, <1>2, <1>4, <1>5, <1>6, DeadType DEF Running

LEMMA RestartTypes ==
  ASSUME TypeInv, NEW t \in Threads, Restart(t)
  PROVE  /\ TypeInv' /\ UNCHANGED <<regime, rules>>
         /\ \A p \in Procs : ~ Running(p)'
         /\ \A e \in Endpoints : mngrs'[e] = None
         /\ th'[t].pc = "primary" /\ th'[t].op = "boot"
<1> DEFINE c == [IdleThread EXCEPT !.pc = "primary", !.op = "boot"]
<1>1. /\ UNCHANGED <<regime, rules>> /\ primary' = None
      /\ mngrs' = [e \in Endpoints |-> None]
      /\ reg' = [m \in Mngrs |-> [s \in Servers |-> None]]
      /\ proc' = [p \in Procs |-> Dead]
      /\ th' = [u \in Threads |-> IF u = t THEN c ELSE IdleThread]
  BY DEF Restart
<1>2. c \in Thread /\ Shape(c) /\ c.left = {} /\ c.pc = "primary" /\ c.op = "boot"
  BY DEF IdleThread, Thread, Shape
<1> HIDE DEF c
<1>3. th' \in [Threads -> Thread] /\ \A u \in Threads : Shape(th'[u]) /\ th'[u].left = {}
  BY <1>1, <1>2, IdleType
<1>4. reg' \in [Mngrs -> [Servers -> Procs \cup {None}]]
  BY <1>1
<1>5. TypeOK'
  BY <1>1, <1>3, <1>4, DeadType DEF TypeInv, TypeOK
<1>6. (\A u \in Threads : Shape(th[u]))'
  BY <1>3 DEF Shape
<1>7. Visits'
  BY <1>3 DEF Visits
<1>8. \A p \in Procs : ~ Running(p)'
  BY <1>1, DeadType DEF Running
<1>9. QED
  BY <1>1, <1>2, <1>5, <1>6, <1>7, <1>8 DEF TypeInv

LEMMA NextTypes ==
  ASSUME TypeInv, [Next]_vars
  PROVE  TypeInv'
<1>1. CASE UNCHANGED vars
  BY <1>1, ThreadsRest DEF vars, TypeInv, TypeOK
<1>2. ASSUME NEW t \in regime.threads, Request(t) PROVE TypeInv'
  <2>1. t \in Threads /\ regime.endpoints \subseteq Endpoints /\ regime.servers \subseteq Servers
    BY RegimeType DEF TypeInv
  <2>2. QED
    BY <1>2, <2>1, StartServersTypes, AddServerTypes, StopServerTypes, StopServersTypes,
       RegisterRuleTypes, DeleteRulesTypes DEF Request
<1>3. ASSUME NEW t \in regime.threads, Step(t) PROVE TypeInv'
  <2>1. t \in Threads
    BY RegimeType DEF TypeInv
  <2>2. QED
    BY <1>3, <2>1, PrimaryTypes, LookupTypes, LoadTypes, CheckTypes, SpawnTypes, EnrollTypes,
       PersistTypes, PublishTypes, VisitTypes, FindTypes, KillTypes, RemoveTypes, DbErrorTypes
       DEF Step
<1>4. ASSUME NEW t \in regime.threads, Restart(t) PROVE TypeInv'
  BY <1>4, RestartTypes, RegimeType DEF TypeInv
<1>5. QED
  BY <1>1, <1>2, <1>3, <1>4, WorkerTypes DEF Next

(* Every state of the agent, its registries, workers and RPCs is well      *)
(* typed, in every regime: however RPCs overlap, raise and are cut short.  *)
THEOREM ServerTypes == Spec => []TypeOK
<1>1. TypeInv => TypeOK
  BY DEF TypeInv
<1>2. QED
  BY <1>1, InitTypes, NextTypes, PTL DEF Spec

(***************************************************************************)
(* Safety: one RPC at a time, and none raises.                             *)
(***************************************************************************)
Calm == Serial /\ ~ Faulty

StartPcs == {"check", "spawn", "enroll", "persist", "publish"}

\* A running worker is in a registry that the agent knows, or in the one that
\* the RPC has in hand and will publish, or is about to be put there.
Held(t, p) ==
  \/ mngrs[proc[p].ep] # None /\ reg[mngrs[proc[p].ep]][proc[p].srv] = p
  \/ th[t].pc \in StartPcs /\ proc[p].ep = th[t].ep /\ reg[th[t].mine][proc[p].srv] = p
  \/ th[t].pc = "enroll" /\ proc[p].ep = th[t].ep /\ proc[p].srv = th[t].cur /\ th[t].new = p

Placed(t) ==
  \A p \in Procs : Running(p) =>
    proc[p].ep \in Endpoints /\ proc[p].srv \in Servers /\ Held(t, p)

\* No two endpoints share a manager.
OneOwner == \A e, f \in Endpoints : (mngrs[e] = mngrs[f] /\ mngrs[e] # None) => e = f

\* The manager in hand is the endpoint's own, or a new one.
Mine(t) ==
  th[t].pc \in StartPcs \cup {"load"} =>
    /\ mngrs[th[t].ep] \in {None, th[t].mine}
    /\ \A e \in Endpoints : mngrs[e] = th[t].mine => e = th[t].ep

\* Nothing serves yet what is about to be started.
Alone(t) ==
  \A p \in Procs :
    (Running(p) /\ proc[p].ep = th[t].ep /\ proc[p].srv = th[t].cur)
      => th[t].pc # "spawn" /\ (th[t].pc = "enroll" => p = th[t].new)

\* What is to be stopped is still what the registry has, and what is taken out
\* of it has been told to stop.
Victims(t) ==
  /\ th[t].pc \in {"kill", "remove"} =>
       \A v \in th[t].victims : reg[th[t].mine][v[1]] = v[2]
  /\ th[t].pc = "remove" =>
       /\ \A v \in th[t].victims : v[1] # th[t].cur
       /\ \A p \in Procs : reg[th[t].mine][th[t].cur] = p => ~ Running(p)

\* What is being started is saved, or is what add_server will save.
Wanted(t) ==
  /\ \A e \in Endpoints : Saved(e) \cap Unknown = {}
  /\ th[t].op = "add" => th[t].srv \notin Unknown /\ th[t].pc # "load"
  /\ th[t].op = "add" /\ th[t].pc \in {"lookup", "check"} => th[t].todo \subseteq {th[t].srv}
  /\ th[t].op = "add" /\ th[t].pc \in {"spawn", "enroll"} => th[t].todo = {} /\ th[t].cur = th[t].srv
  /\ th[t].op # "add" /\ th[t].pc \in {"check", "spawn", "enroll"} => th[t].todo \subseteq Saved(th[t].ep)
  /\ th[t].op # "add" /\ th[t].pc \in {"spawn", "enroll"} => th[t].cur \in Saved(th[t].ep)

SavedSoon(t) ==
  \A p \in Procs : Running(p) =>
    \/ proc[p].srv \in Saved(proc[p].ep)
    \/ /\ th[t].op = "add" /\ th[t].pc \in {"enroll", "persist"}
       /\ proc[p].ep = th[t].ep /\ proc[p].srv = th[t].srv

Safe(t) ==
  OneOwner /\ Placed(t) /\ Mine(t) /\ Alone(t) /\ Victims(t) /\ Wanted(t) /\ SavedSoon(t)

-----------------------------------------------------------------------------
LEMMA InitSafe == ASSUME Init, NEW t \in Threads PROVE Safe(t)
<1>1. /\ th[t] = IdleThread /\ IdleThread.pc = "idle" /\ IdleThread.op = "none"
      /\ \A e \in Endpoints : mngrs[e] = None /\ rules[e] = None
  BY DEF Init, IdleThread
<1>2. \A p \in Procs : ~ Running(p)
  BY DeadType DEF Init, Running
<1>3. OneOwner /\ Placed(t) /\ Mine(t) /\ Alone(t)
  BY <1>1, <1>2 DEF OneOwner, Placed, Mine, Alone, StartPcs
<1>4. Victims(t) /\ Wanted(t) /\ SavedSoon(t)
  BY <1>1, <1>2 DEF Victims, Wanted, SavedSoon, Saved
<1>5. QED
  BY <1>3, <1>4 DEF Safe

\* The RPC goes where nothing is started or stopped, and changes nothing else.
LEMMA Elsewhere ==
  ASSUME NEW t \in Threads, Safe(t), UNCHANGED <<rules, mngrs, reg, proc>>,
         th[t].pc \notin StartPcs, th'[t].pc \in {"idle", "primary", "lookup", "visit", "find"},
         th'[t].op = "add" => th'[t].srv \notin Unknown,
         th'[t].op = "add" /\ th'[t].pc = "lookup" => th'[t].todo \subseteq {th'[t].srv}
  PROVE  Safe(t)'
<1>1. OneOwner' /\ Mine(t)' /\ Alone(t)' /\ Victims(t)'
  BY DEF Safe, OneOwner, Mine, Alone, Victims, StartPcs, Running
<1>2. \A p \in Procs : Running(p)' <=> Running(p)
  BY DEF Running
<1>3. Placed(t)'
  BY <1>2 DEF Safe, Placed, Held, StartPcs
<1>4. Wanted(t)'
  BY DEF Safe, Wanted, Saved
<1>5. SavedSoon(t)'
  BY <1>2 DEF Safe, SavedSoon, Saved, StartPcs
<1>6. QED
  BY <1>1, <1>3, <1>4, <1>5 DEF Safe

LEMMA WorkerSafe ==
  ASSUME TypeInv, NEW t \in Threads, Safe(t), NEW p \in Procs, Bind(p) \/ Die(p) \/ WorkerDies(p)
  PROVE  Safe(t)'
<1>1. /\ UNCHANGED <<regime, rules, primary, mngrs, reg, th>>
      /\ \A q \in Procs : Running(q)' =>
           Running(q) /\ proc'[q].ep = proc[q].ep /\ proc'[q].srv = proc[q].srv
  BY WorkerTypes
<1>2. OneOwner' /\ Mine(t)'
  BY <1>1 DEF Safe, OneOwner, Mine
<1>3. Placed(t)'
  BY <1>1 DEF Safe, Placed, Held
<1>4. Alone(t)'
  BY <1>1 DEF Safe, Alone
<1>5. Victims(t)'
  BY <1>1 DEF Safe, Victims
<1>6. Wanted(t)'
  BY <1>1 DEF Safe, Wanted, Saved
<1>7. SavedSoon(t)'
  BY <1>1 DEF Safe, SavedSoon, Saved
<1>8. QED
  BY <1>2, <1>3, <1>4, <1>5, <1>6, <1>7 DEF Safe

LEMMA RestartSafe ==
  ASSUME TypeInv, NEW t \in Threads, Safe(t), Restart(t)
  PROVE  Safe(t)'
<1>1. /\ UNCHANGED <<regime, rules>>
      /\ \A p \in Procs : ~ Running(p)'
      /\ \A e \in Endpoints : mngrs'[e] = None
      /\ th'[t].pc = "primary" /\ th'[t].op = "boot"
  BY RestartTypes
<1>2. OneOwner' /\ Placed(t)' /\ Mine(t)' /\ Alone(t)'
  BY <1>1 DEF OneOwner, Placed, Mine, Alone, StartPcs
<1>3. Victims(t)' /\ SavedSoon(t)'
  BY <1>1 DEF Victims, SavedSoon
<1>4. Wanted(t)'
  BY <1>1 DEF Safe, Wanted, Saved
<1>5. QED
  BY <1>2, <1>3, <1>4 DEF Safe

LEMMA LookupSafe ==
  ASSUME TypeInv, NEW t \in Threads, Safe(t), Lookup(t)
  PROVE  Safe(t)'
<1>1. /\ th[t].pc = "lookup" /\ UNCHANGED <<regime, rules, primary, mngrs, proc>>
      /\ th'[t].pc = IF th[t].op = "add" THEN "check" ELSE "load"
      /\ th'[t].mine \in Mngrs /\ th'[t].ep = th[t].ep /\ th'[t].op = th[t].op
      /\ th'[t].srv = th[t].srv /\ th'[t].todo = th[t].todo
  BY LookupTypes
<1>2. \/ th'[t].mine = mngrs[th[t].ep] /\ reg' = reg
      \/ /\ mngrs[th[t].ep] = None /\ \A e \in Endpoints : mngrs[e] # th'[t].mine
         /\ reg' = [reg EXCEPT ![th'[t].mine] = [s \in Servers |-> None]]
  BY LookupTypes
<1>3. th[t].ep \in Endpoints /\ reg \in [Mngrs -> [Servers -> Procs \cup {None}]]
      /\ \A e \in Endpoints : mngrs[e] \in Mngrs \cup {None}
  BY <1>1 DEF TypeInv, TypeOK, Shape
<1>4. \A p \in Procs : Running(p)' <=> Running(p)
  BY <1>1 DEF Running
<1>5. \A e \in Endpoints : mngrs[e] # None => reg'[mngrs[e]] = reg[mngrs[e]]
  BY <1>2, <1>3
<1>6. Placed(t)'
  BY <1>1, <1>4, <1>5 DEF Safe, Placed, Held, StartPcs
<1>7. OneOwner'
  BY <1>1 DEF Safe, OneOwner
<1>8. Mine(t)'
  BY <1>1, <1>2, <1>3, ServerAgentAssumption DEF Safe, OneOwner, Mine
<1>9. Alone(t)' /\ Victims(t)'
  BY <1>1 DEF Alone, Victims
<1>10. Wanted(t)'
  BY <1>1 DEF Safe, Wanted, Saved
<1>11. SavedSoon(t)'
  BY <1>1, <1>4 DEF Safe, SavedSoon, Saved
<1>12. QED
  BY <1>6, <1>7, <1>8, <1>9, <1>10, <1>11 DEF Safe

LEMMA LoadSafe ==
  ASSUME TypeInv, NEW t \in Threads, Safe(t), Load(t)
  PROVE  Safe(t)'
<1>1. /\ th[t].pc = "load" /\ UNCHANGED <<regime, rules, primary, mngrs, reg, proc>>
      /\ th'[t].pc \in {"publish", "check"} /\ th'[t].mine = th[t].mine
      /\ th'[t].ep = th[t].ep /\ th'[t].op = th[t].op /\ th'[t].srv = th[t].srv
      /\ th'[t].todo = Saved(th[t].ep)
  BY LoadTypes
<1>2. \A p \in Procs : Running(p)' <=> Running(p)
  BY <1>1 DEF Running
<1>3. Placed(t)'
  BY <1>1, <1>2 DEF Safe, Placed, Held, StartPcs
<1>4. OneOwner' /\ Mine(t)'
  BY <1>1 DEF Safe, OneOwner, Mine, StartPcs
<1>5. Alone(t)' /\ Victims(t)'
  BY <1>1 DEF Alone, Victims
<1>6. th[t].op # "add"
  BY <1>1 DEF Safe, Wanted
<1>7. Wanted(t)'
  BY <1>1, <1>6 DEF Safe, Wanted, Saved
<1>8. SavedSoon(t)'
  BY <1>1, <1>2 DEF Safe, SavedSoon, Saved
<1>9. QED
  BY <1>3, <1>4, <1>5, <1>7, <1>8 DEF Safe

LEMMA CheckSafe ==
  ASSUME TypeInv, NEW t \in Threads, Safe(t), NEW s \in Servers, Check(t, s)
  PROVE  Safe(t)'
<1>1. /\ th[t].pc = "check" /\ s \in th[t].todo
      /\ UNCHANGED <<regime, rules, primary, mngrs, reg, proc>>
      /\ th'[t].mine = th[t].mine /\ th'[t].ep = th[t].ep /\ th'[t].op = th[t].op
      /\ th'[t].srv = th[t].srv /\ th'[t].todo = th[t].todo \ {s}
  BY CheckTypes
<1>2. \/ th'[t].pc \in {"check", "persist", "publish"}
      \/ /\ th'[t].pc = "spawn" /\ th'[t].cur = s
         /\ reg[th[t].mine][s] # None => ~ Alive(reg[th[t].mine][s])
  BY CheckTypes
<1>3. \A p \in Procs : Running(p)' <=> Running(p)
  BY <1>1 DEF Running
<1>4. Placed(t)'
  BY <1>1, <1>2, <1>3 DEF Safe, Placed, Held, StartPcs
<1>5. OneOwner' /\ Mine(t)'
  BY <1>1, <1>2 DEF Safe, OneOwner, Mine, StartPcs
<1>6. ASSUME NEW p \in Procs, Running(p), proc[p].ep = th[t].ep, proc[p].srv = s,
             th'[t].pc = "spawn"
      PROVE  FALSE
  <2>1. reg[th[t].mine][s] = p
    BY <1>1, <1>6 DEF Safe, Placed, Held, Mine, StartPcs
  <2>2. p # None /\ Alive(p)
    BY <1>6, ServerAgentAssumption DEF Running, Alive
  <2>3. QED
    BY <1>2, <1>6, <2>1, <2>2
<1>7. Alone(t)'
  BY <1>1, <1>2, <1>3, <1>6 DEF Alone
<1>8. Victims(t)'
  BY <1>2 DEF Victims
<1>9. Wanted(t)'
  BY <1>1, <1>2 DEF Safe, Wanted, Saved
<1>10. SavedSoon(t)'
  BY <1>1, <1>3 DEF Safe, SavedSoon, Saved
<1>11. QED
  BY <1>4, <1>5, <1>7, <1>8, <1>9, <1>10 DEF Safe

LEMMA SpawnSafe ==
  ASSUME TypeInv, NEW t \in Threads, Safe(t), Spawn(t)
  PROVE  Safe(t)'
<1>1. th[t].pc = "spawn" /\ UNCHANGED <<regime, rules, primary, mngrs, reg>>
  BY SpawnTypes
<1>2. th[t].cur \notin Unknown
  <2>1. th[t].ep \in Endpoints
    BY <1>1 DEF TypeInv, Shape
  <2>2. QED
    BY <1>1, <2>1 DEF Safe, Wanted
<1>3. PICK p \in Procs :
        /\ ~ Alive(p) /\ \A m \in Mngrs, s \in Servers : reg[m][s] # p
        /\ proc' = [proc EXCEPT ![p] =
                     [st |-> "starting", ep |-> th[t].ep, srv |-> th[t].cur]]
        /\ th'[t].new = p /\ th'[t].pc = "enroll" /\ th'[t].mine = th[t].mine
        /\ th'[t].ep = th[t].ep /\ th'[t].op = th[t].op /\ th'[t].srv = th[t].srv
        /\ th'[t].todo = th[t].todo /\ th'[t].cur = th[t].cur
  BY <1>2, SpawnTypes
<1>4. th[t].ep \in Endpoints /\ th[t].cur \in Servers
  BY <1>1 DEF TypeInv, Shape
<1>5. /\ proc'[p].ep = th[t].ep /\ proc'[p].srv = th[t].cur
      /\ \A q \in Procs : q # p => proc'[q] = proc[q]
  BY <1>3 DEF TypeInv, TypeOK
<1>6. \A q \in Procs : q # p => (Running(q)' <=> Running(q))
  BY <1>5 DEF Running
<1>7. OneOwner' /\ Mine(t)'
  BY <1>1, <1>3 DEF Safe, OneOwner, Mine, StartPcs
<1>8. Placed(t)'
  <2> SUFFICES ASSUME NEW q \in Procs, Running(q)'
               PROVE  proc'[q].ep \in Endpoints /\ proc'[q].srv \in Servers /\ Held(t, q)'
    BY DEF Placed
  <2>1. CASE q = p
    BY <1>3, <1>4, <1>5, <2>1 DEF Held
  <2>2. CASE q # p
    BY <1>1, <1>3, <1>5, <1>6, <2>2 DEF Safe, Placed, Held, StartPcs
  <2>3. QED
    BY <2>1, <2>2
<1>9. Alone(t)'
  BY <1>1, <1>3, <1>5, <1>6 DEF Safe, Alone
<1>10. Victims(t)'
  BY <1>3 DEF Victims
<1>11. Wanted(t)'
  BY <1>1, <1>3 DEF Safe, Wanted, Saved
<1>12. SavedSoon(t)'
  <2> SUFFICES ASSUME NEW q \in Procs, Running(q)'
               PROVE  \/ proc'[q].srv \in Saved(proc[q].ep)'
                      \/ /\ th'[t].op = "add" /\ th'[t].pc \in {"enroll", "persist"}
                         /\ proc'[q].ep = th'[t].ep /\ proc'[q].srv = th'[t].srv
    BY DEF SavedSoon
  <2>1. CASE q = p
    BY <1>1, <1>3, <1>5, <2>1 DEF Safe, Wanted, Saved
  <2>2. CASE q # p
    BY <1>1, <1>3, <1>5, <1>6, <2>2 DEF Safe, SavedSoon, Saved
  <2>3. QED
    BY <2>1, <2>2
<1>13. QED
  BY <1>7, <1>8, <1>9, <1>10, <1>11, <1>12 DEF Safe

LEMMA EnrollSafe ==
  ASSUME TypeInv, NEW t \in Threads, Safe(t), Enroll(t)
  PROVE  Safe(t)'
<1>1. /\ th[t].pc = "enroll" /\ UNCHANGED <<regime, rules, primary, mngrs, proc>>
      /\ \A m \in Mngrs, s \in Servers :
           reg'[m][s] = IF m = th[t].mine /\ s = th[t].cur THEN th[t].new ELSE reg[m][s]
      /\ th'[t].mine = th[t].mine /\ th'[t].ep = th[t].ep /\ th'[t].op = th[t].op
      /\ th'[t].srv = th[t].srv /\ th'[t].todo = th[t].todo
      /\ th'[t].pc = AfterStart(t, th[t].todo)
  BY EnrollTypes
<1>2. th'[t].pc \in {"check", "persist", "publish"}
  BY <1>1, AfterStartType
<1>3. /\ th[t].mine \in Mngrs /\ th[t].cur \in Servers /\ th[t].ep \in Endpoints
      /\ \A e \in Endpoints : mngrs[e] \in Mngrs \cup {None}
  BY <1>1 DEF TypeInv, TypeOK, Shape
<1>4. \A p \in Procs : Running(p)' <=> Running(p)
  BY <1>1 DEF Running
<1>5. Placed(t)'
  <2> SUFFICES ASSUME NEW p \in Procs, Running(p)
               PROVE  proc[p].ep \in Endpoints /\ proc[p].srv \in Servers /\ Held(t, p)'
    BY <1>1, <1>4 DEF Placed
  <2>1. proc[p].ep \in Endpoints /\ proc[p].srv \in Servers /\ Held(t, p)
    BY DEF Safe, Placed
  <2>2. CASE proc[p].ep = th[t].ep /\ proc[p].srv = th[t].cur
    <3>1. p = th[t].new
      BY <1>1, <2>2 DEF Safe, Alone
    <3>2. reg'[th[t].mine][th[t].cur] = p
      BY <1>1, <1>3, <3>1
    <3>3. QED
      BY <1>1, <1>2, <2>1, <2>2, <3>2 DEF Held, StartPcs
  <2>3. CASE proc[p].ep = th[t].ep /\ proc[p].srv # th[t].cur
    <3>1. reg'[th[t].mine][proc[p].srv] = reg[th[t].mine][proc[p].srv]
      BY <1>1, <1>3, <2>1, <2>3
    <3>2. reg[th[t].mine][proc[p].srv] = p
      BY <1>1, <2>1, <2>3 DEF Held, Safe, Mine, StartPcs
    <3>3. QED
      BY <1>1, <1>2, <2>1, <2>3, <3>1, <3>2 DEF Held, StartPcs
  <2>4. CASE proc[p].ep # th[t].ep
    <3>1. mngrs[proc[p].ep] # None /\ reg[mngrs[proc[p].ep]][proc[p].srv] = p
      BY <2>1, <2>4 DEF Held
    <3>2. mngrs[proc[p].ep] # th[t].mine
      BY <1>1, <2>1, <2>4 DEF Safe, Mine, StartPcs
    <3>3. reg'[mngrs[proc[p].ep]][proc[p].srv] = p
      BY <1>1, <1>3, <2>1, <3>1, <3>2
    <3>4. QED
      BY <1>1, <2>1, <3>1, <3>3 DEF Held
  <2>5. QED
    BY <2>2, <2>3, <2>4
<1>6. OneOwner' /\ Mine(t)'
  BY <1>1, <1>2 DEF Safe, OneOwner, Mine, StartPcs
<1>7. Alone(t)' /\ Victims(t)'
  BY <1>2 DEF Alone, Victims
<1>8. th[t].op = "add" => th'[t].pc = "persist"
  BY <1>1 DEF Safe, Wanted, AfterStart
<1>9. Wanted(t)'
  BY <1>1, <1>2, <1>8 DEF Safe, Wanted, Saved
<1>10. SavedSoon(t)'
  BY <1>1, <1>4, <1>8 DEF Safe, SavedSoon, Saved
<1>11. QED
  BY <1>5, <1>6, <1>7, <1>9, <1>10 DEF Safe

LEMMA PersistSafe ==
  ASSUME TypeInv, NEW t \in Threads, Safe(t), Persist(t)
  PROVE  Safe(t)'
<1>1. /\ th[t].pc = "persist" /\ UNCHANGED <<regime, primary, mngrs, reg, proc>>
      /\ th[t].op = "add" /\ th[t].srv \in Servers
      /\ \A e \in Endpoints :
           Saved(e)' = IF e = th[t].ep THEN Saved(e) \cup {th[t].srv} ELSE Saved(e)
      /\ th'[t].pc = "publish" /\ th'[t].mine = th[t].mine /\ th'[t].ep = th[t].ep
      /\ th'[t].op = th[t].op /\ th'[t].srv = th[t].srv
  BY PersistTypes
<1>2. \A p \in Procs : Running(p)' <=> Running(p)
  BY <1>1 DEF Running
<1>3. OneOwner' /\ Mine(t)'
  BY <1>1 DEF Safe, OneOwner, Mine, StartPcs
<1>4. Placed(t)'
  BY <1>1, <1>2 DEF Safe, Placed, Held, StartPcs
<1>5. Alone(t)' /\ Victims(t)'
  BY <1>1 DEF Alone, Victims
<1>6. Wanted(t)'
  BY <1>1 DEF Safe, Wanted
<1>7. SavedSoon(t)'
  <2> SUFFICES ASSUME NEW p \in Procs, Running(p)
               PROVE  proc[p].srv \in Saved(proc[p].ep)'
    BY <1>1, <1>2 DEF SavedSoon
  <2>1. proc[p].ep \in Endpoints
    BY DEF Safe, Placed
  <2>2. proc[p].srv \in Saved(proc[p].ep) \/ (proc[p].ep = th[t].ep /\ proc[p].srv = th[t].srv)
    BY DEF Safe, SavedSoon
  <2>3. Saved(proc[p].ep)' = IF proc[p].ep = th[t].ep THEN Saved(proc[p].ep) \cup {th[t].srv}
                             ELSE Saved(proc[p].ep)
    BY <1>1, <2>1 DEF Saved
  <2>4. QED
    BY <2>2, <2>3
<1>8. QED
  BY <1>3, <1>4, <1>5, <1>6, <1>7 DEF Safe

LEMMA PublishSafe ==
  ASSUME TypeInv, NEW t \in Threads, Safe(t), Publish(t)
  PROVE  Safe(t)'
<1>1. /\ th[t].pc = "publish" /\ UNCHANGED <<regime, rules, primary, reg, proc>>
      /\ \A e \in Endpoints : mngrs'[e] = IF e = th[t].ep THEN th[t].mine ELSE mngrs[e]
      /\ th'[t].pc = "idle" /\ th'[t].op = "none"
  BY PublishTypes DEF IdleThread
<1>2. /\ th[t].mine \in Mngrs /\ th[t].ep \in Endpoints /\ th[t].mine # None
      /\ mngrs[th[t].ep] \in {None, th[t].mine}
      /\ \A e \in Endpoints : mngrs[e] = th[t].mine => e = th[t].ep
  BY <1>1, ServerAgentAssumption DEF TypeInv, Shape, Safe, Mine, StartPcs
<1>3. \A p \in Procs : Running(p)' <=> Running(p)
  BY <1>1 DEF Running
<1>4. OneOwner'
  BY <1>1, <1>2 DEF Safe, OneOwner
<1>5. Placed(t)'
  <2> SUFFICES ASSUME NEW p \in Procs, Running(p)
               PROVE  proc[p].ep \in Endpoints /\ proc[p].srv \in Servers /\ Held(t, p)'
    BY <1>1, <1>3 DEF Placed
  <2>1. proc[p].ep \in Endpoints /\ proc[p].srv \in Servers /\ Held(t, p)
    BY DEF Safe, Placed
  <2>2. mngrs'[proc[p].ep] # None /\ reg[mngrs'[proc[p].ep]][proc[p].srv] = p
    BY <1>1, <1>2, <2>1 DEF Held
  <2>3. QED
    BY <1>1, <2>1, <2>2 DEF Held
<1>6. Mine(t)' /\ Alone(t)' /\ Victims(t)'
  BY <1>1 DEF Mine, Alone, Victims, StartPcs
<1>7. Wanted(t)'
  BY <1>1 DEF Safe, Wanted, Saved
<1>8. SavedSoon(t)'
  BY <1>1, <1>3 DEF Safe, SavedSoon, Saved
<1>9. QED
  BY <1>4, <1>5, <1>6, <1>7, <1>8 DEF Safe

\* The RPC takes up the entries of a registry.
LEMMA KillNext ==
  ASSUME NEW t \in Threads, Safe(t), UNCHANGED <<rules, mngrs, reg, proc>>,
         th[t].pc \in {"visit", "find"}, th'[t].pc = "kill",
         th'[t].op = "add" => th'[t].op = th[t].op /\ th'[t].srv = th[t].srv,
         \A v \in th'[t].victims : reg[th'[t].mine][v[1]] = v[2]
  PROVE  Safe(t)'
<1>1. \A p \in Procs : Running(p)' <=> Running(p)
  BY DEF Running
<1>2. OneOwner' /\ Mine(t)' /\ Alone(t)' /\ Victims(t)'
  BY DEF Safe, OneOwner, Mine, Alone, Victims, StartPcs
<1>3. Placed(t)'
  BY <1>1 DEF Safe, Placed, Held, StartPcs
<1>4. Wanted(t)'
  BY DEF Safe, Wanted, Saved
<1>5. SavedSoon(t)'
  BY <1>1 DEF Safe, SavedSoon, Saved
<1>6. QED
  BY <1>2, <1>3, <1>4, <1>5 DEF Safe

LEMMA VisitSafe ==
  ASSUME TypeInv, NEW t \in Threads, Safe(t), Visit(t)
  PROVE  Safe(t)'
<1>1. /\ th[t].pc = "visit" /\ UNCHANGED <<rules, mngrs, reg, proc>>
      /\ th'[t].op = "add" => th'[t].op = th[t].op /\ th'[t].srv = th[t].srv
  BY VisitTypes
<1>2. CASE th'[t] = IdleThread
  BY <1>1, <1>2, Elsewhere DEF IdleThread, StartPcs
<1>3. CASE th'[t].pc = "kill" /\ th'[t].mine \in Mngrs /\ th'[t].victims = Entries(th'[t].mine)
  <2>1. \A v \in th'[t].victims : reg[th'[t].mine][v[1]] = v[2]
    BY <1>3, EntriesType DEF TypeInv
  <2>2. QED
    BY <1>1, <1>3, <2>1, KillNext
<1>4. QED
  BY <1>2, <1>3, VisitTypes

LEMMA FindSafe ==
  ASSUME TypeInv, NEW t \in Threads, Safe(t), Find(t)
  PROVE  Safe(t)'
<1>1. /\ th[t].pc = "find" /\ UNCHANGED <<rules, mngrs, reg, proc>>
      /\ th'[t].op = "add" => th'[t].op = th[t].op /\ th'[t].srv = th[t].srv
  BY FindTypes
<1>2. CASE th'[t] = IdleThread
  BY <1>1, <1>2, Elsewhere DEF IdleThread, StartPcs
<1>3. CASE th'[t].pc = "kill" /\ \A v \in th'[t].victims : reg[th'[t].mine][v[1]] = v[2]
  BY <1>1, <1>3, KillNext
<1>4. QED
  BY <1>2, <1>3, FindTypes

LEMMA KillSafe ==
  ASSUME TypeInv, NEW t \in Threads, Safe(t), Kill(t)
  PROVE  Safe(t)'
<1>1. /\ th[t].pc = "kill" /\ UNCHANGED <<regime, rules, primary, mngrs, reg>>
      /\ th'[t].op = "add" => th'[t].op = th[t].op /\ th'[t].srv = th[t].srv
  BY KillTypes
<1>2. CASE th'[t].pc \in {"idle", "visit"} /\ proc' = proc
  <2>1. th'[t].op = "add" => th'[t].srv \notin Unknown
    BY <1>1 DEF Safe, Wanted
  <2>2. QED
    BY <1>1, <1>2, <2>1, Elsewhere DEF StartPcs
<1>3. ASSUME NEW v \in th[t].victims, v[1] \in Servers, v[2] \in Procs,
             \A p \in Procs : p # v[2] => proc'[p] = proc[p],
             ~ Running(v[2])', th'[t].pc = "remove", th'[t].mine = th[t].mine,
             th'[t].cur = v[1], th'[t].victims = th[t].victims \ {v}
      PROVE  Safe(t)'
  <2>1. \A p \in Procs : Running(p)' => Running(p) /\ proc'[p] = proc[p]
    BY <1>3 DEF Running
  <2>2. OneOwner' /\ Mine(t)' /\ Alone(t)'
    BY <1>1, <1>3 DEF Safe, OneOwner, Mine, Alone, StartPcs
  <2>3. Placed(t)'
    BY <1>1, <2>1 DEF Safe, Placed, Held, StartPcs
  <2>4. \A w \in th[t].victims : reg[th[t].mine][w[1]] = w[2]
    BY <1>1 DEF Safe, Victims
  <2>5. th[t].victims \subseteq Servers \X Procs
    BY DEF TypeInv, TypeOK, Thread
  <2>6. \A w \in th[t].victims \ {v} : w[1] # v[1]
    BY <1>3, <2>4, <2>5
  <2>7. Victims(t)'
    BY <1>1, <1>3, <2>4, <2>6 DEF Victims
  <2>8. Wanted(t)'
    BY <1>1, <1>3 DEF Safe, Wanted, Saved
  <2>9. SavedSoon(t)'
    BY <1>1, <2>1 DEF Safe, SavedSoon, Saved
  <2>10. QED
    BY <2>2, <2>3, <2>7, <2>8, <2>9 DEF Safe
<1>4. QED
  BY <1>2, <1>3, KillTypes DEF IdleThread

LEMMA RemoveSafe ==
  ASSUME TypeInv, NEW t \in Threads, Safe(t), Remove(t)
  PROVE  Safe(t)'
<1>1. /\ th[t].pc = "remove" /\ UNCHANGED <<regime, rules, primary, mngrs, proc>>
      /\ th[t].mine \in Mngrs /\ th[t].cur \in Servers
      /\ \A m \in Mngrs, s \in Servers :
           reg'[m][s] = IF m = th[t].mine /\ s = th[t].cur THEN None ELSE reg[m][s]
      /\ th'[t].pc = "kill" /\ th'[t].mine = th[t].mine /\ th'[t].op = th[t].op
      /\ th'[t].srv = th[t].srv /\ th'[t].victims = th[t].victims
  BY RemoveTypes
<1>2. \A p \in Procs : Running(p)' <=> Running(p)
  BY <1>1 DEF Running
<1>3. /\ th[t].victims \subseteq Servers \X Procs
      /\ \A e \in Endpoints : mngrs[e] \in Mngrs \cup {None}
  BY DEF TypeInv, TypeOK, Thread
<1>4. OneOwner' /\ Mine(t)' /\ Alone(t)'
  BY <1>1 DEF Safe, OneOwner, Mine, Alone, StartPcs
<1>5. Placed(t)'
  <2> SUFFICES ASSUME NEW p \in Procs, Running(p)
               PROVE  proc[p].ep \in Endpoints /\ proc[p].srv \in Servers /\ Held(t, p)'
    BY <1>1, <1>2 DEF Placed
  <2>1. /\ proc[p].ep \in Endpoints /\ proc[p].srv \in Servers
        /\ mngrs[proc[p].ep] # None /\ reg[mngrs[proc[p].ep]][proc[p].srv] = p
    BY <1>1 DEF Safe, Placed, Held, StartPcs
  <2>2. ~ (mngrs[proc[p].ep] = th[t].mine /\ proc[p].srv = th[t].cur)
    BY <1>1, <2>1 DEF Safe, Victims
  <2>3. reg'[mngrs[proc[p].ep]][proc[p].srv] = p
    BY <1>1, <1>3, <2>1, <2>2
  <2>4. QED
    BY <1>1, <2>1, <2>3 DEF Held
<1>6. Victims(t)'
  <2>1. \A v \in th[t].victims : v[1] \in Servers /\ v[1] # th[t].cur /\ reg[th[t].mine][v[1]] = v[2]
    BY <1>1, <1>3 DEF Safe, Victims
  <2>2. \A v \in th[t].victims : reg'[th[t].mine][v[1]] = v[2]
    BY <1>1, <2>1
  <2>3. QED
    BY <1>1, <2>2 DEF Victims
<1>7. Wanted(t)'
  BY <1>1 DEF Safe, Wanted, Saved
<1>8. SavedSoon(t)'
  BY <1>1, <1>2 DEF Safe, SavedSoon, Saved
<1>9. QED
  BY <1>4, <1>5, <1>6, <1>7, <1>8 DEF Safe

LEMMA PrimarySafe ==
  ASSUME TypeInv, NEW t \in Threads, Safe(t), Primary(t)
  PROVE  Safe(t)'
<1>1. /\ th[t].pc = "primary" /\ UNCHANGED <<rules, mngrs, reg, proc>>
      /\ th'[t].pc \in {"idle", "lookup", "find"}
      /\ th'[t].op \in {th[t].op, "none"}
      /\ th'[t].op = "add" => th'[t].srv = th[t].srv /\ th'[t].todo = th[t].todo
  BY PrimaryTypes
<1>2. th[t].op # "add"
  BY <1>1 DEF TypeInv, Shape
<1>3. QED
  BY <1>1, <1>2, Elsewhere DEF StartPcs

LEMMA RegisterRuleSafe ==
  ASSUME TypeInv, ~ Faulty, NEW t \in Threads, Safe(t), NEW e \in Endpoints, NEW s \in Servers,
         RegisterRule(t, e, s)
  PROVE  Safe(t)'
<1>1. /\ th[t].pc = "idle" /\ UNCHANGED <<regime, primary, mngrs, reg, proc, th>>
      /\ s \notin Unknown
      /\ \A f \in Endpoints : Saved(f)' = IF f = e THEN Saved(f) \cup {s} ELSE Saved(f)
  BY RegisterRuleTypes
<1>2. \A p \in Procs : Running(p)' <=> Running(p)
  BY <1>1 DEF Running
<1>3. OneOwner' /\ Mine(t)'
  BY <1>1 DEF Safe, OneOwner, Mine
<1>4. Placed(t)'
  BY <1>1, <1>2 DEF Safe, Placed, Held
<1>5. Alone(t)' /\ Victims(t)'
  BY <1>1 DEF Alone, Victims
<1>6. Wanted(t)'
  BY <1>1 DEF Safe, Wanted
<1>7. SavedSoon(t)'
  <2> SUFFICES ASSUME NEW p \in Procs, Running(p)
               PROVE  proc[p].srv \in Saved(proc[p].ep)'
    BY <1>1, <1>2 DEF SavedSoon
  <2>1. proc[p].ep \in Endpoints
    BY DEF Safe, Placed
  <2>2. proc[p].srv \in Saved(proc[p].ep)
    BY <1>1 DEF Safe, SavedSoon
  <2>3. Saved(proc[p].ep) \subseteq Saved(proc[p].ep)'
    <3>1. Saved(proc[p].ep)' = IF proc[p].ep = e THEN Saved(proc[p].ep) \cup {s}
                               ELSE Saved(proc[p].ep)
      BY <1>1, <2>1 DEF Saved
    <3>2. QED
      BY <3>1
  <2>4. QED
    BY <2>2, <2>3
<1>8. QED
  BY <1>3, <1>4, <1>5, <1>6, <1>7 DEF Safe

LEMMA RequestSafe ==
  ASSUME TypeInv, ~ Faulty, NEW t \in Threads, Safe(t), Request(t)
  PROVE  Safe(t)'
<1>1. regime.endpoints \subseteq Endpoints /\ regime.servers \subseteq Servers
  BY RegimeType DEF TypeInv
<1>2. CASE BeginStartServers(t)
  <2>1. /\ UNCHANGED <<rules, mngrs, reg, proc>> /\ th[t].pc = "idle"
        /\ th'[t].pc = "primary" /\ th'[t].op = "start"
    BY <1>2, StartServersTypes
  <2>2. QED
    BY <2>1, Elsewhere DEF StartPcs
<1>3. CASE BeginStopServers(t)
  <2>1. /\ UNCHANGED <<rules, mngrs, reg, proc>> /\ th[t].pc = "idle"
        /\ th'[t].pc = "visit" /\ th'[t].op = "stopall"
    BY <1>3, StopServersTypes
  <2>2. QED
    BY <2>1, Elsewhere DEF StartPcs
<1>4. ASSUME NEW e \in Endpoints, NEW s \in Servers, BeginAddServer(t, e, s)
      PROVE  Safe(t)'
  <2>1. /\ UNCHANGED <<rules, mngrs, reg, proc>> /\ th[t].pc = "idle"
        /\ th'[t].pc = "lookup" /\ th'[t].op = "add"
        /\ th'[t].srv = s /\ th'[t].todo = {s} /\ s \notin Unknown
    BY <1>4, AddServerTypes
  <2>2. QED
    BY <2>1, Elsewhere DEF StartPcs
<1>5. ASSUME NEW e \in Endpoints \cup {None}, NEW s \in Servers, BeginStopServer(t, e, s)
      PROVE  Safe(t)'
  <2>1. /\ UNCHANGED <<rules, mngrs, reg, proc>> /\ th[t].pc = "idle"
        /\ th'[t].pc \in {"primary", "find"} /\ th'[t].op = "stop"
    BY <1>5, StopServerTypes
  <2>2. QED
    BY <2>1, Elsewhere DEF StartPcs
<1>6. QED
  BY <1>1, <1>2, <1>3, <1>4, <1>5, RegisterRuleSafe DEF Request, DeleteRules

LEMMA StepSafe ==
  ASSUME TypeInv, ~ Faulty, NEW t \in Threads, Safe(t), Step(t)
  PROVE  Safe(t)'
BY PrimarySafe, LookupSafe, LoadSafe, CheckSafe, SpawnSafe, EnrollSafe, PersistSafe, PublishSafe,
   VisitSafe, FindSafe, KillSafe, RemoveSafe DEF Step, DbError

-----------------------------------------------------------------------------
(* stop_servers: what still runs is still to be visited, or to be stopped. *)

Cleared(t) ==
  th[t].op = "stopall" =>
    /\ th[t].pc \in {"visit", "kill", "remove"}
    /\ \A p \in Procs : Running(p) =>
         \/ proc[p].ep \in th[t].left
         \/ /\ th[t].pc \in {"kill", "remove"} /\ mngrs[proc[p].ep] = th[t].mine
            /\ <<proc[p].srv, p>> \in th[t].victims

\* Nothing that starts servers is a stop_servers.
LEMMA StartsCleared ==
  ASSUME TypeInv, ~ Faulty, NEW t \in Threads, Safe(t), Cleared(t),
         \/ Primary(t) \/ Lookup(t) \/ Load(t) \/ Spawn(t) \/ Enroll(t) \/ Persist(t) \/ Publish(t)
         \/ Find(t) \/ \E s \in Servers : Check(t, s)
  PROVE  Cleared(t)'
<1>1. th[t].pc \notin {"visit", "kill", "remove"}
  BY DEF Primary, Lookup, Load, Spawn, Enroll, Persist, Publish, Find, Check, At
<1>2. th[t].op # "stopall"
  BY <1>1 DEF Cleared
<1>3. th[t].pc = "spawn" => th[t].cur \notin Unknown
  <2>1. th[t].pc = "spawn" => th[t].ep \in Endpoints
    BY DEF TypeInv, Shape
  <2>2. QED
    BY <2>1 DEF Safe, Wanted
<1>4. th'[t].op \in {th[t].op, "none"}
  <2>1. CASE Spawn(t)
    BY <1>3, <2>1, SpawnTypes
  <2>2. CASE Publish(t) \/ Find(t)
    BY <2>2, PublishTypes, FindTypes DEF IdleThread
  <2>3. CASE Primary(t) \/ Lookup(t) \/ Load(t)
    BY <2>3, PrimaryTypes, LookupTypes, LoadTypes
  <2>4. CASE Enroll(t) \/ Persist(t) \/ \E s \in Servers : Check(t, s)
    BY <2>4, EnrollTypes, PersistTypes, CheckTypes
  <2>5. QED
    BY <2>1, <2>2, <2>3, <2>4
<1>5. QED
  BY <1>2, <1>4 DEF Cleared

LEMMA StopsCleared ==
  ASSUME TypeInv, NEW t \in Threads, Safe(t), Cleared(t), Visit(t) \/ Kill(t) \/ Remove(t)
  PROVE  Cleared(t)'
<1>1. CASE Visit(t)
  <2>1. /\ th[t].pc = "visit" /\ UNCHANGED <<regime, rules, primary, mngrs, reg, proc>>
        /\ th'[t].op \in {th[t].op, "none"}
    BY <1>1, VisitTypes
  <2>2. CASE th'[t] = IdleThread
    BY <2>2 DEF Cleared, IdleThread
  <2>3. CASE /\ th'[t].pc = "kill" /\ th'[t].mine \in Mngrs
             /\ th'[t].victims = Entries(th'[t].mine)
             /\ \E e \in th[t].left : th'[t].mine = mngrs[e] /\ th'[t].left = th[t].left \ {e}
    <3>1. PICK e \in th[t].left : th'[t].mine = mngrs[e] /\ th'[t].left = th[t].left \ {e}
      BY <2>3
    <3>2. SUFFICES ASSUME th[t].op = "stopall", NEW p \in Procs, Running(p)
                   PROVE  \/ proc[p].ep \in th'[t].left
                          \/ mngrs[proc[p].ep] = th'[t].mine /\ <<proc[p].srv, p>> \in th'[t].victims
      BY <2>1, <2>3 DEF Cleared, Running
    <3>3. proc[p].ep \in th[t].left
      BY <2>1, <3>2 DEF Cleared
    <3>4. CASE proc[p].ep = e
      <4>1. proc[p].srv \in Servers /\ mngrs[e] # None /\ reg[mngrs[e]][proc[p].srv] = p
        BY <2>1, <3>2, <3>4 DEF Safe, Placed, Held, StartPcs
      <4>2. p # None
        BY ServerAgentAssumption
      <4>3. <<proc[p].srv, p>> \in Entries(mngrs[e])
        BY <4>1, <4>2 DEF Entries
      <4>4. QED
        BY <2>3, <3>1, <3>4, <4>3
    <3>5. CASE proc[p].ep # e
      BY <3>1, <3>3, <3>5
    <3>6. QED
      BY <3>4, <3>5
  <2>4. QED
    BY <1>1, <2>2, <2>3, VisitTypes
<1>2. CASE Kill(t)
  <2>1. /\ th[t].pc = "kill" /\ UNCHANGED <<regime, rules, primary, mngrs, reg>>
        /\ th'[t].op \in {th[t].op, "none"}
    BY <1>2, KillTypes
  <2>2. CASE th'[t] = IdleThread
    BY <2>2 DEF Cleared, IdleThread
  <2>3. CASE /\ th[t].victims = {} /\ th[t].op = "stopall" /\ proc' = proc
             /\ th'[t].pc = "visit" /\ th'[t].left = th[t].left
    BY <2>1, <2>3 DEF Cleared, Running
  <2>4. ASSUME NEW v \in th[t].victims, v[1] \in Servers, v[2] \in Procs,
               \A p \in Procs : p # v[2] => proc'[p] = proc[p],
               ~ Running(v[2])', th'[t].pc = "remove", th'[t].mine = th[t].mine,
               th'[t].victims = th[t].victims \ {v}, th'[t].left = th[t].left
        PROVE  Cleared(t)'
    <3>1. SUFFICES ASSUME th[t].op = "stopall", NEW p \in Procs, Running(p)'
                   PROVE  \/ proc'[p].ep \in th'[t].left
                          \/ mngrs[proc'[p].ep] = th'[t].mine /\ <<proc'[p].srv, p>> \in th'[t].victims
      BY <2>1, <2>4 DEF Cleared
    <3>2. p # v[2] /\ proc'[p] = proc[p] /\ Running(p)
      BY <2>4, <3>1 DEF Running
    <3>3. <<proc[p].srv, p>> # v
      BY <3>2
    <3>4. QED
      BY <2>1, <2>4, <3>1, <3>2, <3>3 DEF Cleared
  <2>5. QED
    BY <1>2, <2>2, <2>3, <2>4, KillTypes
<1>3. CASE Remove(t)
  <2>1. /\ th[t].pc = "remove" /\ UNCHANGED <<regime, rules, primary, mngrs, proc>>
        /\ th'[t].pc = "kill" /\ th'[t].mine = th[t].mine /\ th'[t].op = th[t].op
        /\ th'[t].victims = th[t].victims /\ th'[t].left = th[t].left
    BY <1>3, RemoveTypes
  <2>2. QED
    BY <2>1 DEF Cleared, Running
<1>4. QED
  BY <1>1, <1>2, <1>3

LEMMA RequestCleared ==
  ASSUME TypeInv, ~ Faulty, NEW t \in Threads, Safe(t), Cleared(t), Request(t)
  PROVE  Cleared(t)'
<1>1. regime.endpoints \subseteq Endpoints /\ regime.servers \subseteq Servers
  BY RegimeType DEF TypeInv
<1>2. CASE BeginStopServers(t)
  <2>1. /\ UNCHANGED <<rules, mngrs, reg, proc>> /\ th[t].pc = "idle"
        /\ th'[t].pc = "visit" /\ th'[t].left = Mapped
    BY <1>2, StopServersTypes
  <2>2. \A p \in Procs : Running(p) => proc[p].ep \in Mapped
    BY <2>1 DEF Safe, Placed, Held, StartPcs, Mapped
  <2>3. QED
    BY <2>1, <2>2 DEF Cleared, Running
<1>3. CASE \E s \in Servers, e \in Endpoints : RegisterRule(t, e, s)
  BY <1>3, RegisterRuleTypes DEF Cleared, Running
<1>4. CASE \/ BeginStartServers(t)
           \/ \E s \in Servers : \/ \E e \in Endpoints : BeginAddServer(t, e, s)
                               \/ \E e \in Endpoints \cup {None} : BeginStopServer(t, e, s)
  <2>1. th'[t].op \in {"start", "add", "stop"}
    BY <1>4, StartServersTypes, AddServerTypes, StopServerTypes
  <2>2. QED
    BY <2>1 DEF Cleared
<1>5. QED
  BY <1>1, <1>2, <1>3, <1>4 DEF Request, DeleteRules

LEMMA WorkerCleared ==
  ASSUME TypeInv, NEW t \in Threads, Cleared(t), NEW p \in Procs, Bind(p) \/ Die(p) \/ WorkerDies(p)
  PROVE  Cleared(t)'
BY WorkerTypes DEF Cleared

-----------------------------------------------------------------------------
(* start_servers: what the database has is registered, or still to do. It  *)
(* may raise, so that this is about every regime with one RPC at a time.   *)

Started(t) ==
  (th[t].op # "add" /\ th[t].pc \in {"check", "spawn", "enroll", "publish"}) =>
    \A s \in Saved(th[t].ep) :
      \/ reg[th[t].mine][s] # None
      \/ s \in th[t].todo /\ th[t].pc # "publish"
      \/ s = th[t].cur /\ th[t].pc \in {"spawn", "enroll"}

LEMMA StartedKeeps ==
  ASSUME TypeInv, NEW t \in Threads, Started(t), Step(t)
  PROVE  Started(t)'
<1>1. CASE Load(t)
  <2>1. /\ th[t].pc = "load" /\ UNCHANGED <<regime, rules, primary, mngrs, reg, proc>>
        /\ th'[t].ep = th[t].ep /\ th'[t].todo = Saved(th[t].ep)
        /\ th'[t].pc = IF Saved(th[t].ep) = {} THEN "publish" ELSE "check"
    BY <1>1, LoadTypes
  <2>2. QED
    BY <2>1 DEF Started, Saved
<1>2. ASSUME NEW s \in Servers, Check(t, s) PROVE Started(t)'
  <2>1. /\ th[t].pc = "check" /\ s \in th[t].todo
        /\ UNCHANGED <<regime, rules, primary, mngrs, reg, proc>>
        /\ th'[t].mine = th[t].mine /\ th'[t].ep = th[t].ep /\ th'[t].op = th[t].op
        /\ th'[t].todo = th[t].todo \ {s}
    BY <1>2, CheckTypes
  <2>2. \/ /\ reg[th[t].mine][s] # None
           /\ th'[t].pc = AfterStart(t, th[t].todo \ {s})
        \/ th'[t].pc = "spawn" /\ th'[t].cur = s
    BY <1>2, CheckTypes
  <2>3. CASE th[t].op # "add"
    BY <2>1, <2>2, <2>3 DEF Started, Saved, AfterStart
  <2>4. QED
    BY <2>1, <2>3 DEF Started
<1>3. CASE Spawn(t)
  <2>1. th[t].pc = "spawn" /\ UNCHANGED <<regime, rules, primary, mngrs, reg>>
    BY <1>3, SpawnTypes
  <2>2. CASE th'[t] = IdleThread
    BY <2>2 DEF Started, IdleThread
  <2>3. CASE /\ th'[t].pc = "enroll" /\ th'[t].mine = th[t].mine
             /\ th'[t].ep = th[t].ep /\ th'[t].op = th[t].op
             /\ th'[t].todo = th[t].todo /\ th'[t].cur = th[t].cur
    BY <2>1, <2>3 DEF Started, Saved
  <2>4. QED
    BY <1>3, <2>2, <2>3, SpawnTypes
<1>4. CASE Enroll(t)
  <2>1. /\ th[t].pc = "enroll" /\ UNCHANGED <<regime, rules, primary, mngrs, proc>>
        /\ \A m \in Mngrs, s \in Servers :
             reg'[m][s] = IF m = th[t].mine /\ s = th[t].cur THEN th[t].new ELSE reg[m][s]
        /\ th'[t].mine = th[t].mine /\ th'[t].ep = th[t].ep /\ th'[t].op = th[t].op
        /\ th'[t].todo = th[t].todo /\ th'[t].pc = AfterStart(t, th[t].todo)
    BY <1>4, EnrollTypes
  <2>2. /\ th[t].mine \in Mngrs /\ th[t].new \in Procs /\ th[t].ep \in Endpoints
        /\ th[t].new # None
    BY <2>1, ServerAgentAssumption DEF TypeInv, Shape
  <2>3. Saved(th[t].ep) \subseteq Servers /\ Saved(th[t].ep)' = Saved(th[t].ep)
    BY <2>1, <2>2 DEF Saved, TypeInv, TypeOK
  <2>4. CASE th[t].op # "add"
    <3>1. SUFFICES ASSUME NEW s \in Saved(th[t].ep)
                   PROVE  reg'[th[t].mine][s] # None \/ (s \in th[t].todo /\ th'[t].pc # "publish")
      BY <2>1 DEF Started, Saved
    <3>2. reg[th[t].mine][s] # None \/ s \in th[t].todo \/ s = th[t].cur
      BY <2>1, <2>4 DEF Started
    <3>3. s \in th[t].todo => th'[t].pc # "publish"
      BY <2>1 DEF AfterStart
    <3>4. reg'[th[t].mine][s] = IF s = th[t].cur THEN th[t].new ELSE reg[th[t].mine][s]
      BY <2>1, <2>2, <2>3
    <3>5. QED
      BY <2>2, <3>2, <3>3, <3>4
  <2>5. QED
    BY <2>1, <2>4 DEF Started
<1>5. CASE Lookup(t) \/ Persist(t) \/ Primary(t)
  BY <1>5, LookupTypes, PersistTypes, PrimaryTypes DEF Started
<1>6. CASE Publish(t) \/ Visit(t) \/ Find(t) \/ Kill(t) \/ Remove(t)
  BY <1>6, PublishTypes, VisitTypes, FindTypes, KillTypes, RemoveTypes DEF Started, IdleThread
<1>7. CASE DbError(t)
  BY <1>7, FinishTypes DEF DbError, TypeInv, TypeOK, Started, IdleThread
<1>8. QED
  BY <1>1, <1>2, <1>3, <1>4, <1>5, <1>6, <1>7 DEF Step

LEMMA StartedRequest ==
  ASSUME TypeInv, NEW t \in Threads, Request(t)
  PROVE  Started(t)'
<1>1. regime.endpoints \subseteq Endpoints /\ regime.servers \subseteq Servers
  BY RegimeType DEF TypeInv
<1>2. th'[t].pc \in {"idle", "primary", "lookup", "find", "visit"}
  BY <1>1, StartServersTypes, AddServerTypes, StopServerTypes, StopServersTypes, RegisterRuleTypes
     DEF Request, DeleteRules, At
<1>3. QED
  BY <1>2 DEF Started

-----------------------------------------------------------------------------
\* Threads that the regime leaves out do nothing.
Others == \A u \in Threads \ regime.threads : th[u].pc = "idle"

LEMMA OthersKeep ==
  ASSUME TypeInv, Others, [Next]_vars
  PROVE  Others' /\ regime' = regime
<1>1. CASE UNCHANGED vars
  BY <1>1 DEF vars, Others
<1>2. ASSUME NEW t \in regime.threads, Request(t) PROVE Others' /\ regime' = regime
  <2>1. regime' = regime /\ \A u \in Threads \ {t} : th'[u] = th[u]
    BY <1>2 DEF Request, BeginStartServers, BeginAddServer, BeginStopServer, BeginStopServers, Begin,
       RegisterRule, DeleteRules, TypeInv, TypeOK
  <2>2. QED
    BY <1>2, <2>1 DEF Others
<1>3. ASSUME NEW t \in regime.threads, Step(t) PROVE Others' /\ regime' = regime
  <2>1. regime' = regime /\ \A u \in Threads \ {t} : th'[u] = th[u]
    BY <1>3 DEF Step, Primary, Lookup, Load, Spawn, Enroll, Persist, Publish, Check, Visit, Find, Kill,
       Remove, DbError, Finish, TypeInv, TypeOK
  <2>2. QED
    BY <1>3, <2>1 DEF Others
<1>4. ASSUME NEW t \in regime.threads, Restart(t) PROVE Others' /\ regime' = regime
  BY <1>4 DEF Restart, Others, IdleThread
<1>5. ASSUME NEW p \in Procs, Bind(p) \/ Die(p) \/ WorkerDies(p) PROVE Others' /\ regime' = regime
  BY <1>5, WorkerTypes DEF Others
<1>6. QED
  BY <1>1, <1>2, <1>3, <1>4, <1>5 DEF Next

IInv ==
  /\ TypeInv /\ Others
  /\ Calm => \A t \in regime.threads : Safe(t) /\ Cleared(t)
  /\ Serial => \A t \in regime.threads : Started(t)

LEMMA OneThread ==
  ASSUME TypeInv, Serial, NEW t \in regime.threads
  PROVE  t \in Threads /\ regime.threads = {t}
<1>1. regime.threads \subseteq Threads /\ IsFiniteSet(regime.threads)
  BY RegimeType, ServerAgentAssumption, FS_Subset DEF TypeInv
<1>2. PICK x : regime.threads = {x}
  BY <1>1, FS_Singleton DEF Serial
<1>3. QED
  BY <1>1, <1>2

LEMMA OneServes ==
  ASSUME TypeInv, Serial
  PROVE  \E t \in Threads : t \in regime.threads
<1>1. regime.threads \subseteq Threads /\ IsFiniteSet(regime.threads)
  BY RegimeType, ServerAgentAssumption, FS_Subset DEF TypeInv
<1>2. PICK x : regime.threads = {x}
  BY <1>1, FS_Singleton DEF Serial
<1>3. QED
  BY <1>1, <1>2

LEMMA InitHolds == Init => IInv
<1> SUFFICES ASSUME Init PROVE IInv
  OBVIOUS
<1>1. TypeInv
  BY InitTypes
<1>2. \A t \in Threads : th[t] = IdleThread
  BY DEF Init
<1>3. Others /\ \A t \in Threads : Cleared(t) /\ Started(t)
  BY <1>2 DEF Others, Cleared, Started, IdleThread
<1>4. QED
  BY <1>1, <1>3, InitSafe, RegimeType DEF IInv, TypeInv

LEMMA NextKeeps ==
  ASSUME IInv, [Next]_vars
  PROVE  IInv'
<1>1. TypeInv' /\ Others' /\ regime' = regime
  BY NextTypes, OthersKeep DEF IInv
<1>2. (Calm' <=> Calm) /\ (Serial' <=> Serial)
  BY <1>1 DEF Calm, Serial, Faulty
<1>3. ASSUME Calm, NEW t \in regime.threads PROVE Safe(t)' /\ Cleared(t)'
  <2>1. TypeInv /\ ~ Faulty /\ t \in Threads /\ regime.threads = {t} /\ Safe(t) /\ Cleared(t)
    BY <1>3, OneThread DEF IInv, Calm
  <2>2. CASE UNCHANGED vars
    <3>1. UNCHANGED <<regime, rules, primary, mngrs, reg, proc, th>>
      BY <2>2 DEF vars
    <3>2. OneOwner' /\ Placed(t)' /\ Mine(t)' /\ Alone(t)'
      BY <2>1, <3>1 DEF Safe, OneOwner, Placed, Held, Mine, Alone, Running
    <3>3. Victims(t)' /\ Wanted(t)' /\ SavedSoon(t)'
      BY <2>1, <3>1 DEF Safe, Victims, Wanted, SavedSoon, Running, Saved
    <3>4. Cleared(t)'
      BY <2>1, <3>1 DEF Cleared, Running
    <3>5. QED
      BY <3>2, <3>3, <3>4 DEF Safe
  <2>3. CASE Request(t)
    BY <2>1, <2>3, RequestSafe, RequestCleared
  <2>4. CASE Step(t)
    <3>1. Safe(t)'
      BY <2>1, <2>4, StepSafe
    <3>2. Cleared(t)'
      BY <2>1, <2>4, StartsCleared, StopsCleared DEF Step, DbError
    <3>3. QED
      BY <3>1, <3>2
  <2>5. CASE Restart(t)
    BY <2>1, <2>5, RestartSafe, RestartTypes DEF Cleared
  <2>6. ASSUME NEW p \in Procs, Bind(p) \/ Die(p) \/ WorkerDies(p)
        PROVE  Safe(t)' /\ Cleared(t)'
    BY <2>1, <2>6, WorkerSafe, WorkerCleared
  <2>7. QED
    BY <2>1, <2>2, <2>3, <2>4, <2>5, <2>6 DEF Next
<1>4. ASSUME Serial, NEW t \in regime.threads PROVE Started(t)'
  <2>1. TypeInv /\ t \in Threads /\ regime.threads = {t} /\ Started(t)
    BY <1>4, OneThread DEF IInv
  <2>2. CASE UNCHANGED vars
    BY <2>1, <2>2 DEF vars, Started, Saved
  <2>3. CASE Request(t) \/ Step(t)
    BY <2>1, <2>3, StartedRequest, StartedKeeps
  <2>4. CASE Restart(t)
    BY <2>1, <2>4, RestartTypes DEF Started
  <2>5. ASSUME NEW p \in Procs, Bind(p) \/ Die(p) \/ WorkerDies(p) PROVE Started(t)'
    BY <2>1, <2>5, WorkerTypes DEF Started, Saved
  <2>6. QED
    BY <2>1, <2>2, <2>3, <2>4, <2>5 DEF Next
<1>5. QED
  BY <1>1, <1>2, <1>3, <1>4 DEF IInv

LEMMA Always == Spec => []IInv
BY InitHolds, NextKeeps, PTL DEF Spec

(* With one RPC at a time, a worker that runs is in the registry of a      *)
(* manager that the agent knows (ServerRegistry: "all of the servers"),    *)
(* unless an RPC has raised, for any endpoints and servers, across stops,  *)
(* deaths and restarts.                                                    *)
THEOREM NothingStrays == Spec => []NoStray
<1>1. IInv => NoStray
  <2> SUFFICES ASSUME IInv, Serial, Quiet, ~ Faulty, NEW p \in Procs, Running(p)
               PROVE  Reachable(p)
    BY DEF NoStray, RegistryHoldsAll
  <2>1. PICK t \in Threads : Safe(t)
    BY OneServes DEF IInv, Calm
  <2>2. th[t].pc = "idle"
    BY DEF Quiet, At
  <2>3. QED
    BY <2>1, <2>2 DEF Safe, Placed, Held, StartPcs, Reachable
<1>2. QED
  BY <1>1, Always, PTL

(* No two workers run for one server of an endpoint (start_server looks    *)
(* whether the registered process is alive), under the same conditions.    *)
THEOREM NoSecondWorker == Spec => []OneWorker
<1>1. IInv => OneWorker
  <2> SUFFICES ASSUME IInv, Serial, ~ Faulty, NEW p \in Procs, NEW q \in Procs,
                      Running(p), Running(q), proc[p].ep = proc[q].ep, proc[p].srv = proc[q].srv
               PROVE  p = q
    BY DEF OneWorker
  <2>1. PICK t \in Threads : Safe(t)
    BY OneServes DEF IInv, Calm
  <2>2. Held(t, p) /\ Held(t, q) /\ proc[p].ep \in Endpoints
    BY <2>1 DEF Safe, Placed
  <2>3. th[t].pc = "enroll" /\ proc[p].ep = th[t].ep /\ proc[p].srv = th[t].cur => p = q
    BY <2>1 DEF Safe, Alone
  <2>4. th[t].pc \in StartPcs /\ proc[p].ep = th[t].ep => mngrs[proc[p].ep] \in {None, th[t].mine}
    BY <2>1 DEF Safe, Mine
  <2>5. QED
    BY <2>2, <2>3, <2>4 DEF Held
<1>2. QED
  BY <1>1, Always, PTL

(* What runs is in the database when no RPC is served, so that it comes    *)
(* back after a restart, under the same conditions.                        *)
THEOREM RunsSaved == Spec => []RunningSaved
<1>1. IInv => RunningSaved
  <2> SUFFICES ASSUME IInv, Serial, Quiet, ~ Faulty, NEW p \in Procs, Running(p)
               PROVE  proc[p].srv \in Saved(proc[p].ep)
    BY DEF RunningSaved
  <2>1. PICK t \in Threads : Safe(t)
    BY OneServes DEF IInv, Calm
  <2>2. th[t].pc = "idle"
    BY DEF Quiet, At
  <2>3. QED
    BY <2>1, <2>2 DEF Safe, SavedSoon
<1>2. QED
  BY <1>1, Always, PTL

\* How the one thread gets from a point of an RPC to its end.
LEMMA Ends ==
  ASSUME IInv, Serial, [Next]_vars, NEW t \in Threads, th[t].pc \in {"visit", "publish"},
         th'[t].pc = "idle"
  PROVE  t \in regime.threads /\ (Visit(t) \/ Publish(t))
<1>1. TypeInv /\ t \in regime.threads
  BY DEF IInv, Others
<1>2. regime.threads = {t}
  BY <1>1, OneThread
<1>3. th'[t].pc # th[t].pc
  OBVIOUS
<1>4. ~ UNCHANGED vars /\ \A p \in Procs : ~ (Bind(p) \/ Die(p) \/ WorkerDies(p))
  BY <1>3 DEF vars, Bind, Die, WorkerDies
<1>5. ~ Restart(t)
  BY <1>1, RestartTypes
<1>6. ~ Request(t)
  BY <1>3 DEF Request, BeginStartServers, BeginAddServer, BeginStopServer, BeginStopServers, Begin,
     RegisterRule, DeleteRules, At
<1>7. Step(t)
  BY <1>2, <1>4, <1>5, <1>6 DEF Next
<1>8. QED
  BY <1>1, <1>7 DEF Step, Primary, Lookup, Load, Spawn, Enroll, Persist, Check, Find, Kill, Remove,
     DbError, At

(* When stop_servers returns, having visited every manager of the map, all *)
(* workers have been told to stop, for any endpoints and servers.          *)
THEOREM StopsEverything == Spec => StopsAll
<1>1. IInv /\ [Next]_vars =>
        [\A t \in Threads :
           (At(t, "visit") /\ th[t].left = {} /\ th'[t].pc = "idle" /\ Serial /\ ~ Faulty)
             => \A p \in Procs : ~ Running(p)]_vars
  <2> SUFFICES ASSUME IInv, [Next]_vars, NEW t \in Threads, th[t].pc = "visit", th[t].left = {},
                      th'[t].pc = "idle", Serial, ~ Faulty, NEW p \in Procs
               PROVE  ~ Running(p)
    BY DEF At
  <2>1. t \in regime.threads
    BY Ends
  <2>2. Cleared(t) /\ th[t].op = "stopall"
    BY <2>1 DEF IInv, TypeInv, Shape, Calm
  <2>3. QED
    BY <2>2 DEF Cleared
<1>2. QED
  BY <1>1, Always, PTL DEF Spec, StopsAll

(* When start_servers returns, each server that the database has for its   *)
(* endpoint is in the registry that the agent knows, whatever has raised   *)
(* before, for any endpoints and servers.                                  *)
THEOREM StartsEverything == Spec => StartsAllSaved
<1>1. IInv /\ [Next]_vars =>
        [\A t \in Threads :
           (At(t, "publish") /\ th[t].op # "add" /\ th'[t].pc = "idle" /\ Serial)
             => \A s \in Saved(th[t].ep) : reg'[mngrs'[th[t].ep]][s] # None]_vars
  <2> SUFFICES ASSUME IInv, [Next]_vars, NEW t \in Threads, th[t].pc = "publish",
                      th[t].op # "add", th'[t].pc = "idle", Serial, NEW s \in Saved(th[t].ep)
               PROVE  reg'[mngrs'[th[t].ep]][s] # None
    BY DEF At
  <2>1. t \in regime.threads /\ Publish(t)
    BY Ends DEF Visit, At
  <2>2. reg[th[t].mine][s] # None
    BY <2>1 DEF IInv, Started
  <2>3. reg' = reg /\ mngrs'[th[t].ep] = th[t].mine
    <3>1. th[t].ep \in Endpoints
      BY DEF IInv, TypeInv, Shape
    <3>2. QED
      BY <2>1, <3>1, PublishTypes DEF IInv
  <2>4. QED
    BY <2>2, <2>3
<1>2. QED
  BY <1>1, Always, PTL DEF Spec, StartsAllSaved
=============================================================================
