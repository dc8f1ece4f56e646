------------------------- MODULE ConnectedStateProofs -------------------------
(***************************************************************************)
(* Proofs about ConnectedState, for every set of threads, endpoints, rules *)
(* and requests.                                                           *)
(***************************************************************************)
EXTENDS ConnectedState, SequenceTheorems, TLAPS

\* What pc says about the request a thread serves.
CallShape(t) ==
  LET c == call[t]
  IN /\ c.op = "delete" => Len(c.configs) = 1
     /\ c.op # "delete" => \A i \in 1 .. Len(c.configs) : c.configs[i].endpoint \in Endpoints
     /\ pc[t] \in {"get", "write"} /\ Working(t) => c.op # "delete"
     /\ pc[t] = "write" => Working(t)
     /\ pc[t] = "delete" => c.op = "delete"

Shape == \A t \in Threads : CallShape(t)

TypeInv == TypeOK /\ Shape

LEMMA IdleFacts ==
  /\ Idle.op = "none" /\ Idle.configs = <<>> /\ Idle.next = 1
  /\ Len(Idle.configs) = 0
  /\ Idle \notin Call
BY DEF Idle, Call

\* The configuration a thread works on.
LEMMA CfgType ==
  ASSUME TypeOK, NEW t \in Threads, Working(t)
  PROVE  /\ call[t] \in Call
         /\ call[t].next \in 1 .. Len(call[t].configs)
         /\ Cfg(t) \in Config
<1>1. call[t] \in Call
  BY IdleFacts DEF TypeOK, Working, Serving
<1>2. call[t].next \in 1 .. Len(call[t].configs)
  BY <1>1 DEF Call, Working
<1>3. QED
  BY <1>1, <1>2, ElementOfSeq DEF Call, Cfg

LEMMA CfgEndpoint ==
  ASSUME TypeOK, Shape, NEW t \in Threads, Working(t), pc[t] \in {"get", "write"}
  PROVE  Cfg(t).endpoint \in Endpoints /\ call[t].op \in {"register", "unregister"}
BY CfgType DEF Shape, CallShape, Cfg, Call

\* Adding to a row, or taking from it, gives a row.
LEMMA RowOps ==
  ASSUME NEW row \in Row, NEW cfg \in Config
  PROVE  NewRow(cfg) \in Row /\ Added(row, cfg) \in Row /\ Removed(row, cfg) \in Row
BY DEF Row, Config, ClientMap, NewRow, Added, Removed, AddServers, DelServers,
       AddClients, DelClients

LEMMA FinishType ==
  ASSUME TypeInv, NEW t \in Threads, Finish(t), db' \in [Endpoints -> Row \cup {NoRow}],
         acked' \in [Endpoints -> SUBSET (Servers \cup ClientKeys)]
  PROVE  TypeInv'
<1>1. TypeOK'
  BY DEF TypeInv, TypeOK, Finish
<1>2. ASSUME NEW u \in Threads PROVE CallShape(u)'
  <2>1. CASE u = t
    BY <2>1, IdleFacts DEF TypeInv, TypeOK, Finish, CallShape, Working, Serving
  <2>2. CASE u # t
    BY <2>2 DEF TypeInv, TypeOK, Shape, Finish, CallShape, Working, Serving
  <2>3. QED
    BY <2>1, <2>2
<1>3. QED
  BY <1>1, <1>2 DEF TypeInv, Shape

LEMMA NextConfigType ==
  ASSUME TypeInv, NEW t \in Threads, Working(t), NextConfig(t),
         db' \in [Endpoints -> Row \cup {NoRow}],
         acked' \in [Endpoints -> SUBSET (Servers \cup ClientKeys)]
  PROVE  TypeInv'
<1>0. /\ call[t] \in Call
      /\ call[t].next \in 1 .. Len(call[t].configs)
  BY CfgType DEF TypeInv
<1>1. call'[t] = [op |-> call[t].op, configs |-> call[t].configs, next |-> call[t].next + 1]
  BY <1>0 DEF NextConfig, TypeInv, TypeOK, Call
<1>2. call'[t] \in Call
  BY <1>0, <1>1 DEF Call
<1>3. TypeOK'
  BY <1>2 DEF TypeInv, TypeOK, NextConfig
<1>4. ASSUME NEW u \in Threads PROVE CallShape(u)'
  <2>1. CASE u = t
    <3>1. pc'[t] = "get" /\ CallShape(t)
      BY DEF NextConfig, TypeInv, TypeOK, Shape
    <3>2. CASE call[t].op = "delete"
      <4>0. Len(call[t].configs) = 1
        BY <3>1, <3>2 DEF CallShape
      <4>1. call[t].next = 1
        BY <1>0, <4>0
      <4>2. /\ call'[t].op = "delete" /\ call'[t].next = 2
            /\ call'[t].configs = call[t].configs
        BY <1>1, <3>2, <4>1
      <4>3. Len(call'[t].configs) = 1
        BY <4>0, <4>2
      <4>4. ~ (call'[t].next <= Len(call'[t].configs))
        BY <4>2, <4>3
      <4>5. ~ Working(t)'
        BY <4>4 DEF Working
      <4>6. QED
        BY <2>1, <3>1, <4>0, <4>2, <4>5 DEF CallShape
    <3>3. CASE call[t].op # "delete"
      BY <1>0, <1>1, <2>1, <3>1, <3>3 DEF CallShape, Working
    <3>4. QED
      BY <3>2, <3>3
  <2>2. CASE u # t
    BY <2>2 DEF TypeInv, TypeOK, Shape, NextConfig, CallShape, Working, Serving
  <2>3. QED
    BY <2>1, <2>2
<1>5. QED
  BY <1>3, <1>4 DEF TypeInv, Shape

LEMMA TypeInit == Init => TypeInv
<1> SUFFICES ASSUME Init PROVE TypeInv
  OBVIOUS
<1>1. TypeOK
  BY DEF Init, TypeOK
<1>2. ASSUME NEW t \in Threads PROVE CallShape(t)
  BY IdleFacts DEF Init, CallShape, Working, Serving
<1>3. QED
  BY <1>1, <1>2 DEF TypeInv, Shape

LEMMA BeginType ==
  ASSUME TypeInv, NEW t \in Threads, NEW r \in Requests, Begin(t, r)
  PROVE  TypeInv'
<1> DEFINE c == [op |-> r.op, configs |-> r.configs, next |-> 1]
<1>1. r \in Request
  BY RequestsAssumption
<1>2. c \in Call /\ c.op \in {"register", "unregister", "delete"}
  BY <1>1 DEF Request, Call
<1>3. call' = [call EXCEPT ![t] = c]
  BY DEF Begin
<1>4. TypeOK'
  <2>1. acked' \in [Endpoints -> SUBSET (Servers \cup ClientKeys)]
    BY DEF Begin, TypeInv, TypeOK
  <2>2. QED
    BY <1>2, <1>3, <2>1 DEF Begin, TypeInv, TypeOK
<1>5. ASSUME NEW u \in Threads PROVE CallShape(u)'
  <2>1. CASE u = t
    <3>1. call'[t] = c
      BY <1>3 DEF TypeInv, TypeOK
    <3>2. pc'[t] = IF r.op = "delete" THEN "delete" ELSE "get"
      BY DEF Begin, TypeInv, TypeOK
    <3>3. QED
      BY <2>1, <3>1, <3>2, RequestsAssumption DEF CallShape
  <2>2. CASE u # t
    BY <2>2 DEF TypeInv, TypeOK, Shape, Begin, CallShape, Working, Serving
  <2>3. QED
    BY <2>1, <2>2
<1>6. QED
  BY <1>4, <1>5 DEF TypeInv, Shape

LEMMA GetRowType ==
  ASSUME TypeInv, NEW t \in Threads, GetRow(t)
  PROVE  TypeInv'
<1>1. Working(t) /\ pc[t] = "get" /\ UNCHANGED <<db, acked>>
  BY DEF GetRow
<1>2. Cfg(t).endpoint \in Endpoints
  BY <1>1, CfgEndpoint DEF TypeInv
<1>3. CASE NextConfig(t)
  BY <1>1, <1>3, NextConfigType DEF TypeInv, TypeOK
<1>4. CASE /\ snap' = [snap EXCEPT ![t] = db[Cfg(t).endpoint]]
           /\ pc' = [pc EXCEPT ![t] = "write"]
           /\ UNCHANGED call
  <2>1. TypeOK'
    BY <1>1, <1>2, <1>4 DEF TypeInv, TypeOK
  <2>2. ASSUME NEW u \in Threads PROVE CallShape(u)'
    BY <1>1, <1>4 DEF TypeInv, TypeOK, Shape, CallShape, Working, Serving
  <2>3. QED
    BY <2>1, <2>2 DEF TypeInv, Shape
<1>5. QED
  BY <1>3, <1>4 DEF GetRow

LEMMA CreateType ==
  ASSUME TypeInv, NEW t \in Threads, Create(t)
  PROVE  TypeInv'
<1>1. Working(t) /\ pc[t] = "write" /\ acked' = acked
  BY DEF Create
<1>2. NewRow(Cfg(t)) \in Row
  BY <1>1, CfgType DEF TypeInv, Config, Row, NewRow
<1>3. db' \in [Endpoints -> Row \cup {NoRow}]
  BY <1>2 DEF Create, TypeInv, TypeOK
<1>4. QED
  BY <1>1, <1>3, FinishType, NextConfigType DEF Create, TypeInv, TypeOK

LEMMA UpdateType ==
  ASSUME TypeInv, NEW t \in Threads, Update(t)
  PROVE  TypeInv'
<1>1. Working(t) /\ pc[t] = "write" /\ acked' = acked /\ NextConfig(t) /\ snap[t] \in Row
  BY DEF Update, TypeInv, TypeOK
<1>2. Added(snap[t], Cfg(t)) \in Row /\ Removed(snap[t], Cfg(t)) \in Row
  BY <1>1, CfgType, RowOps DEF TypeInv
<1>3. db' \in [Endpoints -> Row \cup {NoRow}]
  BY <1>2 DEF Update, TypeInv, TypeOK
<1>4. QED
  BY <1>1, <1>3, NextConfigType DEF TypeInv, TypeOK

LEMMA DeleteType ==
  ASSUME TypeInv, NEW t \in Threads, Delete(t)
  PROVE  TypeInv'
<1>1. Working(t) /\ acked' = acked /\ (NextConfig(t) \/ Finish(t))
  BY DEF Delete
<1>2. db' \in [Endpoints -> Row \cup {NoRow}]
  BY DEF Delete, TypeInv, TypeOK
<1>3. QED
  BY <1>1, <1>2, FinishType, NextConfigType DEF TypeInv, TypeOK

LEMMA ReplyType ==
  ASSUME TypeInv, NEW t \in Threads, Reply(t)
  PROVE  TypeInv'
<1>1. Finish(t) /\ db' = db /\ call[t] \in Call
  BY IdleFacts DEF Reply, Serving, TypeInv, TypeOK
<1>2. ASSUME NEW e \in Endpoints PROVE Mentioned(call[t].configs, e) \subseteq Servers \cup ClientKeys
  <2>1. \A i \in 1 .. Len(call[t].configs) : call[t].configs[i] \in Config
    BY <1>1, ElementOfSeq DEF Call
  <2>2. \A c \in Config : Rules(c) \subseteq Servers \cup ClientKeys
    BY DEF Rules, Config
  <2>3. QED
    BY <2>1, <2>2 DEF Mentioned
<1>3. acked' \in [Endpoints -> SUBSET (Servers \cup ClientKeys)]
  BY <1>2 DEF Reply, TypeInv, TypeOK
<1>4. QED
  BY <1>1, <1>3, FinishType DEF TypeInv, TypeOK

LEMMA RestartType ==
  ASSUME TypeInv, Restart
  PROVE  TypeInv'
<1>1. TypeOK'
  BY DEF Restart, TypeInv, TypeOK
<1>2. ASSUME NEW t \in Threads PROVE CallShape(t)'
  BY IdleFacts DEF Restart, CallShape, Working, Serving
<1>3. QED
  BY <1>1, <1>2 DEF TypeInv, Shape

LEMMA TypeStep == TypeInv /\ [Next]_vars => TypeInv'
<1> SUFFICES ASSUME TypeInv, [Next]_vars PROVE TypeInv'
  OBVIOUS
<1>1. ASSUME NEW t \in Threads, NEW r \in Requests, Begin(t, r) PROVE TypeInv'
  BY <1>1, BeginType
<1>2. ASSUME NEW t \in Threads, Fail(t) PROVE TypeInv'
  BY <1>2, FinishType DEF Fail, TypeInv, TypeOK
<1>3. ASSUME NEW t \in Threads, Step(t) PROVE TypeInv'
  BY <1>2, <1>3, GetRowType, CreateType, UpdateType, DeleteType, ReplyType DEF Step
<1>4. CASE UNCHANGED vars
  BY <1>4 DEF vars, TypeInv, TypeOK, Shape, CallShape, Working, Serving
<1>5. QED
  BY <1>1, <1>3, <1>4, RestartType DEF Next

(* The values of all variables stay in their types, whatever the requests  *)
(* and however the threads interleave, fail and restart.                   *)
THEOREM TypeCorrect == Spec => []TypeOK
<1>1. TypeInv => TypeOK
  BY DEF TypeInv
<1>2. QED
  BY <1>1, TypeInit, TypeStep, PTL DEF Spec

-----------------------------------------------------------------------------
(* One writer per endpoint: every write is the effect of one configuration *)
(* on the table as it is, so nothing an answered registration put there is *)
(* lost.                                                                   *)

IInv == TypeInv /\ SafeInv

LEMMA NamedFacts ==
  ASSUME TypeOK, NEW t \in Threads, Working(t)
  PROVE  /\ Named(Cfg(t)) \subseteq Touches(call[t].configs)
         /\ Named(Cfg(t)) \subseteq Endpoints
<1>1. call[t].next \in 1 .. Len(call[t].configs) /\ Cfg(t) \in Config
  BY CfgType
<1>2. QED
  BY <1>1 DEF Named, Touches, Cfg, Config

\* The rules of a row after an operation, in terms of those before.
LEMMA RulesOps ==
  ASSUME NEW row \in Row, NEW cfg \in Config
  PROVE  /\ Rules(NewRow(cfg)) = Rules(cfg)
         /\ Rules(Added(row, cfg)) = Rules(row) \cup Rules(cfg)
         /\ Rules(row) \ Rules(cfg) \subseteq Rules(Removed(row, cfg))
BY DEF Row, Config, ClientMap, Rules, NewRow, Added, Removed, AddServers, DelServers,
       AddClients, DelClients

StoredIn(d, e) == IF d[e] = NoRow THEN {} ELSE Rules(d[e])

\* What the effect of a configuration keeps and what it adds.
LEMMA EffectFacts ==
  ASSUME NEW d \in [Endpoints -> Row \cup {NoRow}], NEW cfg \in Config, NEW e \in Endpoints,
         NEW op \in {"register", "unregister", "delete"},
         op # "delete" => cfg.endpoint \in Endpoints
  PROVE  /\ e \notin Named(cfg) => Effect(op, cfg, d)[e] = d[e]
         /\ op = "register" => StoredIn(d, e) \subseteq StoredIn(Effect(op, cfg, d), e)
         /\ op = "register" /\ e \in Named(cfg)
              => Rules(cfg) \subseteq StoredIn(Effect(op, cfg, d), e)
         /\ op = "unregister"
              => StoredIn(d, e) \ Rules(cfg) \subseteq StoredIn(Effect(op, cfg, d), e)
<1> DEFINE n == Effect(op, cfg, d)[e]
<1>0. cfg.endpoint \in Endpoints => AllEndpoints # cfg.endpoint
  BY RuleStoreAssumption
<1>1. e \notin Named(cfg) => n = d[e]
  BY <1>0 DEF Effect, Named
<1>2. ASSUME e \in Named(cfg), op # "delete" PROVE e = cfg.endpoint
  BY <1>0, <1>2 DEF Named
<1>3. NewRow(cfg) \in Row /\ NewRow(cfg) # NoRow /\ Rules(NewRow(cfg)) = Rules(cfg)
  BY NoRowAssumption DEF NewRow, Row, Config, Rules
<1>4. ASSUME d[e] # NoRow
      PROVE  /\ Added(d[e], cfg) # NoRow
             /\ Removed(d[e], cfg) # NoRow
             /\ Rules(Added(d[e], cfg)) = Rules(d[e]) \cup Rules(cfg)
             /\ Rules(d[e]) \ Rules(cfg) \subseteq Rules(Removed(d[e], cfg))
  <2>1. d[e] \in Row
    BY <1>4
  <2>2. QED
    BY <2>1, RowOps, RulesOps, NoRowAssumption
<1>5. CASE e \notin Named(cfg)
  BY <1>1, <1>5 DEF StoredIn
<1>6. CASE e \in Named(cfg) /\ op = "register"
  <2>1. n = IF d[e] = NoRow THEN NewRow(cfg) ELSE Added(d[e], cfg)
    BY <1>2, <1>6 DEF Effect
  <2>2. Rules(cfg) \subseteq StoredIn(Effect(op, cfg, d), e)
    BY <1>3, <1>4, <2>1 DEF StoredIn
  <2>3. StoredIn(d, e) \subseteq StoredIn(Effect(op, cfg, d), e)
    BY <1>3, <1>4, <2>1 DEF StoredIn
  <2>4. QED
    BY <1>6, <2>2, <2>3
<1>7. CASE e \in Named(cfg) /\ op = "unregister"
  <2>1. n = IF d[e] = NoRow THEN NoRow ELSE Removed(d[e], cfg)
    BY <1>2, <1>7 DEF Effect
  <2>2. QED
    BY <1>4, <1>7, <2>1 DEF StoredIn
<1>8. CASE e \in Named(cfg) /\ op = "delete"
  BY <1>8
<1>9. QED
  BY <1>5, <1>6, <1>7, <1>8

\* A thread takes its configuration to its end in the write transaction.
Applied(t) ==
  /\ Working(t) /\ NextConfig(t) /\ acked' = acked
  /\ db' = Effect(call[t].op, Cfg(t), db)

\* A request ends early and leaves the database as it is.
Stopped(t) == Working(t) /\ Finish(t) /\ UNCHANGED <<db, acked>>

\* A row is read for the configuration a thread works on.
ReadRow(t) ==
  /\ Working(t) /\ pc[t] = "get"
  /\ snap' = [snap EXCEPT ![t] = db[Cfg(t).endpoint]]
  /\ pc' = [pc EXCEPT ![t] = "write"]
  /\ UNCHANGED <<db, call, acked>>

LEMMA EffectAt ==
  ASSUME NEW d \in [Endpoints -> Row \cup {NoRow}], NEW cfg \in Config, cfg.endpoint \in Endpoints
  PROVE  /\ Effect("register", cfg, d) =
              [d EXCEPT ![cfg.endpoint] =
                 IF d[cfg.endpoint] = NoRow THEN NewRow(cfg) ELSE Added(d[cfg.endpoint], cfg)]
         /\ Effect("unregister", cfg, d) =
              [d EXCEPT ![cfg.endpoint] =
                 IF d[cfg.endpoint] = NoRow THEN NoRow ELSE Removed(d[cfg.endpoint], cfg)]
         /\ Effect("delete", cfg, d) = [d EXCEPT ![cfg.endpoint] = NoRow]
BY RuleStoreAssumption DEF Effect

\* Every step of a thread is one of four kinds.
LEMMA StepKinds ==
  ASSUME TypeInv, SnapshotFresh, NEW t \in Threads, Step(t)
  PROVE  Applied(t) \/ Stopped(t) \/ ReadRow(t) \/ Reply(t)
<1>1. CASE GetRow(t)
  <2>1. Working(t) /\ pc[t] = "get" /\ Cfg(t) \in Config /\ Cfg(t).endpoint \in Endpoints
    BY <1>1, CfgType, CfgEndpoint DEF GetRow, TypeInv
  <2>2. CASE call[t].op = "unregister" /\ db[Cfg(t).endpoint] = NoRow
    <3>1. Effect("unregister", Cfg(t), db) = db
      BY <2>1, <2>2, EffectAt DEF TypeInv, TypeOK
    <3>2. QED
      BY <1>1, <2>1, <2>2, <3>1 DEF GetRow, Applied
  <2>3. CASE ~ (call[t].op = "unregister" /\ db[Cfg(t).endpoint] = NoRow)
    BY <1>1, <2>1, <2>3 DEF GetRow, ReadRow
  <2>4. QED
    BY <2>2, <2>3
<1>2. CASE Create(t)
  <2>1. /\ Working(t) /\ pc[t] = "write" /\ acked' = acked
        /\ Cfg(t) \in Config /\ Cfg(t).endpoint \in Endpoints
        /\ call[t].op \in {"register", "unregister"}
    BY <1>2, CfgType, CfgEndpoint DEF Create, TypeInv
  <2>2. CASE db[Cfg(t).endpoint] # NoRow
    BY <1>2, <2>1, <2>2 DEF Create, Stopped
  <2>3. CASE db[Cfg(t).endpoint] = NoRow /\ call[t].op = "register"
    BY <1>2, <2>1, <2>3, EffectAt DEF Create, Applied, TypeInv, TypeOK
  <2>4. QED
    BY <1>2, <2>1, <2>2, <2>3 DEF Create
<1>3. CASE Update(t)
  <2>1. /\ Working(t) /\ pc[t] = "write" /\ acked' = acked /\ NextConfig(t)
        /\ Cfg(t) \in Config /\ Cfg(t).endpoint \in Endpoints
        /\ call[t].op \in {"register", "unregister"}
    BY <1>3, CfgType, CfgEndpoint DEF Update, TypeInv
  <2>2. db[Cfg(t).endpoint] = snap[t]
    BY <2>1 DEF SnapshotFresh
  <2>3. snap[t] # NoRow
    BY <1>3 DEF Update
  <2>4. db \in [Endpoints -> Row \cup {NoRow}]
    BY DEF TypeInv, TypeOK
  <2>5. db' = [db EXCEPT ![Cfg(t).endpoint] =
                 IF call[t].op = "register" THEN Added(db[Cfg(t).endpoint], Cfg(t))
                 ELSE Removed(db[Cfg(t).endpoint], Cfg(t))]
    BY <1>3, <2>2, <2>3 DEF Update
  <2>6. db' = Effect(call[t].op, Cfg(t), db)
    BY <2>1, <2>2, <2>3, <2>4, <2>5, EffectAt
  <2>7. QED
    BY <2>1, <2>6 DEF Applied
<1>4. CASE Delete(t)
  <2>1. /\ Working(t) /\ acked' = acked /\ Cfg(t) \in Config /\ call[t].op = "delete"
    BY <1>4, CfgType DEF Delete, TypeInv, Shape, CallShape
  <2>2. db \in [Endpoints -> Row \cup {NoRow}]
    BY DEF TypeInv, TypeOK
  <2>3. CASE Cfg(t).endpoint = AllEndpoints
    <3>1. Effect("delete", Cfg(t), db) = [x \in Endpoints |-> NoRow]
      BY <2>3 DEF Effect
    <3>2. QED
      BY <1>4, <2>1, <2>3, <3>1 DEF Delete, Applied
  <2>4. CASE Cfg(t).endpoint # AllEndpoints
    <3>1. Cfg(t).endpoint \in Endpoints
      BY <2>1, <2>4 DEF Config
    <3>2. Effect("delete", Cfg(t), db) = [db EXCEPT ![Cfg(t).endpoint] = NoRow]
      BY <2>1, <2>2, <3>1, EffectAt
    <3>3. QED
      BY <1>4, <2>1, <2>4, <3>2 DEF Delete, Applied, Stopped
  <2>5. QED
    BY <2>3, <2>4
<1>5. CASE Fail(t)
  BY <1>5 DEF Fail, Stopped
<1>6. QED
  BY <1>1, <1>2, <1>3, <1>4, <1>5 DEF Step

\* What an applied configuration changes in the bookkeeping of the threads.
LEMMA AppliedCalls ==
  ASSUME TypeInv, NEW t \in Threads, Applied(t)
  PROVE  /\ call'[t] = [op |-> call[t].op, configs |-> call[t].configs, next |-> call[t].next + 1]
         /\ call[t] \in Call /\ call[t].next \in 1 .. Len(call[t].configs)
         /\ Cfg(t) \in Config
         /\ call[t].op # "delete" => Cfg(t).endpoint \in Endpoints
         /\ pc'[t] = "get"
         /\ \A u \in Threads : u # t => call'[u] = call[u] /\ pc'[u] = pc[u] /\ snap'[u] = snap[u]
<1>1. call[t] \in Call /\ call[t].next \in 1 .. Len(call[t].configs) /\ Cfg(t) \in Config
  BY CfgType DEF Applied, TypeInv
<1>2. call[t].op # "delete" => Cfg(t).endpoint \in Endpoints
  BY <1>1 DEF TypeInv, Shape, CallShape, Cfg
<1>3. call'[t] = [op |-> call[t].op, configs |-> call[t].configs, next |-> call[t].next + 1]
  BY <1>1 DEF Applied, NextConfig, TypeInv, TypeOK, Call
<1>4. QED
  BY <1>1, <1>2, <1>3 DEF Applied, NextConfig, TypeInv, TypeOK

LEMMA AppliedSafe ==
  ASSUME IInv, NEW t \in Threads, Applied(t)
  PROVE  SafeInv'
<1>0. TypeInv /\ TypeOK /\ db \in [Endpoints -> Row \cup {NoRow}] /\ Working(t)
  BY DEF IInv, TypeInv, TypeOK, Applied
<1>1. /\ call'[t] = [op |-> call[t].op, configs |-> call[t].configs, next |-> call[t].next + 1]
      /\ call[t] \in Call /\ call[t].next \in 1 .. Len(call[t].configs)
      /\ Cfg(t) \in Config
      /\ call[t].op # "delete" => Cfg(t).endpoint \in Endpoints
      /\ pc'[t] = "get"
      /\ \A u \in Threads : u # t => call'[u] = call[u] /\ pc'[u] = pc[u] /\ snap'[u] = snap[u]
  BY <1>0, AppliedCalls
<1>2. \A u \in Threads : call'[u].configs = call[u].configs /\ call'[u].op = call[u].op
  BY <1>1
<1>3. call[t].op \in {"register", "unregister", "delete"}
  BY <1>1 DEF Call
<1>4. ASSUME NEW e \in Endpoints
      PROVE  /\ e \notin Touches(call[t].configs) => db'[e] = db[e]
             /\ call[t].op = "register" => Stored(e) \subseteq Stored(e)'
             /\ call[t].op = "register" /\ e \in Named(Cfg(t)) => Rules(Cfg(t)) \subseteq Stored(e)'
             /\ call[t].op = "unregister" => Stored(e) \ Rules(Cfg(t)) \subseteq Stored(e)'
  BY <1>0, <1>1, <1>3, EffectFacts, NamedFacts DEF Applied, Stored, StoredIn
<1>5. Disjoint'
  BY <1>2 DEF IInv, SafeInv, Disjoint
<1>6. SnapshotFresh'
  <2> SUFFICES ASSUME NEW u \in Threads, pc'[u] = "write"
               PROVE  snap'[u] = db'[Cfg(u)'.endpoint]
    BY DEF SnapshotFresh
  <2>1. u # t
    BY <1>1
  <2>2. Cfg(u)' = Cfg(u) /\ snap'[u] = snap[u] /\ pc[u] = "write"
    BY <1>1, <2>1 DEF Cfg
  <2>3. Working(u) /\ Cfg(u).endpoint \in Endpoints
    BY <1>0, <2>2, CfgEndpoint DEF TypeInv, Shape, CallShape
  <2>4. Cfg(u).endpoint \in Touches(call[u].configs)
    BY <1>0, <2>3, NamedFacts, RuleStoreAssumption DEF Named
  <2>5. Cfg(u).endpoint \notin Touches(call[t].configs)
    BY <2>1, <2>4 DEF IInv, SafeInv, Disjoint
  <2>6. QED
    BY <1>4, <2>2, <2>3, <2>5 DEF IInv, SafeInv, SnapshotFresh
<1>7. DoneStored'
  <2> SUFFICES ASSUME NEW u \in Threads, call'[u].op = "register",
                      NEW i \in 1 .. Len(call'[u].configs), i < call'[u].next,
                      NEW e \in Named(call'[u].configs[i])
               PROVE  Rules(call'[u].configs[i]) \subseteq Stored(e)'
    BY DEF DoneStored, Rules, Named
  <2>1. /\ call[u].op = "register" /\ i \in 1 .. Len(call[u].configs)
        /\ call'[u].configs = call[u].configs /\ e \in Named(call[u].configs[i])
    BY <1>2
  <2>2. e \in Touches(call[u].configs)
    BY <2>1 DEF Touches
  <2>3. call[u].configs[i] \in Config /\ e \in Endpoints
    <3>1. call[u] \in Call
      BY <1>0, <2>1, IdleFacts DEF TypeOK
    <3>2. call[u].configs[i] \in Config
      BY <2>1, <3>1, ElementOfSeq DEF Call
    <3>3. call[u].configs[i].endpoint \in Endpoints
      BY <1>0, <2>1 DEF TypeInv, Shape, CallShape
    <3>4. QED
      BY <2>1, <3>2, <3>3 DEF Named
  <2>4. CASE u # t
    <3>1. i < call[u].next
      BY <1>1, <2>4
    <3>2. Rules(call[u].configs[i]) \subseteq Stored(e)
      BY <2>1, <3>1 DEF IInv, SafeInv, DoneStored
    <3>3. e \notin Touches(call[t].configs)
      BY <2>2, <2>4 DEF IInv, SafeInv, Disjoint
    <3>4. QED
      BY <1>4, <2>1, <2>3, <3>2, <3>3 DEF Stored
  <2>5. CASE u = t /\ i < call[t].next
    <3>1. Rules(call[t].configs[i]) \subseteq Stored(e)
      BY <2>1, <2>5 DEF IInv, SafeInv, DoneStored
    <3>2. QED
      BY <1>4, <2>1, <2>3, <2>5, <3>1
  <2>6. CASE u = t /\ i = call[t].next
    BY <1>4, <2>1, <2>3, <2>6 DEF Cfg
  <2>7. QED
    <3>1. CASE u = t
      <4>1. i < call[t].next + 1 /\ i \in Int /\ call[t].next \in Int
        BY <1>1, <3>1
      <4>2. i < call[t].next \/ i = call[t].next
        BY <4>1
      <4>3. QED
        BY <2>5, <2>6, <3>1, <4>2
    <3>2. QED
      BY <2>4, <3>1
<1>8. WithdrawnGone'
  <2> SUFFICES ASSUME NEW u \in Threads, Serving(u)', NEW e \in Endpoints
               PROVE  acked[e] \cap Withdrawn(call'[u], e) = {}
    BY DEF WithdrawnGone, Applied
  <2>1. Serving(u) /\ Withdrawn(call'[u], e) = Withdrawn(call[u], e)
    BY <1>2 DEF Serving, Withdrawn
  <2>2. QED
    BY <2>1 DEF IInv, SafeInv, WithdrawnGone
<1>9. AckedSaved'
  <2> SUFFICES ASSUME NEW e \in Endpoints PROVE acked[e] \subseteq Stored(e)'
    BY DEF AckedSaved, Applied
  <2>1. /\ acked[e] \subseteq Stored(e)
        /\ acked[e] \cap Withdrawn(call[t], e) = {}
        /\ acked[e] \subseteq Servers \cup ClientKeys
    BY <1>0 DEF IInv, SafeInv, AckedSaved, WithdrawnGone, Working, TypeOK
  <2>2. CASE e \notin Touches(call[t].configs)
    BY <1>4, <2>1, <2>2 DEF Stored
  <2>3. CASE call[t].op = "register"
    BY <1>4, <2>1, <2>3
  <2>4. CASE call[t].op = "unregister"
    <3>1. CASE e \in Named(Cfg(t))
      <4>1. Rules(Cfg(t)) \subseteq Mentioned(call[t].configs, e)
        BY <1>1, <3>1 DEF Mentioned, Cfg
      <4>2. acked[e] \cap Rules(Cfg(t)) = {}
        BY <2>1, <2>4, <4>1 DEF Withdrawn
      <4>3. QED
        BY <1>4, <2>1, <2>4, <4>2
    <3>2. CASE e \notin Named(Cfg(t))
      <4>1. db'[e] = db[e]
        BY <1>0, <1>1, <1>3, <3>2, EffectFacts DEF Applied
      <4>2. QED
        BY <2>1, <4>1 DEF Stored
    <3>3. QED
      BY <3>1, <3>2
  <2>5. CASE call[t].op = "delete" /\ e \in Touches(call[t].configs)
    BY <2>1, <2>5 DEF Withdrawn
  <2>6. QED
    BY <1>3, <2>2, <2>3, <2>4, <2>5
<1>10. QED
  BY <1>5, <1>6, <1>7, <1>8, <1>9 DEF SafeInv

\* A thread that goes idle, with what is stored and promised unchanged or,
\* for a registration, promised because it is stored.
LEMMA FinishSafe ==
  ASSUME IInv, NEW t \in Threads, Finish(t), db' = db,
         acked' \in [Endpoints -> SUBSET (Servers \cup ClientKeys)],
         \A e \in Endpoints :
           /\ acked'[e] \subseteq acked[e] \cup (Stored(e) \cap Mentioned(call[t].configs, e))
  PROVE  SafeInv'
<1>0. TypeOK /\ TypeInv
  BY DEF IInv, TypeInv
<1>1. /\ call'[t] = Idle /\ pc'[t] = "idle"
      /\ \A u \in Threads : u # t => call'[u] = call[u] /\ pc'[u] = pc[u] /\ snap'[u] = snap[u]
  BY <1>0 DEF Finish, TypeOK
<1>2. Touches(Idle.configs) = {}
  BY IdleFacts DEF Touches
<1>3. Disjoint'
  BY <1>1, <1>2 DEF IInv, SafeInv, Disjoint
<1>4. SnapshotFresh'
  BY <1>1 DEF IInv, SafeInv, SnapshotFresh, Cfg
<1>5. DoneStored'
  <2> SUFFICES ASSUME NEW u \in Threads, call'[u].op = "register",
                      NEW i \in 1 .. Len(call'[u].configs), i < call'[u].next,
                      NEW e \in Named(call'[u].configs[i])
               PROVE  Rules(call'[u].configs[i]) \subseteq Stored(e)'
    BY DEF DoneStored, Rules, Named
  <2>1. u # t /\ call'[u] = call[u]
    BY <1>1, IdleFacts
  <2>2. Rules(call[u].configs[i]) \subseteq Stored(e)
    BY <2>1 DEF IInv, SafeInv, DoneStored
  <2>3. QED
    BY <2>1, <2>2 DEF Stored
<1>6. WithdrawnGone'
  <2> SUFFICES ASSUME NEW u \in Threads, Serving(u)', NEW e \in Endpoints
               PROVE  acked'[e] \cap Withdrawn(call'[u], e) = {}
    BY DEF WithdrawnGone
  <2>1. u # t /\ call'[u] = call[u] /\ Serving(u)
    BY <1>1, IdleFacts DEF Serving
  <2>2. acked[e] \cap Withdrawn(call[u], e) = {}
    BY <2>1 DEF IInv, SafeInv, WithdrawnGone
  <2>3. CASE e \in Touches(call[t].configs)
    <3>1. e \notin Touches(call[u].configs)
      BY <2>1, <2>3 DEF IInv, SafeInv, Disjoint
    <3>2. Withdrawn(call[u], e) = {}
      BY <3>1 DEF Withdrawn, Mentioned, Touches
    <3>3. QED
      BY <2>1, <3>2
  <2>4. CASE e \notin Touches(call[t].configs)
    <3>1. Mentioned(call[t].configs, e) = {}
      BY <2>4 DEF Mentioned, Touches
    <3>2. QED
      BY <2>1, <2>2, <3>1
  <2>5. QED
    BY <2>3, <2>4
<1>7. AckedSaved'
  BY DEF IInv, SafeInv, AckedSaved, Stored
<1>8. QED
  BY <1>3, <1>4, <1>5, <1>6, <1>7 DEF SafeInv

LEMMA ReplySafe ==
  ASSUME IInv, NEW t \in Threads, Reply(t)
  PROVE  SafeInv'
<1>1. TypeInv' /\ Finish(t) /\ db' = db
  BY ReplyType DEF IInv, Reply
<1>2. call[t] \in Call /\ call[t].next \in Nat /\ ~ (call[t].next <= Len(call[t].configs))
  BY IdleFacts DEF Reply, Serving, Working, IInv, TypeInv, TypeOK, Call
<1>3. ASSUME NEW e \in Endpoints, call[t].op = "register"
      PROVE  Mentioned(call[t].configs, e) \subseteq Stored(e)
  <2>1. \A i \in 1 .. Len(call[t].configs) : i < call[t].next
    <3>1. Len(call[t].configs) \in Nat
      BY <1>2, LenProperties DEF Call
    <3>2. QED
      BY <1>2, <3>1
  <2>2. \A i \in 1 .. Len(call[t].configs) :
          e \in Named(call[t].configs[i]) => Rules(call[t].configs[i]) \subseteq Stored(e)
    BY <1>3, <2>1 DEF IInv, SafeInv, DoneStored
  <2>3. QED
    BY <2>2 DEF Mentioned
<1>4. ASSUME NEW e \in Endpoints
      PROVE  acked'[e] \subseteq acked[e] \cup (Stored(e) \cap Mentioned(call[t].configs, e))
  BY <1>3 DEF Reply
<1>5. QED
  BY <1>1, <1>4, FinishSafe DEF TypeInv, TypeOK

LEMMA ReadRowSafe ==
  ASSUME IInv, NEW t \in Threads, ReadRow(t)
  PROVE  SafeInv'
<1>1. /\ snap'[t] = db[Cfg(t).endpoint]
      /\ \A u \in Threads : u # t => pc'[u] = pc[u] /\ snap'[u] = snap[u]
  BY DEF ReadRow, IInv, TypeInv, TypeOK
<1>2. SnapshotFresh'
  BY <1>1 DEF ReadRow, IInv, SafeInv, SnapshotFresh, Cfg
<1>3. QED
  BY <1>2 DEF ReadRow, IInv, SafeInv, Disjoint, DoneStored, WithdrawnGone, AckedSaved,
              Stored, Serving

LEMMA BeginSafe ==
  ASSUME IInv, OneWriterPerEndpoint, NEW t \in Threads, NEW r \in Requests, Begin(t, r)
  PROVE  SafeInv'
<1>1. /\ call'[t] = [op |-> r.op, configs |-> r.configs, next |-> 1]
      /\ pc'[t] # "write" /\ db' = db /\ snap' = snap
      /\ \A u \in Threads : u # t => call'[u] = call[u] /\ pc'[u] = pc[u]
      /\ \A e \in Endpoints : acked'[e] = acked[e] \ Withdrawn(r, e)
  BY DEF Begin, IInv, TypeInv, TypeOK
<1>2. Disjoint'
  BY <1>1 DEF Begin, CallersAllow, IInv, SafeInv, Disjoint
<1>3. SnapshotFresh'
  BY <1>1 DEF IInv, SafeInv, SnapshotFresh, Cfg
<1>4. DoneStored'
  <2> SUFFICES ASSUME NEW u \in Threads, call'[u].op = "register",
                      NEW i \in 1 .. Len(call'[u].configs), i < call'[u].next,
                      NEW e \in Named(call'[u].configs[i])
               PROVE  Rules(call'[u].configs[i]) \subseteq Stored(e)'
    BY DEF DoneStored, Rules, Named
  <2>1. u # t
    <3>1. ASSUME u = t PROVE FALSE
      <4>1. i < 1 /\ i \in 1 .. Len(r.configs)
        BY <1>1, <3>1
      <4>2. QED
        BY <4>1
    <3>2. QED
      BY <3>1
  <2>2. call'[u] = call[u]
    BY <1>1, <2>1
  <2>3. Rules(call[u].configs[i]) \subseteq Stored(e)
    BY <2>2 DEF IInv, SafeInv, DoneStored
  <2>4. QED
    BY <1>1, <2>2, <2>3 DEF Stored
<1>5. WithdrawnGone'
  <2> SUFFICES ASSUME NEW u \in Threads, Serving(u)', NEW e \in Endpoints
               PROVE  acked'[e] \cap Withdrawn(call'[u], e) = {}
    BY DEF WithdrawnGone
  <2>1. CASE u = t
    <3>1. Withdrawn(call'[t], e) = Withdrawn(r, e)
      BY <1>1 DEF Withdrawn
    <3>2. QED
      BY <1>1, <2>1, <3>1
  <2>2. CASE u # t
    BY <1>1, <2>2 DEF IInv, SafeInv, WithdrawnGone, Serving
  <2>3. QED
    BY <2>1, <2>2
<1>6. AckedSaved'
  BY <1>1 DEF IInv, SafeInv, AckedSaved, Stored
<1>7. QED
  BY <1>2, <1>3, <1>4, <1>5, <1>6 DEF SafeInv

LEMMA RestartSafe ==
  ASSUME IInv, Restart
  PROVE  SafeInv'
<1>1. \A t \in Threads : call'[t] = Idle /\ pc'[t] = "idle"
  BY DEF Restart
<1>2. Touches(Idle.configs) = {}
  BY IdleFacts DEF Touches
<1>3. QED
  BY <1>1, <1>2, IdleFacts DEF Restart, IInv, SafeInv, Disjoint, SnapshotFresh, DoneStored,
                               WithdrawnGone, AckedSaved, Stored, Serving

LEMMA SafeInit == Init => SafeInv
<1> SUFFICES ASSUME Init PROVE SafeInv
  OBVIOUS
<1>1. Touches(Idle.configs) = {}
  BY IdleFacts DEF Touches
<1>2. QED
  BY <1>1, IdleFacts DEF Init, SafeInv, Disjoint, SnapshotFresh, DoneStored, WithdrawnGone,
                         AckedSaved, Serving

LEMMA StutterSafe ==
  ASSUME IInv, UNCHANGED vars
  PROVE  SafeInv'
<1>1. call' = call /\ pc' = pc /\ snap' = snap /\ db' = db /\ acked' = acked
  BY DEF vars
<1>2. Disjoint'
  BY <1>1 DEF IInv, SafeInv, Disjoint
<1>3. SnapshotFresh'
  BY <1>1 DEF IInv, SafeInv, SnapshotFresh, Cfg
<1>4. DoneStored'
  <2>1. \A e : Stored(e)' = Stored(e)
    BY <1>1 DEF Stored
  <2>2. QED
    BY <1>1, <2>1 DEF IInv, SafeInv, DoneStored
<1>5. WithdrawnGone'
  BY <1>1 DEF IInv, SafeInv, WithdrawnGone, Serving
<1>6. AckedSaved'
  BY <1>1 DEF IInv, SafeInv, AckedSaved, Stored
<1>7. QED
  BY <1>2, <1>3, <1>4, <1>5, <1>6 DEF SafeInv

LEMMA ThreadSafe ==
  ASSUME IInv, NEW t \in Threads, Step(t)
  PROVE  SafeInv'
<1>1. Applied(t) \/ Stopped(t) \/ ReadRow(t) \/ Reply(t)
  BY StepKinds DEF IInv, SafeInv
<1>2. CASE Stopped(t)
  BY <1>2, FinishSafe DEF Stopped, IInv, TypeInv, TypeOK
<1>3. QED
  BY <1>1, <1>2, AppliedSafe, ReadRowSafe, ReplySafe

LEMMA SafeStep ==
  ASSUME OneWriterPerEndpoint
  PROVE  IInv /\ [Next]_vars => IInv'
<1>1. ASSUME IInv, NEW t \in Threads, NEW r \in Requests, Begin(t, r) PROVE SafeInv'
  BY <1>1, BeginSafe
<1>2. IInv /\ Next => SafeInv'
  BY <1>1, ThreadSafe, RestartSafe DEF Next
<1>3. IInv /\ UNCHANGED vars => SafeInv'
  BY StutterSafe
<1>4. IInv /\ [Next]_vars => TypeInv'
  BY TypeStep DEF IInv
<1>5. QED
  BY <1>2, <1>3, <1>4 DEF IInv

LEMMA SafeAlways ==
  ASSUME OneWriterPerEndpoint
  PROVE  Spec => []IInv
<1>1. Init => IInv
  BY TypeInit, SafeInit DEF IInv
<1>2. IInv /\ [Next]_vars => IInv'
  BY SafeStep
<1>3. QED
  BY <1>1, <1>2, PTL DEF Spec

(* As long as callers keep to one writer per endpoint, what an answered    *)
(* registration put into the database is there until somebody asks to      *)
(* remove it: no read-then-write of another thread takes it out.           *)
THEOREM RegistrationsSaved ==
  ASSUME OneWriterPerEndpoint
  PROVE  Spec => []AckedSaved
<1>1. IInv => AckedSaved
  BY DEF IInv, SafeInv
<1>2. QED
  BY <1>1, SafeAlways, PTL

(* Under the same assumption the row a thread has read is still the row in *)
(* the database when the thread writes.                                    *)
THEOREM SnapshotsFresh ==
  ASSUME OneWriterPerEndpoint
  PROVE  Spec => []SnapshotFresh
<1>1. IInv => SnapshotFresh
  BY DEF IInv, SafeInv
<1>2. QED
  BY <1>1, SafeAlways, PTL

-----------------------------------------------------------------------------
(* The refinement: each step of the code is one of RuleStore's, or leaves  *)
(* what RuleStore speaks of unchanged.                                     *)

LEMMA SameEffect ==
  ASSUME NEW op, NEW cfg, NEW d
  PROVE  Store!Effect(op, cfg, d) = Effect(op, cfg, d)
BY DEF Store!Effect, Effect, Store!NewRow, NewRow, Store!Added, Added, Store!Removed, Removed,
       Store!AddServers, AddServers, Store!DelServers, DelServers,
       Store!AddClients, AddClients, Store!DelClients, DelClients

LEMMA StoreStep ==
  ASSUME IInv, NEW t \in Threads, Step(t)
  PROVE  Store!Apply(t) \/ Store!End(t) \/ UNCHANGED <<db, call>>
<1>1. Applied(t) \/ Stopped(t) \/ ReadRow(t) \/ Reply(t)
  BY StepKinds DEF IInv, SafeInv
<1>2. CASE Applied(t)
  <2>1. /\ Store!Working(t) /\ Store!Cfg(t) = Cfg(t)
        /\ call' = [call EXCEPT ![t].next = @ + 1]
    BY <1>2 DEF Applied, NextConfig, Working, Serving, Cfg, Store!Working, Store!Serving, Store!Cfg
  <2>2. db' = Store!Effect(call[t].op, Store!Cfg(t), db)
    BY <1>2, <2>1, SameEffect DEF Applied
  <2>3. QED
    BY <2>1, <2>2 DEF Store!Apply
<1>3. CASE Stopped(t)
  BY <1>3 DEF Stopped, Finish, Working, Serving, Idle, Store!End, Store!Serving, Store!Idle
<1>4. CASE ReadRow(t)
  BY <1>4 DEF ReadRow
<1>5. CASE Reply(t)
  BY <1>5 DEF Reply, Finish, Serving, Idle, Store!End, Store!Serving, Store!Idle
<1>6. QED
  BY <1>1, <1>2, <1>3, <1>4, <1>5

LEMMA StoreNext == IInv /\ [Next]_vars => [Store!Next]_(Store!vars)
<1>1. ASSUME NEW t \in Threads, NEW r \in Requests, Begin(t, r) PROVE Store!Begin(t, r)
  BY <1>1 DEF Begin, Serving, Store!Begin, Store!Serving
<1>2. ASSUME Restart PROVE Store!Restart
  BY <1>2 DEF Restart, Idle, Store!Restart, Store!Idle
<1>3. ASSUME UNCHANGED vars PROVE UNCHANGED <<db, call>>
  BY <1>3 DEF vars
<1>4. ASSUME IInv, Next PROVE Store!Next \/ UNCHANGED <<db, call>>
  BY <1>1, <1>2, <1>4, StoreStep DEF Next, Store!Next
<1>5. QED
  BY <1>3, <1>4 DEF Store!vars

LEMMA StoreInit == Init => Store!Init
BY DEF Init, Idle, Store!Init, Store!Idle

(* As long as callers keep to one writer per endpoint, the two-transaction *)
(* implementation cannot be told from a store that applies every           *)
(* configuration in one step.                                              *)
THEOREM Refinement ==
  ASSUME OneWriterPerEndpoint
  PROVE  Spec => ImplementsRuleStore
<1>1. QED
  BY SafeAlways, StoreNext, StoreInit, PTL DEF Spec, ImplementsRuleStore, Store!Spec

-----------------------------------------------------------------------------
(* However callers behave.                                                 *)

Reborn(e) == db[e] = NoRow /\ db'[e] # NoRow

OnlyRegistered(e) ==
  \E t \in Threads :
    /\ call[t].op = "register" /\ Working(t)
    /\ Cfg(t).endpoint = e
    /\ db'[e] = NewRow(Cfg(t))

LEMMA RebornStep ==
  ASSUME TypeInv, [Next]_vars, NEW e \in Endpoints, Reborn(e)
  PROVE  OnlyRegistered(e)
<1>1. db' # db
  BY DEF Reborn
<1>2. ASSUME NEW t \in Threads, Create(t) PROVE OnlyRegistered(e)
  <2>1. /\ Working(t) /\ call[t].op = "register"
        /\ db' = [db EXCEPT ![Cfg(t).endpoint] = NewRow(Cfg(t))]
    BY <1>1, <1>2 DEF Create
  <2>2. Cfg(t).endpoint = e
    BY <2>1 DEF Reborn, TypeInv, TypeOK
  <2>3. db'[e] = NewRow(Cfg(t))
    BY <2>1, <2>2 DEF TypeInv, TypeOK
  <2>4. QED
    BY <2>1, <2>2, <2>3 DEF OnlyRegistered
<1>3. ASSUME NEW t \in Threads, Update(t) PROVE FALSE
  <2>1. PICK row : db' = IF db[Cfg(t).endpoint] = NoRow THEN db
                         ELSE [db EXCEPT ![Cfg(t).endpoint] = row]
    BY <1>3 DEF Update
  <2>2. QED
    BY <1>1, <2>1 DEF Reborn, TypeInv, TypeOK
<1>4. ASSUME NEW t \in Threads, Delete(t) PROVE FALSE
  BY <1>4 DEF Delete, Reborn, TypeInv, TypeOK
<1>5. ASSUME NEW t \in Threads, Step(t) PROVE OnlyRegistered(e)
  BY <1>1, <1>2, <1>3, <1>4, <1>5 DEF Step, GetRow, Fail, Reply
<1>6. QED
  BY <1>1, <1>5 DEF Next, Begin, Restart, vars

(* Whatever requests overlap, a deleted row only comes back as what a      *)
(* registration brings: no write puts back what was read before.           *)
THEOREM DeletionsStick == Spec => DeletedStayDeleted
<1>1. TypeInv /\ [Next]_vars =>
        [\A e \in Endpoints : Reborn(e) => OnlyRegistered(e)]_vars
  BY RebornStep
<1>2. Spec => [][\A e \in Endpoints : Reborn(e) => OnlyRegistered(e)]_vars
  BY <1>1, TypeInit, TypeStep, PTL DEF Spec
<1>3. QED
  BY <1>2 DEF DeletedStayDeleted, Reborn, OnlyRegistered
=============================================================================
