---------------------------- MODULE ConnectedState ----------------------------
(***************************************************************************)
(* ConnectedStateProcessor on DBConnectedState, as TrafficApp drives it    *)
(* from the threads of the RPC server.                                     *)
(*                                                                         *)
(* Every database operation is one transaction. A configuration of a       *)
(* register or unregister request takes two of them: GetRow reads the row  *)
(* of the endpoint, and Create or Update writes the row computed from what *)
(* was read. Nothing holds the row between the two. Deleting is a single   *)
(* transaction.                                                            *)
(*                                                                         *)
(* OneWriterPerEndpoint says how callers behave: TRUE when no two requests *)
(* in progress name the same endpoint, FALSE when the RPC server may serve *)
(* any of its clients at any time.                                         *)
(***************************************************************************)
EXTENDS TrafficRules

CONSTANT OneWriterPerEndpoint

ASSUME CallersAssumption == OneWriterPerEndpoint \in BOOLEAN

VARIABLES
  db,     \* db[e]: the row of endpoint e, or NoRow
  call,   \* call[t]: the request thread t serves, and its progress
  pc,     \* pc[t]: the next transaction of thread t
  snap,   \* snap[t]: the row thread t read last
  acked   \* acked[e]: rules that registrations answered without an error put
          \* on e, and that no later request asked to remove (history)

vars == <<db, call, pc, snap, acked>>

\* One RPC: everything it will do is in call[t].
Idle == [op |-> "none", configs |-> <<>>, next |-> 1]

Call == [op : {"register", "unregister", "delete"}, configs : Seq(Config), next : Nat \ {0}]

Serving(t) == call[t].op # "none"

Working(t) == Serving(t) /\ call[t].next <= Len(call[t].configs)

\* The configuration thread t works on.
Cfg(t) == call[t].configs[call[t].next]

\* The endpoints a configuration is about.
Named(cfg) == IF cfg.endpoint = AllEndpoints THEN Endpoints ELSE {cfg.endpoint}

Touches(configs) == UNION {Named(configs[i]) : i \in 1 .. Len(configs)}

\* The rules a configuration or a row mentions, told apart by server and client key.
Rules(c) == c.servers \cup {k \in ClientKeys : c.clients[k] # NoAction}

Stored(e) == IF db[e] = NoRow THEN {} ELSE Rules(db[e])

\* The rules on e that the configurations of a request mention.
Mentioned(configs, e) ==
  UNION {Rules(configs[i]) : i \in {j \in 1 .. Len(configs) : e \in Named(configs[j])}}

\* The rules on e that a request asks to remove.
Withdrawn(r, e) ==
  IF r.op = "register" THEN {}
  ELSE IF r.op = "unregister" THEN Mentioned(r.configs, e)
  ELSE IF e \in Touches(r.configs) THEN Servers \cup ClientKeys ELSE {}

-----------------------------------------------------------------------------
Init ==
  /\ db = [e \in Endpoints |-> NoRow]
  /\ call = [t \in Threads |-> Idle]
  /\ pc = [t \in Threads |-> "idle"]
  /\ snap = [t \in Threads |-> NoRow]
  /\ acked = [e \in Endpoints |-> {}]

\* The thread has nothing left to do for its caller.
Finish(t) ==
  /\ call' = [call EXCEPT ![t] = Idle]
  /\ pc' = [pc EXCEPT ![t] = "idle"]
  /\ snap' = [snap EXCEPT ![t] = NoRow]

\* Mutant: the loop stays at the same configuration.
NextConfigAgain(t) == UNCHANGED <<call, pc, snap>>

\* The loop over the configurations of the request goes on.
NextConfig(t) ==
  /\ call' = [call EXCEPT ![t].next = @ + 1]
  /\ pc' = [pc EXCEPT ![t] = "get"]
  /\ snap' = [snap EXCEPT ![t] = NoRow]

CallersAllow(t, r) ==
  OneWriterPerEndpoint =>
    \A u \in Threads \ {t} : Touches(r.configs) \cap Touches(call[u].configs) = {}

\* An RPC arrives and a thread of the pool takes it.
Begin(t, r) ==
  /\ ~ Serving(t)
  /\ CallersAllow(t, r)
  /\ call' = [call EXCEPT ![t] = [op |-> r.op, configs |-> r.configs, next |-> 1]]
  /\ pc' = [pc EXCEPT ![t] = IF r.op = "delete" THEN "delete" ELSE "get"]
  /\ acked' = [e \in Endpoints |-> acked[e] \ Withdrawn(r, e)]
  /\ UNCHANGED <<db, snap>>

\* The read transaction. Unregistering from an endpoint without a row is a no-op.
GetRow(t) ==
  /\ Working(t) /\ pc[t] = "get"
  /\ IF call[t].op = "unregister" /\ db[Cfg(t).endpoint] = NoRow
     THEN NextConfig(t)
     ELSE /\ snap' = [snap EXCEPT ![t] = db[Cfg(t).endpoint]]
          /\ pc' = [pc EXCEPT ![t] = "write"]
          /\ UNCHANGED call
  /\ UNCHANGED <<db, acked>>

\* No row was read: insert one. The endpoint is the primary key, so the insert
\* fails when another thread has created the row since, and the RPC with it.
Create(t) ==
  LET e == Cfg(t).endpoint
  IN /\ Working(t) /\ pc[t] = "write" /\ call[t].op = "register" /\ snap[t] = NoRow
     /\ IF db[e] = NoRow
        THEN /\ db' = [db EXCEPT ![e] = NewRow(Cfg(t))]
             /\ NextConfig(t)
        ELSE /\ Finish(t)
             /\ UNCHANGED db
     /\ UNCHANGED acked

\* Mutant: a row that is gone is inserted again.
UpdateOrInsert(t) ==
  LET row == IF call[t].op = "register" THEN Added(snap[t], Cfg(t)) ELSE Removed(snap[t], Cfg(t))
  IN /\ Working(t) /\ pc[t] = "write" /\ snap[t] # NoRow
     /\ db' = [db EXCEPT ![Cfg(t).endpoint] = row]
     /\ NextConfig(t)
     /\ UNCHANGED acked

\* Mutant: unregistering adds the rules too.
UpdateAdds(t) ==
  LET e == Cfg(t).endpoint
  IN /\ Working(t) /\ pc[t] = "write" /\ snap[t] # NoRow
     /\ db' = IF db[e] = NoRow THEN db ELSE [db EXCEPT ![e] = Added(snap[t], Cfg(t))]
     /\ NextConfig(t)
     /\ UNCHANGED acked

\* A row was read: write what follows from it. UPDATE ... WHERE endpoint = e
\* changes nothing, and raises nothing, when the row is gone by now.
Update(t) ==
  LET e   == Cfg(t).endpoint
      row == IF call[t].op = "register" THEN Added(snap[t], Cfg(t)) ELSE Removed(snap[t], Cfg(t))
  IN /\ Working(t) /\ pc[t] = "write" /\ snap[t] # NoRow
     /\ db' = IF db[e] = NoRow THEN db ELSE [db EXCEPT ![e] = row]
     /\ NextConfig(t)
     /\ UNCHANGED acked

\* delete_traffic_rules: all rows, or the row of one endpoint, which must exist.
Delete(t) ==
  LET e == Cfg(t).endpoint
  IN /\ Working(t) /\ pc[t] = "delete"
     /\ \/ /\ e = AllEndpoints
           /\ db' = [x \in Endpoints |-> NoRow]
           /\ NextConfig(t)
        \/ /\ e # AllEndpoints /\ db[e] # NoRow
           /\ db' = [db EXCEPT ![e] = NoRow]
           /\ NextConfig(t)
        \/ /\ e # AllEndpoints /\ db[e] = NoRow
           /\ Finish(t)
           /\ UNCHANGED db
     /\ UNCHANGED acked

\* A transaction fails (the database is locked, the disk is full): it is rolled
\* back and the exception ends the RPC, whatever configurations are left.
Fail(t) ==
  /\ Working(t)
  /\ Finish(t)
  /\ UNCHANGED <<db, acked>>

\* The loop is over and the RPC returns.
Reply(t) ==
  /\ Serving(t) /\ ~ Working(t)
  /\ acked' = IF call[t].op = "register"
              THEN [e \in Endpoints |-> acked[e] \cup Mentioned(call[t].configs, e)]
              ELSE acked
  /\ Finish(t)
  /\ UNCHANGED db

\* The Axon process is stopped, or dies, and is started again.
Restart ==
  /\ call' = [t \in Threads |-> Idle]
  /\ pc' = [t \in Threads |-> "idle"]
  /\ snap' = [t \in Threads |-> NoRow]
  /\ UNCHANGED <<db, acked>>

Step(t) == GetRow(t) \/ Create(t) \/ Update(t) \/ Delete(t) \/ Fail(t) \/ Reply(t)

Next ==
  \/ \E t \in Threads :
       \/ \E r \in Requests : Begin(t, r)
       \/ Step(t)
  \/ Restart

Spec == Init /\ [][Next]_vars

\* The scheduler runs every thread that serves a request; no failure has to happen.
FairSpec ==
  Spec /\ \A t \in Threads :
    WF_vars(GetRow(t) \/ Create(t) \/ Update(t) \/ Delete(t) \/ Reply(t))

-----------------------------------------------------------------------------
TypeOK ==
  /\ db \in [Endpoints -> Row \cup {NoRow}]
  /\ call \in [Threads -> Call \cup {Idle}]
  /\ pc \in [Threads -> {"idle", "get", "write", "delete"}]
  /\ snap \in [Threads -> Row \cup {NoRow}]
  /\ acked \in [Endpoints -> SUBSET (Servers \cup ClientKeys)]

(* A registration that was answered without an error is in the database    *)
(* until somebody asks to remove it, through any number of other requests, *)
(* failures and restarts (create_or_update_connected_state).               *)
AckedSaved == \A e \in Endpoints : acked[e] \subseteq Stored(e)

(* When callers keep to one writer per endpoint, what a thread has read is *)
(* still what the row holds when the thread writes.                        *)
SnapshotFresh ==
  \A t \in Threads : pc[t] = "write" => snap[t] = db[Cfg(t).endpoint]

\* No two requests in progress name the same endpoint.
Disjoint ==
  \A t, u \in Threads : t # u => Touches(call[t].configs) \cap Touches(call[u].configs) = {}

\* A registration in progress finds its earlier configurations in the database.
DoneStored ==
  \A t \in Threads : call[t].op = "register" =>
    \A i \in 1 .. Len(call[t].configs) : i < call[t].next =>
      \A e \in Named(call[t].configs[i]) : Rules(call[t].configs[i]) \subseteq Stored(e)

\* What a request in progress is to remove is promised to nobody.
WithdrawnGone ==
  \A t \in Threads : Serving(t) =>
    \A e \in Endpoints : acked[e] \cap Withdrawn(call[t], e) = {}

\* The invariant that carries AckedSaved and the refinement.
SafeInv == Disjoint /\ SnapshotFresh /\ DoneStored /\ WithdrawnGone /\ AckedSaved

(* Once the row of an endpoint is deleted, only a registration brings rules *)
(* back, and only its own: a row that another thread read before the       *)
(* deletion is never written back whole (ConnectedStateRepository.update). *)
DeletedStayDeleted ==
  [][ \A e \in Endpoints :
        (db[e] = NoRow /\ db'[e] # NoRow) =>
           \E t \in Threads :
             /\ call[t].op = "register" /\ Working(t)
             /\ Cfg(t).endpoint = e
             /\ db'[e] = NewRow(Cfg(t)) ]_vars

(* Every RPC ends, with an answer or an error.                             *)
EveryCallEnds == \A t \in Threads : Serving(t) ~> ~ Serving(t)

(* Seen from outside, every configuration takes effect in one step on the  *)
(* rules the database holds at that step (RuleStore).                      *)
Store == INSTANCE RuleStore

ImplementsRuleStore == Store!Spec
=============================================================================
