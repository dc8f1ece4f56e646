------------------------------ MODULE ConfigStore ------------------------------
(***************************************************************************)
(* Config: the parameters of an Axon node, cached in memory and kept in a  *)
(* table of a SQLite file, with the conversion of values to JSON and back. *)
(* Threads of the RPC server call set_param; the table is read and written *)
(* in two steps of a connection each call opens for itself.                *)
(***************************************************************************)
EXTENDS Naturals

CONSTANTS
  Threads,  \* threads that serve RPC requests
  Params,   \* parameter names
  Values,   \* values callers set
  Default,  \* Default[p]: the value of the configuration file, or Absent
  Absent,   \* no value, no row
  Events    \* "dberror", "restart", "cacheonly"

\* What the conversion tells apart of a value: its type, and its content.
Types == {"bool", "str", "list", "tuple", "set", "NoneType"}
False == [type |-> "bool", data |-> "false"]
True == [type |-> "bool", data |-> "true"]
Value == [type : Types \ {"bool"}, data : STRING] \cup {False, True}

ConfigAssumption ==
  /\ Values \subseteq Value
  /\ Default \in [Params -> Values \cup {Absent}]
  /\ Absent \notin Value \cup [value : Value, typename : Types]
  /\ Events \subseteq {"dberror", "restart", "cacheonly"}

VARIABLES
  cache,  \* _params
  db,     \* db[p]: the row of parameter p, or Absent
  th,     \* th[t]: the call thread t serves, and its local variables
  may     \* may[p]: the values a caller may find after a restart

vars == <<cache, db, th, may>>

Idle == [pc |-> "idle", param |-> Absent, val |-> Absent, found |-> FALSE]

At(t, l) == th[t].pc = l

-----------------------------------------------------------------------------
(* Values and rows.                                                        *)

\* Mutant: the type is taken from the value JSON has made of it.
RowOfJson(v) ==
  LET json == [type |-> IF v.type \in {"tuple", "set"} THEN "list" ELSE v.type, data |-> v.data]
  IN [value |-> json, typename |-> json.type]

\* JSON has lists, and neither tuples nor sets; the type is kept beside it.
Row(v) ==
  [value |-> [type |-> IF v.type \in {"tuple", "set"} THEN "list" ELSE v.type,
              data |-> v.data],
   typename |-> v.type]

\* _type_handler. A bool comes back from JSON as one, and is compared to a string.
TypeHandler(row) ==
  CASE row.typename \in {"tuple", "set"} -> [type |-> row.typename, data |-> row.value.data]
    [] row.typename = "bool" ->
         [type |-> "bool",
          data |-> IF row.value = [type |-> "str", data |-> "True"] THEN "true" ELSE "false"]
    [] OTHER -> row.value

\* What a value is after it was written and loaded.
Back(v) == IF v = True THEN False ELSE v

\* The configuration file first, then the table over it.
Loaded(table) ==
  [p \in Params |-> IF table[p] = Absent THEN Default[p] ELSE TypeHandler(table[p])]

\* save_to_db: every parameter of the cache is written.
Stored(params, table) ==
  [p \in Params |-> IF params[p] = Absent THEN table[p] ELSE Row(params[p])]

-----------------------------------------------------------------------------
Init ==
  /\ cache = Default
  /\ db = Stored(Default, [p \in Params |-> Absent])
  /\ th = [t \in Threads |-> Idle]
  /\ may = [p \in Params |-> {Default[p]}]

Begin(t, p, v) ==
  /\ At(t, "idle")
  /\ cache' = [cache EXCEPT ![p] = v]
  /\ th' = [th EXCEPT ![t] = [pc |-> "read", param |-> p, val |-> v, found |-> FALSE]]
  /\ may' = [may EXCEPT ![p] = @ \cup {v}]
  /\ UNCHANGED db

\* set_param with write_to_db=False
SetCached(t, p, v) ==
  /\ "cacheonly" \in Events /\ At(t, "idle")
  /\ cache' = [cache EXCEPT ![p] = v]
  /\ UNCHANGED <<db, th, may>>

ReadRow(t) ==
  /\ At(t, "read")
  /\ th' = [th EXCEPT ![t].pc = "write", ![t].found = db[th[t].param] # Absent]
  /\ UNCHANGED <<cache, db, may>>

\* A row that was found is updated, otherwise one is inserted; when another
\* thread has inserted it since, that raises, and the call fails.
WriteRow(t) ==
  LET p == th[t].param
  IN /\ At(t, "write")
     /\ IF ~ th[t].found /\ db[p] # Absent
        THEN th' = [th EXCEPT ![t] = Idle] /\ UNCHANGED db
        ELSE /\ db' = [db EXCEPT ![p] = Row(th[t].val)]
             /\ th' = [th EXCEPT ![t].pc = "reply"]
     /\ UNCHANGED <<cache, may>>

\* The call returns: with one caller, its value is the one to be found.
Reply(t) ==
  /\ At(t, "reply")
  /\ th' = [th EXCEPT ![t] = Idle]
  /\ may' = [may EXCEPT ![th[t].param] = {th[t].val}]
  /\ UNCHANGED <<cache, db>>

DbError(t) ==
  /\ "dberror" \in Events /\ th[t].pc \in {"read", "write"}
  /\ th' = [th EXCEPT ![t] = Idle]
  /\ UNCHANGED <<cache, db, may>>

\* The process starts again: Config() loads the table and saves what it has loaded.
Restart ==
  /\ "restart" \in Events
  /\ cache' = Loaded(db)
  /\ db' = Stored(cache', db)
  /\ th' = [t \in Threads |-> Idle]
  /\ UNCHANGED may

Next ==
  \/ \E t \in Threads :
       \/ \E p \in Params, v \in Values : Begin(t, p, v) \/ SetCached(t, p, v)
       \/ ReadRow(t) \/ WriteRow(t) \/ Reply(t) \/ DbError(t)
  \/ Restart

Spec == Init /\ [][Next]_vars

-----------------------------------------------------------------------------
\* Values, and what they may have become.
Held == Values \cup {Back(v) : v \in Values}

TypeOK ==
  /\ cache \in [Params -> Held \cup {Absent}]
  /\ db \in [Params -> {Absent} \cup {Row(v) : v \in Held}]
  /\ th \in [Threads -> [pc : {"idle", "read", "write", "reply"}, param : Params \cup {Absent},
                         val : Values \cup {Absent}, found : BOOLEAN]]
  /\ may \in [Params -> SUBSET (Values \cup {Absent})]

(* What set_param has acknowledged comes back after a restart, with its    *)
(* value and its type, unless a later call, failed or not, has written     *)
(* another; but for True, which comes back as False.                       *)
AckedSurvives == \A p \in Params : \E v \in may[p] : Loaded(db)[p] = Back(v)

(* The same without the exception, as the persistence test of the          *)
(* configuration has it, which sets a parameter to True.                   *)
AckedReturns == \A p \in Params : Loaded(db)[p] \in may[p]

(* The cache reflects the database (docstring of get_param).               *)
CacheReflects == (\A t \in Threads : At(t, "idle")) => cache = Loaded(db)
=============================================================================
