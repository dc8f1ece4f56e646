------------------------------- MODULE Namespaces ------------------------------
(***************************************************************************)
(* How the threads of a node enter network namespaces and come back: to    *)
(* start a worker process in one (NamespaceServerManager and               *)
(* NamespaceClientManager), and to read the interfaces there (Namespace),  *)
(* from which NamespaceManager keeps its two maps.                         *)
(*                                                                         *)
(* setns(2) moves the thread that calls it, and a process that the thread  *)
(* forks is where the thread is. The way back leads where the main thread  *)
(* is at that time, since /proc/self stands for that one. The main thread  *)
(* starts servers and clients before it serves calls.                      *)
(***************************************************************************)
EXTENDS Naturals, FiniteSets

CONSTANTS
  Main,    \* the main thread
  Pool,    \* threads that serve calls
  Names,   \* names of namespaces
  Root,    \* the namespace of the host itself
  Events,  \* what may happen: "child" is a child process that ends without a result
  None

NamespacesAssumption ==
  /\ Main \notin Pool /\ Root \notin Names /\ None \notin Names \cup {Root}
  /\ Events \subseteq {"remove", "child"}

Threads == Pool \cup {Main}

VARIABLES
  host,    \* the names of the host's namespaces
  booted,  \* the main thread serves calls
  th,      \* th[t]: what a thread does, and the namespace it is in
  procs,   \* worker processes: the name each was to run in, and where it runs
  nsmap,   \* _namespace_map: the namespace whose reading is kept for a name, or None
  ifmap    \* _namespace_interface_map

vars == <<host, booted, th, procs, nsmap, ifmap>>

\* pc: what the thread does next; op: the call; todo: names still to discover; name:
\* the one in hand; round: which of the three readings of it; fd, back: the
\* namespaces that are open; in: where the thread is; got: the one that was read.
Rest == [pc |-> "idle", op |-> "none", todo |-> {}, name |-> None, round |-> 0,
         fd |-> Root, back |-> Root, in |-> Root, got |-> None]

At(t, l) == th[t].pc = l

-----------------------------------------------------------------------------
Init ==
  /\ host \in SUBSET Names
  /\ booted = FALSE
  /\ th = [t \in Threads |-> Rest]
  /\ procs = {}
  /\ nsmap = [n \in Names |-> None] /\ ifmap = [n \in Names |-> None]

\* The call is over, with an answer or an exception; the thread is where it is.
Over(t) == [Rest EXCEPT !.in = th[t].in]

Begin(t, call) ==
  /\ th' = [th EXCEPT ![t] = call]
  /\ UNCHANGED <<host, booted, procs, nsmap, ifmap>>

\* Mutant: calls are served while the main thread starts servers and clients.
MayServeAtOnce(t) == At(t, "idle")

\* The main thread starts processes until it serves, the others from then on.
MayServe(t) == At(t, "idle") /\ booted = (t # Main)

\* start_server or start_client of a manager for a namespace.
StartIn(t, n) ==
  /\ MayServe(t)
  /\ Begin(t, [Over(t) EXCEPT !.pc = "open", !.op = "start", !.name = n])

\* ip netns list
Discover(t) ==
  /\ MayServe(t)
  /\ Begin(t, [Over(t) EXCEPT !.pc = "next", !.op = "discover",
                              !.todo = host])

Boot ==
  /\ ~ booted /\ At(Main, "idle")
  /\ booted' = TRUE
  /\ UNCHANGED <<host, th, procs, nsmap, ifmap>>

NextName(t) ==
  /\ At(t, "next")
  /\ \/ th[t].todo = {} /\ th' = [th EXCEPT ![t] = Over(t)]
     \/ \E n \in th[t].todo :
          th' = [th EXCEPT ![t].todo = @ \ {n}, ![t].name = n, ![t].round = 1, ![t].pc = "open"]
  /\ UNCHANGED <<host, booted, procs, nsmap, ifmap>>

-----------------------------------------------------------------------------
(* with nsenter.namespace(path, 'net')                                     *)

\* The files of the two namespaces are opened; a name that is gone raises.
Open(t) ==
  LET n == th[t].name
  IN /\ At(t, "open")
     /\ th' = IF n \notin host THEN [th EXCEPT ![t] = Over(t)]
              ELSE [th EXCEPT ![t].back = th[Main].in, ![t].fd = n, ![t].pc = "enter"]
     /\ UNCHANGED <<host, booted, procs, nsmap, ifmap>>

\* An open namespace can be entered when its name is gone.
Enter(t) ==
  /\ At(t, "enter")
  /\ th' = [th EXCEPT ![t].in = th[t].fd, ![t].pc = "fork"]
  /\ UNCHANGED <<host, booted, procs, nsmap, ifmap>>

\* A worker process is started, or a child reads the interfaces and is waited for.
Fork(t) ==
  /\ At(t, "fork")
  /\ IF th[t].op = "start"
     THEN /\ procs' = procs \cup {[name |-> th[t].name, in |-> th[t].in]}
          /\ th' = [th EXCEPT ![t].pc = "leave"]
     ELSE /\ \E got \in {th[t].in} \cup {x \in {None} : "child" \in Events} :
               th' = [th EXCEPT ![t].got = got, ![t].pc = "leave"]
          /\ UNCHANGED procs
  /\ UNCHANGED <<host, booted, nsmap, ifmap>>

\* finally: setns(original_ns)
Leave(t) ==
  /\ At(t, "leave")
  /\ th' = [th EXCEPT ![t] = IF @.op = "start" THEN [Rest EXCEPT !.in = th[t].back]
                             ELSE [@ EXCEPT !.in = th[t].back, !.fd = Root, !.back = Root,
                                            !.pc = "keep"]]
  /\ UNCHANGED <<host, booted, procs, nsmap, ifmap>>

\* A child without a result raises. Three readings are made of a namespace: for its
\* object, to see whether it has interfaces, and, if it has, for those.
Keep(t) ==
  LET again == [th[t] EXCEPT !.got = None, !.pc = "open", !.round = @ + 1]
      next  == [th[t] EXCEPT !.got = None, !.pc = "next", !.round = 0, !.name = None]
      into(map) == [map EXCEPT ![th[t].name] = th[t].got]
  IN /\ At(t, "keep")
     /\ \/ th[t].got = None /\ th' = [th EXCEPT ![t] = Over(t)] /\ UNCHANGED <<nsmap, ifmap>>
        \/ /\ th[t].got # None /\ th[t].round \in {1, 2} /\ th' = [th EXCEPT ![t] = again]
           /\ nsmap' = (IF th[t].round = 1 THEN into(nsmap) ELSE nsmap) /\ UNCHANGED ifmap
        \/ /\ th[t].got # None /\ th[t].round \in {2, 3} /\ th' = [th EXCEPT ![t] = next]
           /\ ifmap' = into(ifmap) /\ UNCHANGED nsmap
     /\ UNCHANGED <<host, booted, procs>>

-----------------------------------------------------------------------------
\* The host makes and removes namespaces; those of one name are not told apart.
Make(n) == n \notin host /\ host' = host \cup {n} /\ UNCHANGED <<booted, th, procs, nsmap, ifmap>>

Remove(n) ==
  /\ "remove" \in Events /\ n \in host
  /\ host' = host \ {n}
  /\ UNCHANGED <<booted, th, procs, nsmap, ifmap>>

Step(t) == NextName(t) \/ Open(t) \/ Enter(t) \/ Fork(t) \/ Leave(t) \/ Keep(t)

Next ==
  \/ Boot
  \/ \E t \in Threads : Discover(t) \/ Step(t) \/ \E n \in Names : StartIn(t, n)
  \/ \E n \in Names : Make(n) \/ Remove(n)

Spec == Init /\ [][Next]_vars

-----------------------------------------------------------------------------
Nets == Names \cup {Root}

TypeOK ==
  /\ host \subseteq Names /\ booted \in BOOLEAN
  /\ th \in [Threads ->
       [pc : {"idle", "next", "open", "enter", "fork", "leave", "keep"},
        op : {"none", "start", "discover"}, todo : SUBSET Names, name : Names \cup {None},
        round : 0 .. 3, fd : Nets, back : Nets, in : Nets, got : Nets \cup {None}]]
  /\ procs \subseteq [name : Names, in : Nets]
  /\ nsmap \in [Names -> Nets \cup {None}] /\ ifmap \in [Names -> Nets \cup {None}]

(* A process runs, and a reading was made, in a namespace that has had the *)
(* name that was asked for, and a thread that serves nothing is back in    *)
(* the host's own, whatever the threads do side by side and whatever       *)
(* becomes of the namespaces meanwhile.                                    *)
WhereAsked ==
  /\ \A p \in procs : p.in = p.name
  /\ \A n \in Names : \A got \in {nsmap[n], ifmap[n]} : got \in {n, None}
  /\ \A t \in Threads : At(t, "idle") => th[t].in = Root

(* The two maps have the same namespaces while none is being discovered.   *)
MapsAgree ==
  (\A t \in Threads : At(t, "idle")) =>
    \A n \in Names : (nsmap[n] = None) = (ifmap[n] = None)

(* Only namespaces that the host has are listed (get_all_namespaces).      *)
ListedExist ==
  (\A t \in Threads : At(t, "idle")) =>
    \A n \in Names : nsmap[n] # None => n \in host
=============================================================================
