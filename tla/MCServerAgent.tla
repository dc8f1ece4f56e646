----------------------------- MODULE MCServerAgent -----------------------------
(* Small instances of ServerAgent.                                         *)
EXTENDS ServerAgent, TLC

CONSTANTS t1, t2, e1, e2, tcp, udp, icmp

\* Processes and managers are interchangeable; no liveness is checked with it.
Symmetry == Permutations(Procs) \cup Permutations(Mngrs)

\* One RPC at a time: a server on each of two endpoints, two servers on one, errors.
OneAtATime ==
  { [threads |-> {t1}, endpoints |-> {e1, e2}, servers |-> {tcp}, faulty |-> FALSE],
    [threads |-> {t1}, endpoints |-> {e1}, servers |-> {tcp, udp}, faulty |-> FALSE],
    [threads |-> {t1}, endpoints |-> {e1, e2}, servers |-> {tcp, icmp}, faulty |-> TRUE] }

\* Two RPCs at a time.
Racing == {[threads |-> {t1, t2}, endpoints |-> {e1}, servers |-> {tcp}, faulty |-> FALSE]}

\* One RPC at a time, with errors.
Faults == {[threads |-> {t1}, endpoints |-> {e1}, servers |-> {tcp, icmp}, faulty |-> TRUE]}
=============================================================================
