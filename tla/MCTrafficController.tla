------------------------- MODULE MCTrafficController -------------------------
(* A small instance of TrafficController.                                  *)
EXTENDS TrafficController

CONSTANTS a, b, c, n1, n2, tcp, udp

Rule(s, d, p, v) == [src |-> s, dst |-> d, port |-> p, verdict |-> v]

\* Two endpoints in namespaces of one workload.
TwoNodes == a :> n1 @@ b :> n2 @@ c :> n1

Pairs == { <<Rule(a, b, tcp, TRUE)>>, <<Rule(b, c, udp, TRUE), Rule(c, b, tcp, TRUE)>> }

\* The action of a rule is changed from DROP to ALLOW.
Updates == { <<Rule(a, b, tcp, FALSE)>>, <<Rule(a, b, tcp, TRUE)>> }
=============================================================================
