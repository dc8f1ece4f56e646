---------------------------- MODULE MCClientRecords ----------------------------
(* Small instances of ClientRecords: three destinations, two in a round.   *)
EXTENDS ClientRecords, TLC

CONSTANTS d1, d2, d3

ThreeDests == <<d1, d2, d3>>

\* TCP and UDP alone, with an HTTP rule among them, or with one that has no client.
OneOdd ==
  LET Rules(kind) == (d1 :> kind) @@ [d \in {d2, d3} |-> "socket"]
  IN {Rules("socket"), Rules("http")} \cup
     {[Rules("socket") EXCEPT ![d] = "unknown"] : d \in {d2, d3}}
=============================================================================
