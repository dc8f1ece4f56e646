--------------------------- MODULE MCRecordPipeline ---------------------------
(* Small instances of RecordPipeline.                                      *)
EXTENDS RecordPipeline, TLC

CONSTANTS r1, r2, r3, tcpok, udpfail, tcp, udp, resource

\* A success and a failure, of two protocols, and a record of the resource monitor.
MCKind ==
  LET kinds == (r1 :> tcpok) @@ (r2 :> udpfail) @@ (r3 :> resource)
  IN [r \in Records |-> kinds[r]]

MCProto == (tcpok :> tcp) @@ (udpfail :> udp)

Listed == { <<"sql", "missing">>, <<"wavefront", "sql">>, <<"elastic">> }
=============================================================================
