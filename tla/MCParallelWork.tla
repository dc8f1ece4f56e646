---------------------------- MODULE MCParallelWork ----------------------------
(* Small instances of ParallelWork.                                        *)
EXTENDS ParallelWork, TLC
=============================================================================
