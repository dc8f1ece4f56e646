------------------------------ MODULE MCHostParts ------------------------------
(* A small instance of HostParts.                                          *)
EXTENDS HostParts, TLC

\* Two namespaces that come up and stay, or one that may be bare or removed, and where
\* calls fail that could succeed.
TwoOrRemoved ==
  {[names |-> Names, events |-> {"death"}]} \cup
  {[names |-> {n}, events |-> {"bare", "remove", "death", "raise"}] : n \in Names}

Symmetry == Permutations(Two) \cup Permutations(Names)
=============================================================================
