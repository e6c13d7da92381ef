------------------------ MODULE MCReplicaSetControl ------------------------
(* TLC instances of ReplicaSetControl. *)
EXTENDS ReplicaSetControl, TLC

\* Pod names and controllers are interchangeable; used where only safety is checked.
Symmetric == Permutations(Names) \cup Permutations(Controllers)
=============================================================================
