---------------------------- MODULE MCAutoscaling ----------------------------
(* TLC instances of Autoscaling. *)
EXTENDS Autoscaling

\* minReplicas 0, which becomes 1, and maxReplicas 2.
OneBound == {[min |-> 0, max |-> 2]}
=============================================================================
