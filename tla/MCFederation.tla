---------------------------- MODULE MCFederation ----------------------------
(* TLC instance of Federation: a FederatedDeployment names one cluster, or   *)
(* none, which selects both.                                                 *)
EXTENDS Federation

CONSTANTS m1, m2

AllOrOne == {{}, {m1}}
=============================================================================
