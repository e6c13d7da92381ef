--------------------------- MODULE MCPodLifecycle ---------------------------
(* TLC instance of PodLifecycle.  Two names and two ports: a port can change *)
(* hands, and a pod can be created again while its listener is still open.   *)
EXTENDS PodLifecycle
=============================================================================
