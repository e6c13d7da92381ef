---------------------------- MODULE MCClusterIPs ----------------------------
(* TLC instance of ClusterIPs: three addresses, of which a search tries two. *)
EXTENDS ClusterIPs, TLC

CONSTANTS s1, s2

\* The second name is the first with a capital letter.
LowerNames == (s1 :> s1) @@ (s2 :> s1)
=============================================================================
