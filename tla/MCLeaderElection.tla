-------------------------- MODULE MCLeaderElection --------------------------
(* TLC instances of LeaderElection. *)
EXTENDS LeaderElection, TLC

CONSTANTS a, b

\* -lease-ttl=500ms and -lease-ttl=1500ms; a clock unit is half a second.  The
\* rows keep 0 and 1 second.
HalfSecondTTL == (a :> 1) @@ (b :> 3)
=============================================================================
