-------------------------- MODULE MCServiceRouting --------------------------
(* TLC instance of ServiceRouting. *)
EXTENDS ServiceRouting, TLC

CONSTANTS s1, p1, p2, ip1

\* One Service for both pods.
PodLabels == (p1 :> {"web", "front"}) @@ (p2 :> {"web"})
SvcSelector == s1 :> {"web"}

\* 127.0.0.1 and the Service's port.
OwnAddress == s1 :> {ip1}
=============================================================================
