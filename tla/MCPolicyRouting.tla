-------------------------- MODULE MCPolicyRouting ---------------------------
(* TLC instance of PolicyRouting. *)
EXTENDS PolicyRouting, TLC

CONSTANTS s1, p1, p2, ip1

\* One Service in front of one of two pods; the other is a caller.
PodLabels == (p1 :> {"web", "front"}) @@ (p2 :> {"web"})
SvcSelector == s1 :> {"front"}
OwnAddress == s1 :> {ip1}
PodPort == (p1 :> 80) @@ (p2 :> 443)

\* Port 80 is for pods with the label front, port 443 for everybody.
Rule(from, ports) == [from |-> from, ports |-> ports]
Web == [podSelector |-> {"web"}, ingress |-> {Rule({{"front"}}, {80}), Rule({}, {443})}]
Specs == {Web}
=============================================================================
