---------------------------- MODULE ServingPods ----------------------------
(***************************************************************************)
(* What the kubelet promises about the pods it runs, as far as those who   *)
(* route traffic to them can see: the port in the status of a Running pod  *)
(* and the listener the stub runtime keeps for it.  PodLifecycle           *)
(* implements it; ServiceRouting builds on it.                             *)
(***************************************************************************)
CONSTANTS Pods, Ports, NoPort

VARIABLES
    pods,      \* host port of each Running pod, or NoPort
    listening  \* port of each pod's listener, or NoPort

servingVars == <<pods, listening>>

Init ==
    /\ pods = [p \in Pods |-> NoPort]
    /\ listening = [p \in Pods |-> NoPort]

\* The pod gets a listener, at a port no other pod listens at, while nothing
\* is published for it.
Listen(p, port) ==
    /\ pods[p] = NoPort
    /\ listening[p] = NoPort
    /\ \A r \in Pods : listening[r] # port
    /\ listening' = [listening EXCEPT ![p] = port]
    /\ pods' = pods

\* It is reported Running, at the port it listens at.
Report(p) ==
    /\ pods[p] = NoPort
    /\ listening[p] # NoPort
    /\ pods' = [pods EXCEPT ![p] = listening[p]]
    /\ listening' = listening

\* It is Running no longer: deleted, or bound by a scheduler that listed an
\* earlier pod of its name.
Withdraw(p) ==
    /\ pods[p] # NoPort
    /\ pods' = [pods EXCEPT ![p] = NoPort]
    /\ listening' = listening

\* Mutant: the listener of a pod that is Running by now is closed too.
CloseListeners_Any(S) ==
    /\ listening' = [p \in Pods |-> IF p \in S THEN NoPort ELSE listening[p]]
    /\ pods' = pods

\* Listeners are closed, never that of a Running pod.
CloseListeners(S) ==
    /\ \A p \in S : pods[p] = NoPort
    /\ listening' = [p \in Pods |-> IF p \in S THEN NoPort ELSE listening[p]]
    /\ pods' = pods

\* The kubelet process restarts: its listeners die, the pods stay Running.
Restart ==
    /\ listening' = [p \in Pods |-> NoPort]
    /\ pods' = pods

Next ==
    \/ \E p \in Pods : Report(p) \/ Withdraw(p) \/ \E port \in Ports : Listen(p, port)
    \/ \E S \in SUBSET Pods : CloseListeners(S)
    \/ Restart

Spec == Init /\ [][Next]_servingVars
=============================================================================
