---------------------------- MODULE PodRequests ----------------------------
(***************************************************************************)
(* POST /pods from end to end: the guard, then createPod with the admission*)
(* pipeline in it, while users, roles, bindings and webhooks are being     *)
(* written by others.  PodLifecycle follows the pod from the table on.     *)
(***************************************************************************)
EXTENDS AccessControl, Admission

CONSTANTS
    MaxChanges  \* bound on what others write

ASSUME MaxChangesAssumption == MaxChanges \in Nat

VARIABLES
    changes

vars == <<avars, mvars, changes>>

TypeOK ==
    /\ AccessTypeOK
    /\ AdmissionTypeOK
    /\ changes \in 0 .. MaxChanges

Init == AccessInit /\ AdmissionInit /\ changes = 0

\* 401, 403 or 500 from the guard.
Refuse ==
    /\ call.at \in {"denied", "unauthorized", "error"}
    /\ Answer
    /\ UNCHANGED <<mvars, changes>>

\* createPod with a body that is not a pod with a name and containers: 400.
BadBody ==
    /\ call.at = "allowed" /\ review.at = "idle"
    /\ Answer
    /\ UNCHANGED <<mvars, changes>>

\* createPod with one that is.
CreatePod ==
    /\ call.at = "allowed"
    /\ \E p \in Pods : BeginReview(p)
    /\ UNCHANGED <<avars, changes>>

\* The pipeline rejects it: 400.
Reject ==
    /\ review.at = "rejected"
    /\ EndReview
    /\ Answer
    /\ UNCHANGED changes

\* UpsertPod of what the pipeline made of it; or it fails, 500.
StorePod ==
    /\ review.at = "admitted"
    /\ EndReview
    /\ Answer
    /\ UNCHANGED changes

Change == changes < MaxChanges /\ changes' = changes + 1

Next ==
    \/ (\E q \in Requests : Begin(q)) /\ UNCHANGED <<mvars, changes>>
    \/ Guard /\ UNCHANGED <<mvars, changes>>
    \/ Refuse \/ BadBody \/ CreatePod
    \/ Pipeline /\ UNCHANGED <<avars, changes>>
    \/ Reject \/ StorePod
    \/ Change /\ Administer /\ UNCHANGED mvars
    \/ Change /\ Register /\ UNCHANGED avars

Spec == Init /\ [][Next]_vars

=============================================================================
