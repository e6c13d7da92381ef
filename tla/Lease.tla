-------------------------------- MODULE Lease --------------------------------
(***************************************************************************)
(* What the controller-manager lease promises, whatever the replicas, the  *)
(* database and the delays between them do: a replica is granted the lease *)
(* up to some time, nobody else is granted it before that time has passed, *)
(* and a grant is never shortened.                                         *)
(***************************************************************************)
EXTENDS Integers

CONSTANTS Replicas, NoHolder

VARIABLES
    clock,
    holder,   \* the replica with the last grant, or NoHolder
    until,    \* the end of that grant
    promise   \* the end of the grant each replica relies on, or Nothing

leaseVars == <<clock, holder, until, promise>>

Nothing == -1

Init ==
    /\ clock = 0
    /\ holder = NoHolder
    /\ until = 0
    /\ promise = [r \in Replicas |-> Nothing]

TimePasses ==
    /\ clock' = clock + 1
    /\ UNCHANGED <<holder, until, promise>>

\* The holder's grant is extended, or another replica gets one after its end.
Grant(r) ==
    /\ holder \in {r, NoHolder} \/ clock > until
    /\ holder' = r
    /\ until' >= until
    /\ promise' = [promise EXCEPT ![r] = until']
    /\ UNCHANGED clock

\* A replica stops relying on its grant.
GiveUp(r) ==
    /\ promise' = [promise EXCEPT ![r] = Nothing]
    /\ UNCHANGED <<clock, holder, until>>

Next == TimePasses \/ \E r \in Replicas : Grant(r) \/ GiveUp(r)

Spec == Init /\ [][Next]_leaseVars
=============================================================================
