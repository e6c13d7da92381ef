-------------------------- MODULE ReplicaSetControl --------------------------
(***************************************************************************)
(* The ReplicaSet controller reconciling one ReplicaSet, with the store    *)
(* operations it goes through.  Controllers is the set of controller       *)
(* instances at work: one as intended, two while leadership changes hands  *)
(* (LeaderElection) or when mk-controller-manager runs next to an apiserver*)
(* that runs its own controllers.                                          *)
(*                                                                         *)
(* A pass of reconcileAll reads the ReplicaSet, then the pods, decides     *)
(* once, and carries the decision out one HTTP call at a time; meanwhile   *)
(* the other instance works, pods fail, and users scale and delete.  What  *)
(* is not the controllers' doing is a disturbance, and the number of       *)
(* disturbances is bounded.                                                *)
(***************************************************************************)
EXTENDS Naturals, FiniteSets

CONSTANTS
    Controllers,     \* instances of the ReplicaSet controller
    Names,           \* bound: pod names <rs>-<randhex5> that can be drawn
    NoName,
    ReplicaCounts,   \* values of spec.replicas; alive[desired:] panics below 0
    MaxDisturbances  \* bound on disturbances

ASSUME NoNameAssumption == NoName \notin Names
ASSUME FiniteAssumption == IsFiniteSet(Controllers) /\ IsFiniteSet(Names)
ASSUME ReplicaCountsAssumption == ReplicaCounts \subseteq Nat
ASSUME MaxDisturbancesAssumption == MaxDisturbances \in Nat

VARIABLES
    rs,           \* the replicasets row: exists, spec.replicas, status
    phase,        \* phase of each pod; "Absent" where there is no row and
                  \* "Inserting" where CreatePod has its created_at only
    older,        \* <<p, q>>: created_at of p is before created_at of q
    ctl,          \* per controller: the pass in progress
    apply,        \* POST /replicasets in progress, between its statements
    disturbances, \* disturbances so far
    disturbed     \* history: some pass now in progress, or one that overlapped
                  \* it, has been overtaken by a disturbance

vars == <<rs, phase, older, ctl, apply, disturbances, disturbed>>

PodPhases == {"Absent", "Inserting", "Pending", "Running", "Failed"}

Counts == [replicas : Nat, ready : Nat]

NoPods == [replicas |-> 0, ready |-> 0]

Resting == [at |-> "idle", desired |-> 0, creates |-> 0, inserting |-> NoName,
            victims |-> {}, observed |-> NoPods]

NoApply == [active |-> FALSE, desired |-> 0, found |-> FALSE, status |-> NoPods]

TypeOK ==
    /\ rs \in [exists : BOOLEAN, desired : Nat, status : Counts]
    /\ phase \in [Names -> PodPhases]
    /\ older \in SUBSET (Names \X Names)
    /\ ctl \in [Controllers ->
                    [at : {"idle", "listing", "acting"}, desired : Nat, creates : Nat,
                     inserting : Names \cup {NoName}, victims : SUBSET Names,
                     observed : Counts]]
    /\ apply \in [active : BOOLEAN, desired : Nat, found : BOOLEAN, status : Counts]
    /\ disturbances \in 0 .. MaxDisturbances
    /\ disturbed \in BOOLEAN

\* Pods a list returns, those of them the controller counts, and the ready ones.
Alive == {p \in Names : phase[p] \in {"Pending", "Running"}}
Ready == {p \in Names : phase[p] = "Running"}

Init ==
    /\ \E d \in ReplicaCounts : rs = [exists |-> TRUE, desired |-> d, status |-> NoPods]
    /\ phase = [p \in Names |-> "Absent"]
    /\ older = {}
    /\ ctl = [c \in Controllers |-> Resting]
    /\ apply = NoApply
    /\ disturbances = 0
    /\ disturbed = FALSE

-----------------------------------------------------------------------------
(* The controller: reconcileAll and reconcileOne. *)

\* ListReplicaSets; when it fails the pass ends before it has begun.  A pass
\* that begins while no other is in progress has nothing stale to contend with.
ListReplicaSets(c) ==
    /\ ctl[c].at = "idle"
    /\ rs.exists
    /\ ctl' = [ctl EXCEPT ![c] = [Resting EXCEPT !.at = "listing", !.desired = rs.desired]]
    /\ disturbed' = (disturbed /\ \E b \in Controllers \ {c} : ctl[b].at # "idle")
    /\ UNCHANGED <<rs, phase, older, apply, disturbances>>

\* Mutants: the oldest go first; one too few goes.
Victims_Oldest(S, desired) ==
    {p \in S : Cardinality({q \in S : <<p, q>> \in older}) >= desired}
Victims_OneLess(S, desired) ==
    {p \in S : Cardinality({q \in S : <<q, p>> \in older}) > desired}

\* alive[desired:] of a list in the order of created_at.
Victims(S, desired) ==
    {p \in S : Cardinality({q \in S : <<q, p>> \in older}) >= desired}

\* Mutant: what exists is not counted.
Missing_CountsNone(S, desired) == desired

\* desired-actual, where it is positive.
Missing(S, desired) ==
    IF Cardinality(S) < desired THEN desired - Cardinality(S) ELSE 0

\* ListPods, and the decision.
ListPods(c) ==
    /\ ctl[c].at = "listing"
    /\ ctl' = [ctl EXCEPT
                ![c].at = "acting",
                ![c].creates = Missing(Alive, ctl[c].desired),
                ![c].victims = Victims(Alive, ctl[c].desired),
                ![c].observed = [replicas |-> Cardinality(Alive), ready |-> Cardinality(Ready)]]
    /\ UNCHANGED <<rs, phase, older, apply, disturbances, disturbed>>

\* ListPods fails: the pass is given up.
ListPodsFails(c) ==
    /\ ctl[c].at = "listing"
    /\ ctl' = [ctl EXCEPT ![c] = Resting]
    /\ UNCHANGED <<rs, phase, older, apply, disturbances, disturbed>>

Creating(c) == ctl[c].at = "acting" /\ ctl[c].creates > 0 /\ ctl[c].inserting = NoName

\* CreatePod reads the time for created_at ...
CreateStamp(c) ==
    /\ Creating(c)
    /\ \E p \in Names :
        /\ phase[p] = "Absent"
        /\ phase' = [phase EXCEPT ![p] = "Inserting"]
        /\ older' = older \cup {<<q, p>> : q \in {n \in Names : phase[n] # "Absent"}}
        /\ ctl' = [ctl EXCEPT ![c].inserting = p]
    /\ UNCHANGED <<rs, apply, disturbances, disturbed>>

\* ... and inserts the row.
CreateInsert(c) ==
    /\ ctl[c].inserting # NoName
    /\ phase' = [phase EXCEPT ![ctl[c].inserting] = "Pending"]
    /\ ctl' = [ctl EXCEPT ![c].inserting = NoName, ![c].creates = @ - 1]
    /\ UNCHANGED <<rs, older, apply, disturbances, disturbed>>

\* A pod's row is gone, or will not come.
Forget(p) ==
    /\ phase' = [phase EXCEPT ![p] = "Absent"]
    /\ older' = {e \in older : e[1] # p /\ e[2] # p}

\* The INSERT fails: logged, next one.
CreateFails(c) ==
    /\ ctl[c].inserting # NoName
    /\ Forget(ctl[c].inserting)
    /\ ctl' = [ctl EXCEPT ![c].inserting = NoName, ![c].creates = @ - 1]
    /\ UNCHANGED <<rs, apply, disturbances, disturbed>>

\* The random name is taken: UpsertPod updates that pod, whose status it keeps
\* (or loses to the request inserting it), and the controller counts a pod
\* created.  A request that fails early looks the same.
CreateCollides(c) ==
    /\ Creating(c)
    /\ ctl' = [ctl EXCEPT ![c].creates = @ - 1]
    /\ UNCHANGED <<rs, phase, older, apply, disturbances, disturbed>>

\* The next victim, in the order of the list.
NextVictim(c, p) == p \in ctl[c].victims /\ \A q \in ctl[c].victims : <<q, p>> \notin older

\* DELETE of one victim; 404 if it has gone already.
DeleteVictim(c, p) ==
    /\ NextVictim(c, p)
    /\ IF phase[p] \in {"Absent", "Inserting"} THEN UNCHANGED <<phase, older>> ELSE Forget(p)
    /\ ctl' = [ctl EXCEPT ![c].victims = @ \ {p}]
    /\ UNCHANGED <<rs, apply, disturbances, disturbed>>

\* The DELETE fails: logged, next one.
DeleteFails(c, p) ==
    /\ NextVictim(c, p)
    /\ ctl' = [ctl EXCEPT ![c].victims = @ \ {p}]
    /\ UNCHANGED <<rs, phase, older, apply, disturbances, disturbed>>

Finishing(c) == ctl[c].at = "acting" /\ ctl[c].creates = 0 /\ ctl[c].victims = {}

\* Mutant: no status update when the counts agree with the spec.
UpdateReplicaSetStatus_SkipsInSync(c) ==
    /\ Finishing(c)
    /\ rs' = IF rs.exists /\ ctl[c].observed.replicas # ctl[c].desired
             THEN [rs EXCEPT !.status = ctl[c].observed] ELSE rs
    /\ ctl' = [ctl EXCEPT ![c] = Resting]
    /\ UNCHANGED <<phase, older, apply, disturbances, disturbed>>

\* UpdateReplicaSetStatus with the counts of the list, taken before the pass
\* acted; the pass is over.
UpdateReplicaSetStatus(c) ==
    /\ Finishing(c)
    /\ rs' = IF rs.exists THEN [rs EXCEPT !.status = ctl[c].observed] ELSE rs
    /\ ctl' = [ctl EXCEPT ![c] = Resting]
    /\ UNCHANGED <<phase, older, apply, disturbances, disturbed>>

\* The same with the PUT lost; its error is ignored.
UpdateStatusFails(c) ==
    /\ Finishing(c)
    /\ ctl' = [ctl EXCEPT ![c] = Resting]
    /\ UNCHANGED <<rs, phase, older, apply, disturbances, disturbed>>

-----------------------------------------------------------------------------
(* The kubelet's reports on the pods. *)

PodRuns(p) ==
    /\ phase[p] = "Pending"
    /\ phase' = [phase EXCEPT ![p] = "Running"]
    /\ UNCHANGED <<rs, older, ctl, apply, disturbances, disturbed>>

-----------------------------------------------------------------------------
(* Disturbances. *)

Disturb ==
    /\ disturbances < MaxDisturbances
    /\ disturbances' = disturbances + 1
    /\ disturbed' = TRUE

\* The kubelet could not start the pod.
PodFails(p) ==
    /\ Disturb
    /\ phase[p] = "Pending"
    /\ phase' = [phase EXCEPT ![p] = "Failed"]
    /\ UNCHANGED <<rs, older, ctl, apply>>

\* mkctl delete pod.
UserDeletesPod(p) ==
    /\ Disturb
    /\ phase[p] \in {"Pending", "Running", "Failed"}
    /\ Forget(p)
    /\ UNCHANGED <<rs, ctl, apply>>

\* UpsertReplicaSet, by mkctl apply or the Deployment controller: it reads the
\* row ...
UpsertReplicaSetRead(d) ==
    /\ Disturb
    /\ ~apply.active
    /\ apply' = [active |-> TRUE, desired |-> d, found |-> rs.exists, status |-> rs.status]
    /\ UNCHANGED <<rs, phase, older, ctl>>

\* ... and writes it back, the status it read included.  The UPDATE of a row
\* that has gone does nothing, the INSERT of one that has come fails.
UpsertReplicaSetWrite ==
    /\ apply.active
    /\ rs' = IF apply.found = rs.exists
             THEN [exists |-> TRUE, desired |-> apply.desired, status |-> apply.status]
             ELSE rs
    /\ apply' = NoApply
    /\ disturbed' = TRUE
    /\ UNCHANGED <<phase, older, ctl, disturbances>>

\* DELETE /replicasets/{name}: the row goes, its pods stay.
DeleteReplicaSet ==
    /\ Disturb
    /\ rs.exists
    /\ rs' = [exists |-> FALSE, desired |-> 0, status |-> NoPods]
    /\ UNCHANGED <<phase, older, ctl, apply>>

-----------------------------------------------------------------------------
ControllerDeletes == \E c \in Controllers, p \in Names : DeleteVictim(c, p)
ControllerCreates == \E c \in Controllers : CreateInsert(c)

Next ==
    \/ \E c \in Controllers :
        \/ ListReplicaSets(c) \/ ListPods(c) \/ ListPodsFails(c)
        \/ CreateStamp(c) \/ CreateInsert(c) \/ CreateFails(c) \/ CreateCollides(c)
        \/ \E p \in Names : DeleteVictim(c, p) \/ DeleteFails(c, p)
        \/ UpdateReplicaSetStatus(c) \/ UpdateStatusFails(c)
    \/ \E p \in Names : PodRuns(p) \/ PodFails(p) \/ UserDeletesPod(p)
    \/ \E d \in ReplicaCounts : UpsertReplicaSetRead(d)
    \/ UpsertReplicaSetWrite
    \/ DeleteReplicaSet

Spec == Init /\ [][Next]_vars

\* The Run loops tick for ever, every HTTP call returns, and a call repeated on
\* every pass neither fails every time nor draws a taken name every time.
Fairness ==
    /\ WF_vars(UpsertReplicaSetWrite)
    /\ \A c \in Controllers :
        /\ WF_vars(ListReplicaSets(c))
        /\ WF_vars(ListPods(c) \/ ListPodsFails(c)) /\ SF_vars(ListPods(c))
        /\ WF_vars(CreateStamp(c) \/ CreateCollides(c))
        /\ WF_vars(CreateInsert(c) \/ CreateFails(c))
        /\ WF_vars(\E p \in Names : DeleteVictim(c, p) \/ DeleteFails(c, p))
        /\ WF_vars(UpdateReplicaSetStatus(c) \/ UpdateStatusFails(c))
        /\ SF_vars(CreateStamp(c)) /\ SF_vars(CreateInsert(c))
        /\ \A p \in Names : SF_vars(DeleteVictim(c, p))
        /\ SF_vars(UpdateReplicaSetStatus(c))

FairSpec == Spec /\ Fairness

-----------------------------------------------------------------------------
(***************************************************************************)
(* "Delete the newest pods first", and only extras: whatever instances run *)
(* side by side, a pod they delete leaves at least spec.replicas older     *)
(* pods alive, as long as nothing but the controllers interfered.  So two  *)
(* instances that both delete extras never undershoot together.            *)
(***************************************************************************)
VictimsAreNewestExtras ==
    [][\A c \in Controllers, p \in Alive :
        DeleteVictim(c, p) /\ ~disturbed
            => Cardinality({q \in Alive : <<q, p>> \in older}) >= rs.desired]_vars

(***************************************************************************)
(* Over-provisioning is bounded: undisturbed, n instances create at most n *)
(* times spec.replicas pods, and a single one never exceeds it.            *)
(***************************************************************************)
OvershootBounded ==
    [][ControllerCreates /\ ~disturbed
        => Cardinality(Alive') <= Cardinality(Controllers) * rs.desired]_vars

(***************************************************************************)
(* Reconciliation converges: when the disturbances end, the number of      *)
(* alive pods becomes spec.replicas for good, however many calls fail on   *)
(* the way.                                                                *)
(***************************************************************************)
Converges == <>[](rs.exists => Cardinality(Alive) = rs.desired)

(***************************************************************************)
(* The status becomes true: although a pass writes the counts it saw before*)
(* it acted, and UpsertReplicaSet may write back an older status, the      *)
(* status shows the real number of replicas in the end.                    *)
(***************************************************************************)
StatusConverges == <>[](rs.exists => rs.status.replicas = Cardinality(Alive))

=============================================================================
