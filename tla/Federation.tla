----------------------------- MODULE Federation -----------------------------
(***************************************************************************)
(* The federation controller with the Cluster and FederatedDeployment API  *)
(* and tables under it, fanning one FederatedDeployment out to the member  *)
(* clusters.  Like every controller of the apiserver it may run twice      *)
(* while leadership changes hands, since a pass in progress is not stopped.*)
(*                                                                         *)
(* A pass works throughout with the clusters it listed at its beginning    *)
(* and with its own probes of them, one HTTP call at a time, some to the   *)
(* host and some to members.  What is not the controllers' doing is a      *)
(* disturbance, failing calls included; their number is bounded.           *)
(***************************************************************************)
EXTENDS Naturals, FiniteSets

CONSTANTS
    Controllers,     \* instances of the federation controller
    Members,         \* member clusters
    NoMember,
    Templates,       \* values of spec.template
    NoTemplate,
    TargetLists,     \* values of spec.clusters
    MaxDisturbances  \* bound on disturbances

ASSUME NoMemberAssumption == NoMember \notin Members /\ IsFiniteSet(Members)
ASSUME TargetListsAssumption == TargetLists # {} /\ TargetLists \subseteq SUBSET Members
ASSUME NoTemplateAssumption == Templates # {} /\ NoTemplate \notin Templates
ASSUME MaxDisturbancesAssumption == MaxDisturbances \in Nat

VARIABLES
    clusters,     \* rows of the clusters table: registered, status.ready
    fd,           \* row of the FederatedDeployment
    apply,        \* POST /federateddeployments, between its two statements
    health,       \* of each member's apiserver
    deployed,     \* template of the Deployment of that name in each member
    pass,         \* per controller: the pass in progress
    disturbances

fedVars == <<clusters, fd, apply, health, deployed, pass, disturbances>>

\* A refusing member answers /healthz and turns down the POST; a hanging one
\* answers /healthz and leaves the POST without an answer.
Healths == {"up", "down", "refusing", "hanging"}

Counts == [clusters : 0 .. Cardinality(Members), ready : 0 .. Cardinality(Members)]
Zero == [clusters |-> 0, ready |-> 0]
FDSpecs == [template : Templates, targets : TargetLists]

NoApply == [active |-> FALSE, spec |-> CHOOSE s \in FDSpecs : TRUE, status |-> Zero]
Resting == [at |-> "idle", listed |-> {}, todo |-> {}, probed |-> NoMember, ok |-> {},
            spec |-> CHOOSE s \in FDSpecs : TRUE, ready |-> 0]

FedTypeOK ==
    /\ clusters \in [Members -> [registered : BOOLEAN, ready : BOOLEAN]]
    /\ fd \in [exists : BOOLEAN, spec : FDSpecs, status : Counts]
    /\ apply \in [active : BOOLEAN, spec : FDSpecs, status : Counts]
    /\ health \in [Members -> Healths]
    /\ deployed \in [Members -> Templates \cup {NoTemplate}]
    /\ pass \in [Controllers ->
            [at : {"idle", "probing", "pushing"}, listed : SUBSET Members,
             todo : SUBSET Members, probed : Members \cup {NoMember},
             ok : SUBSET Members, spec : FDSpecs, ready : 0 .. Cardinality(Members)]]
    /\ disturbances \in 0 .. MaxDisturbances

RegisteredClusters == {m \in Members : clusters[m].registered}

\* Clusters are registered and a FederatedDeployment is applied.
FedInit ==
    /\ clusters = [m \in Members |-> [registered |-> TRUE, ready |-> FALSE]]
    /\ \E targets \in TargetLists :
        fd = [exists |-> TRUE, status |-> Zero,
              spec |-> [template |-> CHOOSE t \in Templates : TRUE, targets |-> targets]]
    /\ apply = NoApply
    /\ health = [m \in Members |-> "up"]
    /\ deployed = [m \in Members |-> NoTemplate]
    /\ pass = [c \in Controllers |-> Resting]
    /\ disturbances = 0

Disturb == disturbances < MaxDisturbances /\ disturbances' = disturbances + 1

-----------------------------------------------------------------------------
(* reconcile *)

\* ListClusters.  (When it fails the pass is over before it began.)
ListClusters(c) ==
    /\ pass[c].at = "idle"
    /\ pass' = [pass EXCEPT ![c] = [Resting EXCEPT !.at = "probing",
                                                   !.listed = RegisteredClusters,
                                                   !.todo = RegisteredClusters]]
    /\ UNCHANGED <<clusters, fd, apply, health, deployed, disturbances>>

\* probe: GET /healthz.  The list is in the order of created_at, which nothing
\* depends on.
Probe(c, m) ==
    /\ pass[c].at = "probing"
    /\ pass[c].probed = NoMember
    /\ m \in pass[c].todo
    /\ pass' = [pass EXCEPT ![c].probed = m,
                            ![c].ok = IF health[m] = "down" THEN @ ELSE @ \cup {m}]
    /\ UNCHANGED <<clusters, fd, apply, health, deployed, disturbances>>

\* The probe of a healthy member times out.
ProbeTimesOut(c, m) ==
    /\ Disturb
    /\ pass[c].at = "probing"
    /\ pass[c].probed = NoMember
    /\ m \in pass[c].todo
    /\ pass' = [pass EXCEPT ![c].probed = m]
    /\ UNCHANGED <<clusters, fd, apply, health, deployed>>

StatusWritten(c) ==
    pass' = [pass EXCEPT ![c].probed = NoMember, ![c].todo = @ \ {pass[c].probed}]

\* Mutant: only good news is written.
UpdateClusterStatus_ReadyOnly(c) ==
    LET m == pass[c].probed
    IN /\ m # NoMember
       /\ StatusWritten(c)
       /\ clusters' = IF clusters[m].registered /\ m \in pass[c].ok
                      THEN [clusters EXCEPT ![m].ready = TRUE] ELSE clusters
       /\ UNCHANGED <<fd, apply, health, deployed, disturbances>>

\* UpdateClusterStatus: nothing when the cluster is no longer registered.
UpdateClusterStatus(c) ==
    LET m == pass[c].probed
    IN /\ m # NoMember
       /\ StatusWritten(c)
       /\ clusters' = IF clusters[m].registered
                      THEN [clusters EXCEPT ![m].ready = (m \in pass[c].ok)] ELSE clusters
       /\ UNCHANGED <<fd, apply, health, deployed, disturbances>>

\* The error is logged and the pass goes on.
UpdateClusterStatusFails(c) ==
    /\ Disturb
    /\ pass[c].probed # NoMember
    /\ StatusWritten(c)
    /\ UNCHANGED <<clusters, fd, apply, health, deployed>>

\* Mutant: an empty list selects nothing.
SelectClusters_EmptyIsNone(spec, all) == spec.targets \cap all

\* selectClusters: an empty list selects every cluster.
SelectClusters(spec, all) == IF spec.targets = {} THEN all ELSE spec.targets \cap all

Probed(c) == pass[c].at = "probing" /\ pass[c].todo = {}

\* ListFederatedDeployments: the targets that answered the probe of this pass.
ListFederatedDeployments(c) ==
    /\ Probed(c)
    /\ pass' = [pass EXCEPT ![c] =
                 IF fd.exists
                 THEN [@ EXCEPT !.at = "pushing", !.spec = fd.spec,
                                !.todo = SelectClusters(fd.spec, pass[c].listed)
                                          \cap pass[c].ok]
                 ELSE Resting]
    /\ UNCHANGED <<clusters, fd, apply, health, deployed, disturbances>>

ListFederatedDeploymentsFails(c) ==
    /\ Disturb
    /\ Probed(c)
    /\ pass' = [pass EXCEPT ![c] = Resting]
    /\ UNCHANGED <<clusters, fd, apply, health, deployed>>

\* Mutants: a push that failed counts; the first failure ends the pass.
Push_CountsAll(c, m) ==
    /\ pass[c].at = "pushing" /\ m \in pass[c].todo /\ health[m] # "hanging"
    /\ deployed' = IF health[m] = "up" THEN [deployed EXCEPT ![m] = pass[c].spec.template]
                   ELSE deployed
    /\ pass' = [pass EXCEPT ![c].todo = @ \ {m}, ![c].ready = @ + 1]
    /\ UNCHANGED <<clusters, fd, apply, health, disturbances>>
Push_StopsAtFailure(c, m) ==
    /\ pass[c].at = "pushing" /\ m \in pass[c].todo /\ health[m] # "hanging"
    /\ IF health[m] = "up"
       THEN /\ deployed' = [deployed EXCEPT ![m] = pass[c].spec.template]
            /\ pass' = [pass EXCEPT ![c].todo = @ \ {m}, ![c].ready = @ + 1]
       ELSE /\ deployed' = deployed
            /\ pass' = [pass EXCEPT ![c].todo = {}]
    /\ UNCHANGED <<clusters, fd, apply, health, disturbances>>

\* CreateDeployment on the member, an upsert there; a failure is logged and the
\* next member is tried.  The client has no timeout: while the member hangs the
\* call does not return.
Push(c, m) ==
    /\ pass[c].at = "pushing"
    /\ m \in pass[c].todo
    /\ health[m] # "hanging"
    /\ deployed' = IF health[m] = "up" THEN [deployed EXCEPT ![m] = pass[c].spec.template]
                   ELSE deployed
    /\ pass' = [pass EXCEPT ![c].todo = @ \ {m},
                            ![c].ready = IF health[m] = "up" THEN @ + 1 ELSE @]
    /\ UNCHANGED <<clusters, fd, apply, health, disturbances>>

\* The member does it and its answer is lost.
PushAnswerLost(c, m) ==
    /\ Disturb
    /\ pass[c].at = "pushing"
    /\ m \in pass[c].todo
    /\ health[m] = "up"
    /\ deployed' = [deployed EXCEPT ![m] = pass[c].spec.template]
    /\ pass' = [pass EXCEPT ![c].todo = @ \ {m}]
    /\ UNCHANGED <<clusters, fd, apply, health>>

Pushed(c) == pass[c].at = "pushing" /\ pass[c].todo = {}

\* Mutant: the clusters are those of the row as it is now.
UpdateFederatedDeploymentStatus_Fresh(c) ==
    /\ Pushed(c)
    /\ fd' = IF fd.exists
             THEN [fd EXCEPT !.status =
                    [clusters |-> Cardinality(SelectClusters(fd.spec, RegisteredClusters)),
                     ready |-> pass[c].ready]]
             ELSE fd
    /\ pass' = [pass EXCEPT ![c] = Resting]
    /\ UNCHANGED <<clusters, apply, health, deployed, disturbances>>

\* UpdateFederatedDeploymentStatus: nothing when the row is gone.
UpdateFederatedDeploymentStatus(c) ==
    /\ Pushed(c)
    /\ fd' = IF fd.exists
             THEN [fd EXCEPT !.status =
                    [clusters |-> Cardinality(SelectClusters(pass[c].spec, pass[c].listed)),
                     ready |-> pass[c].ready]]
             ELSE fd
    /\ pass' = [pass EXCEPT ![c] = Resting]
    /\ UNCHANGED <<clusters, apply, health, deployed, disturbances>>

UpdateFederatedDeploymentStatusFails(c) ==
    /\ Disturb
    /\ Pushed(c)
    /\ pass' = [pass EXCEPT ![c] = Resting]
    /\ UNCHANGED <<clusters, fd, apply, health, deployed>>

\* The apiserver that runs the controller dies; its controllers start afresh.
Crash(c) ==
    /\ Disturb
    /\ pass[c].at # "idle"
    /\ pass' = [pass EXCEPT ![c] = Resting]
    /\ UNCHANGED <<clusters, fd, apply, health, deployed>>

-----------------------------------------------------------------------------
(* The API of the host, and the members. *)

\* POST /clusters: UpsertCluster writes the status of the body too.
UpsertCluster(m, ready) ==
    /\ Disturb
    /\ clusters' = [clusters EXCEPT ![m] = [registered |-> TRUE, ready |-> ready]]
    /\ UNCHANGED <<fd, apply, health, deployed, pass>>

DeleteCluster(m) ==
    /\ Disturb
    /\ m \in RegisteredClusters
    /\ clusters' = [clusters EXCEPT ![m] = [registered |-> FALSE, ready |-> FALSE]]
    /\ UNCHANGED <<fd, apply, health, deployed, pass>>

\* POST /federateddeployments: the status of the row, if it could be read.
UpsertFederatedDeployment(spec) ==
    /\ Disturb
    /\ ~apply.active
    /\ \E read \in BOOLEAN :
        apply' = [active |-> TRUE, spec |-> spec,
                  status |-> IF fd.exists /\ read THEN fd.status ELSE Zero]
    /\ UNCHANGED <<clusters, fd, health, deployed, pass>>

\* The INSERT or UPDATE that follows.
WriteFederatedDeployment ==
    /\ apply.active
    /\ fd' = [exists |-> TRUE, spec |-> apply.spec, status |-> apply.status]
    /\ apply' = NoApply
    /\ UNCHANGED <<clusters, health, deployed, pass, disturbances>>

DeleteFederatedDeployment ==
    /\ Disturb
    /\ fd.exists
    /\ fd' = [fd EXCEPT !.exists = FALSE, !.status = Zero]
    /\ UNCHANGED <<clusters, apply, health, deployed, pass>>

\* A member's apiserver stops, recovers, refuses or hangs.
HealthChanges(m, h) ==
    /\ Disturb
    /\ health[m] # h
    /\ health' = [health EXCEPT ![m] = h]
    /\ UNCHANGED <<clusters, fd, apply, deployed, pass>>

\* A hanging member may recover at any time, and need not.
HangEnds(m) ==
    /\ health[m] = "hanging"
    /\ health' = [health EXCEPT ![m] = "up"]
    /\ UNCHANGED <<clusters, fd, apply, deployed, pass, disturbances>>

\* Somebody edits or deletes the Deployment in the member.
MemberEdit(m, t) ==
    /\ Disturb
    /\ deployed[m] # t
    /\ deployed' = [deployed EXCEPT ![m] = t]
    /\ UNCHANGED <<clusters, fd, apply, health, pass>>

-----------------------------------------------------------------------------
FedNext ==
    \/ \E c \in Controllers :
        \/ ListClusters(c)
        \/ \E m \in Members : Probe(c, m) \/ ProbeTimesOut(c, m)
        \/ UpdateClusterStatus(c) \/ UpdateClusterStatusFails(c)
        \/ ListFederatedDeployments(c) \/ ListFederatedDeploymentsFails(c)
        \/ \E m \in Members : Push(c, m) \/ PushAnswerLost(c, m)
        \/ UpdateFederatedDeploymentStatus(c) \/ UpdateFederatedDeploymentStatusFails(c)
        \/ Crash(c)
    \/ \E m \in Members :
        \/ \E ready \in BOOLEAN : UpsertCluster(m, ready)
        \/ DeleteCluster(m)
        \/ \E h \in Healths : HealthChanges(m, h)
        \/ HangEnds(m)
        \/ \E t \in Templates \cup {NoTemplate} : MemberEdit(m, t)
    \/ \E spec \in FDSpecs : UpsertFederatedDeployment(spec)
    \/ WriteFederatedDeployment
    \/ DeleteFederatedDeployment

FedSpec == FedInit /\ [][FedNext]_fedVars

\* The ticker goes on and every call that is answered returns; nothing is asked
\* of a call to a member that hangs.
FedFairness ==
    /\ WF_fedVars(WriteFederatedDeployment)
    /\ \A c \in Controllers :
        WF_fedVars(\/ ListClusters(c) \/ (\E m \in Members : Probe(c, m))
                   \/ UpdateClusterStatus(c) \/ ListFederatedDeployments(c)
                   \/ (\E m \in Members : Push(c, m)) \/ UpdateFederatedDeploymentStatus(c))

FairFedSpec == FedSpec /\ FedFairness

-----------------------------------------------------------------------------
NoneHangs == \A m \in Members : health[m] # "hanging"

\* "every registered Cluster (or a named subset)".
Selected == {m \in RegisteredClusters : fd.spec.targets # {} => m \in fd.spec.targets}

(***************************************************************************)
(* The status never claims more clusters in sync than it counts: although  *)
(* the spec, the list and the pushes of a pass are of different ages, two  *)
(* passes overlap, answers are lost, and an apply writes back a status it  *)
(* read earlier.                                                           *)
(***************************************************************************)
ReadyWithinClusters == fd.status.ready <= fd.status.clusters

(***************************************************************************)
(* A FederatedDeployment reaches its clusters: when things have quietened  *)
(* down, every registered cluster it selects that accepts Deployments has  *)
(* its template, whichever controllers, probes, pushes and status writes   *)
(* failed, overlapped or were repeated before, and whatever the other      *)
(* members do - unless one of them hangs: a call without a timeout holds   *)
(* up the whole pass, and the clusters after it.                           *)
(***************************************************************************)
FansOut ==
    <>[]NoneHangs =>
        <>[](fd.exists =>
                \A m \in Selected : health[m] = "up" => deployed[m] = fd.spec.template)

(***************************************************************************)
(* "Status reports how many clusters are in sync": the counts settle to    *)
(* the number of selected clusters and of those among them that took the   *)
(* template, although an apply writes back a status it read earlier and a  *)
(* stale pass may write its counts into a row created since.               *)
(***************************************************************************)
StatusCountsSync ==
    <>[]NoneHangs =>
        <>[](fd.exists =>
                fd.status = [clusters |-> Cardinality(Selected),
                             ready |-> Cardinality({m \in Selected : health[m] = "up"})])

(***************************************************************************)
(* Ready comes to say whether the cluster answers /healthz: also after a   *)
(* registration repeated with a status of its own, and with two            *)
(* controllers writing probes of different ages.                           *)
(***************************************************************************)
ReadyFollowsProbe ==
    <>[]NoneHangs =>
        <>[](\A m \in RegisteredClusters : clusters[m].ready <=> health[m] # "down")

=============================================================================
