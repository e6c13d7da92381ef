----------------------------- MODULE Autoscaling -----------------------------
(***************************************************************************)
(* One Deployment, the ReplicaSet the Deployment controller keeps for it,  *)
(* and the HorizontalPodAutoscaler that scales it, with the store          *)
(* operations and handlers they go through.                                *)
(*                                                                         *)
(* Nobody owns the Deployment row.  mkctl apply and the autoscaler both    *)
(* POST a whole Deployment, each from what it last knew; UpsertDeployment  *)
(* reads the row before it writes it; the autoscaler keeps the time of its *)
(* last scaling in the status of the HPA, which it writes at the end of a  *)
(* pass and reads at the beginning of the next one.                        *)
(*                                                                         *)
(* Only the time since the last scaling matters, and only until the        *)
(* cooldown is over, so LastScaleTime is modelled as an age that Tick      *)
(* advances up to Cooldown; a zero LastScaleTime is as good as an old one. *)
(* What users, kubelets and the load do is a disturbance, and the number   *)
(* of disturbances is bounded.                                             *)
(***************************************************************************)
EXTENDS Integers

CONSTANTS
    Autoscalers,     \* instances of the HPA controller
    User,            \* mkctl
    Templates,       \* values of spec.template
    ReplicaCounts,   \* values of spec.replicas a user asks for
    HpaSpecs,        \* [min, max] a user asks for
    Loads,           \* averages of CPU use that are measured
    Target,          \* targetAverageUtilization
    Cooldown,        \* CooldownDown, in units of Tick
    Reports,         \* values of a ReplicaSet's status
    MaxDisturbances  \* bound on disturbances

ASSUME UserAssumption == User \notin Autoscalers
ASSUME TemplatesAssumption == Templates # {}
ASSUME ReplicaCountsAssumption == ReplicaCounts \subseteq Nat
ASSUME HpaSpecsAssumption == HpaSpecs \subseteq [min : Int, max : Int]
ASSUME LoadsAssumption == Loads \subseteq Nat
ASSUME TargetAssumption == Target \in Nat \ {0}
ASSUME CooldownAssumption == Cooldown \in Nat
ASSUME ReportsAssumption == Reports \subseteq Nat /\ 0 \in Reports
ASSUME MaxDisturbancesAssumption == MaxDisturbances \in Nat

VARIABLES
    dep,          \* the deployments row
    rs,           \* the row of its ReplicaSet
    hpa,          \* the hpas row: bounds and age of LastScaleTime
    load,         \* average CPU use of the pods
    posts,        \* POST /deployments in progress, per caller
    auto,         \* per autoscaler: the pass in progress
    deploy,       \* the pass of the Deployment controller in progress
    hpaApply,     \* POST of the HPA in progress
    sinceScale,   \* history: time since an autoscaler last wrote the Deployment
    statusLost,   \* history: some write of the HPA's status was lost
    disturbances

vars == <<dep, rs, hpa, load, posts, auto, deploy, hpaApply, sinceScale, statusLost,
          disturbances>>

Ages == 0 .. Cooldown

Row == [exists : BOOLEAN, replicas : Nat, template : Templates, status : Reports]

HpaRow == [exists : BOOLEAN, min : Nat \ {0}, max : Nat \ {0}, age : Ages]

\* A row as a POST without status creates it.
Fresh(n, t) == [exists |-> TRUE, replicas |-> n, template |-> t, status |-> 0]

NoHpa == [exists |-> FALSE, min |-> 1, max |-> 1, age |-> Cooldown]

\* body: what the caller sent; found: what GetDeployment said of it.
Post(stage, body, found) == [at |-> stage, body |-> body, found |-> found]

\* What an idle process holds: its local variables are gone.
AnyRow == Fresh(0, CHOOSE t \in Templates : TRUE)
NoPost == Post("none", AnyRow, FALSE)
NoPass == [at |-> "idle", want |-> AnyRow, status |-> 0]

TypeOK ==
    /\ dep \in Row /\ rs \in Row
    /\ hpa \in HpaRow
    /\ load \in Loads
    /\ posts \in [Autoscalers \cup {User} ->
                    [at : {"none", "sent", "read"}, body : Row, found : BOOLEAN]]
    /\ auto \in [Autoscalers ->
                    [at : {"idle", "listed", "measured", "posting", "reporting"},
                     min : Nat, max : Nat, age : Ages, avg : Nat, current : Nat]]
    /\ deploy \in [at : {"idle", "listed", "posting", "posted", "mirroring"},
                   want : Row, status : Reports]
    /\ hpaApply \in [active : BOOLEAN, row : HpaRow]
    /\ sinceScale \in Ages
    /\ statusLost \in BOOLEAN
    /\ disturbances \in 0 .. MaxDisturbances

\* Mutant: minReplicas keeps a zero.
MinOrDefault_Zero(n) == n

MinOrDefault(n) == IF n <= 0 THEN 1 ELSE n

\* What handleHPAs accepts, and the row it becomes.
Valid(spec) == spec.max >= MinOrDefault(spec.min)

Applied(spec, age) ==
    [exists |-> TRUE, min |-> MinOrDefault(spec.min), max |-> spec.max, age |-> age]

NoApply == [active |-> FALSE, row |-> NoHpa]

Resting == [at |-> "idle", min |-> 1, max |-> 1, age |-> Cooldown, avg |-> 0, current |-> 0]

Init ==
    /\ \E n \in ReplicaCounts, t \in Templates :
        /\ dep = Fresh(n, t)
        /\ rs = [Fresh(0, t) EXCEPT !.exists = FALSE]
    /\ hpa \in {NoHpa} \cup {Applied(spec, Cooldown) : spec \in {s \in HpaSpecs : Valid(s)}}
    /\ load \in Loads
    /\ posts = [x \in Autoscalers \cup {User} |-> NoPost]
    /\ auto = [c \in Autoscalers |-> Resting]
    /\ deploy = NoPass
    /\ hpaApply = NoApply
    /\ sinceScale = Cooldown
    /\ statusLost = FALSE
    /\ disturbances = 0

Disturb ==
    /\ disturbances < MaxDisturbances
    /\ disturbances' = disturbances + 1

Older(age) == IF age < Cooldown THEN age + 1 ELSE age

\* Time passes.
Tick ==
    /\ hpa' = [hpa EXCEPT !.age = Older(@)]
    /\ auto' = [c \in Autoscalers |-> [auto[c] EXCEPT !.age = Older(@)]]
    /\ hpaApply' = [hpaApply EXCEPT !.row.age = Older(@)]
    /\ sinceScale' = Older(sinceScale)
    /\ UNCHANGED <<dep, rs, load, posts, deploy, statusLost, disturbances>>

-----------------------------------------------------------------------------
(* POST /deployments. *)

\* UpsertDeployment reads the row; if there is one, its status replaces the
\* status of the body.
PostRead(x) ==
    /\ posts[x].at = "sent"
    /\ posts' = [posts EXCEPT ![x] =
                    Post("read",
                         IF dep.exists THEN [@.body EXCEPT !.status = dep.status] ELSE @.body,
                         dep.exists)]
    /\ UNCHANGED <<dep, rs, hpa, load, auto, deploy, hpaApply, sinceScale, statusLost,
                   disturbances>>

\* The statement that ends it takes effect: an UPDATE needs the row to be there
\* still, an INSERT needs it to be absent still.
Effective(x) == posts[x].found = dep.exists

\* ... and it is answered with success: an UPDATE of nothing is one too.
Succeeds(x) == posts[x].found \/ ~dep.exists

PostWritten(x) ==
    /\ posts[x].at = "read"
    /\ dep' = IF Effective(x) THEN posts[x].body ELSE dep
    /\ posts' = [posts EXCEPT ![x] = NoPost]

\* mkctl apply -f deployment.yaml.
UserApplies(n, t) ==
    /\ Disturb
    /\ posts[User].at = "none"
    /\ posts' = [posts EXCEPT ![User] = Post("sent", Fresh(n, t), FALSE)]
    /\ UNCHANGED <<dep, rs, hpa, load, auto, deploy, hpaApply, sinceScale, statusLost>>

UserPostWrite ==
    /\ PostWritten(User)
    /\ UNCHANGED <<rs, hpa, load, auto, deploy, hpaApply, sinceScale, statusLost,
                   disturbances>>

\* DELETE /deployments/{name}; the ReplicaSet stays.
DeleteDeployment ==
    /\ Disturb
    /\ dep.exists
    /\ dep' = [dep EXCEPT !.exists = FALSE, !.replicas = 0, !.status = 0]
    /\ UNCHANGED <<rs, hpa, load, posts, auto, deploy, hpaApply, sinceScale, statusLost>>

-----------------------------------------------------------------------------
(* The HPA controller: reconcileAll and reconcileOne. *)

\* ListHPAs.
HpaList(c) ==
    /\ auto[c].at = "idle"
    /\ hpa.exists
    /\ auto' = [auto EXCEPT ![c] = [Resting EXCEPT !.at = "listed", !.min = hpa.min,
                                                   !.max = hpa.max, !.age = hpa.age]]
    /\ UNCHANGED <<dep, rs, hpa, load, posts, deploy, hpaApply, sinceScale, statusLost,
                   disturbances>>

\* fetchMetrics, and averageCPU of the pods it returned.
HpaMeasure(c) ==
    /\ auto[c].at = "listed"
    /\ auto' = [auto EXCEPT ![c].at = "measured", ![c].avg = load]
    /\ UNCHANGED <<dep, rs, hpa, load, posts, deploy, hpaApply, sinceScale, statusLost,
                   disturbances>>

\* The metrics-server does not answer, or knows none of the pods: zero usage.
HpaUnmeasured(c) ==
    /\ Disturb
    /\ auto[c].at = "listed"
    /\ auto' = [auto EXCEPT ![c].at = "measured", ![c].avg = 0]
    /\ UNCHANGED <<dep, rs, hpa, load, posts, deploy, hpaApply, sinceScale, statusLost>>

Clamp(n, min, max) == IF n < min THEN min ELSE IF n > max THEN max ELSE n

\* ceil(current * avg / target), or the minimum when there is no usage at all;
\* clamped.
Desired(current, avg, min, max) ==
    LET scaled == (current * avg + Target - 1) \div Target
        wanted == IF current > 0 /\ avg > 0 THEN scaled
                  ELSE IF avg = 0 /\ current > min THEN min ELSE current
    IN Clamp(wanted, min, max)

\* Mutant: an old or absent LastScaleTime counts as cooling too.
Cooling_NeverOver(current, desired, age) == desired < current /\ age <= Cooldown

\* "scale-down cooldown": LastScaleTime, as listed, is less than CooldownDown
\* ago.
Cooling(current, desired, age) == desired < current /\ age < Cooldown

\* getDeployment, ListPods and the decision: scale, or only report.  Without the
\* Deployment the pass ends.
HpaDecide(c) ==
    /\ auto[c].at = "measured"
    /\ LET desired == Desired(dep.replicas, auto[c].avg, auto[c].min, auto[c].max)
           scale == /\ dep.exists
                    /\ desired # dep.replicas
                    /\ ~Cooling(dep.replicas, desired, auto[c].age)
           next == [auto[c] EXCEPT !.at = IF scale THEN "posting" ELSE "reporting",
                                   !.current = dep.replicas]
       IN /\ auto' = [auto EXCEPT ![c] = IF dep.exists THEN next ELSE Resting]
          /\ posts' = IF scale
                      THEN [posts EXCEPT ![c] =
                                Post("sent", [dep EXCEPT !.replicas = desired], FALSE)]
                      ELSE posts
    /\ UNCHANGED <<dep, rs, hpa, load, deploy, hpaApply, sinceScale, statusLost, disturbances>>

\* ListDeployments or ListPods fails: the pass ends.
HpaDecideFails(c) ==
    /\ auto[c].at = "measured"
    /\ auto' = [auto EXCEPT ![c] = Resting]
    /\ UNCHANGED <<dep, rs, hpa, load, posts, deploy, hpaApply, sinceScale, statusLost,
                   disturbances>>

\* The end of scaleDeployment's POST, which sent the whole Deployment as listed
\* with another replica count.  On success LastScaleTime is now.
HpaPostWrite(c) ==
    /\ PostWritten(c)
    /\ auto' = [auto EXCEPT ![c].at = "reporting",
                            ![c].age = IF Succeeds(c) THEN 0 ELSE @]
    /\ sinceScale' = IF Effective(c) THEN 0 ELSE sinceScale
    /\ UNCHANGED <<rs, hpa, load, deploy, hpaApply, statusLost, disturbances>>

\* The POST fails before it writes (a database error, an admission webhook).
HpaPostFails(c) ==
    /\ posts[c].at = "sent"
    /\ posts' = [posts EXCEPT ![c] = NoPost]
    /\ auto' = [auto EXCEPT ![c].at = "reporting"]
    /\ UNCHANGED <<dep, rs, hpa, load, deploy, hpaApply, sinceScale, statusLost, disturbances>>

\* Mutant: LastScaleTime is not written.
HpaReport_NoTime(c) ==
    /\ auto[c].at = "reporting"
    /\ auto' = [auto EXCEPT ![c] = Resting]
    /\ UNCHANGED <<dep, rs, hpa, load, posts, deploy, hpaApply, sinceScale, statusLost,
                   disturbances>>

\* UpdateHPAStatus; the pass is over.
HpaReport(c) ==
    /\ auto[c].at = "reporting"
    /\ hpa' = IF hpa.exists THEN [hpa EXCEPT !.age = auto[c].age] ELSE hpa
    /\ auto' = [auto EXCEPT ![c] = Resting]
    /\ UNCHANGED <<dep, rs, load, posts, deploy, hpaApply, sinceScale, statusLost,
                   disturbances>>

\* The PUT is lost; its error is ignored.
HpaReportFails(c) ==
    /\ auto[c].at = "reporting"
    /\ auto' = [auto EXCEPT ![c] = Resting]
    /\ statusLost' = TRUE
    /\ UNCHANGED <<dep, rs, hpa, load, posts, deploy, hpaApply, sinceScale, disturbances>>

-----------------------------------------------------------------------------
(* POST and DELETE of the HPA. *)

\* handleHPAs checks the bounds; UpsertHPA reads the row for its status.  Any
\* error of that read, not only that there is no row, leaves the status empty ...
HpaApplyRead(spec) ==
    /\ Disturb
    /\ ~hpaApply.active
    /\ Valid(spec)
    /\ \E age \in {Cooldown} \cup (IF hpa.exists THEN {hpa.age} ELSE {}) :
        hpaApply' = [active |-> TRUE, row |-> Applied(spec, age)]
    /\ UNCHANGED <<dep, rs, hpa, load, posts, auto, deploy, sinceScale, statusLost>>

\* ... and inserts or replaces it.
HpaApplyWrite ==
    /\ hpaApply.active
    /\ hpa' = hpaApply.row
    /\ hpaApply' = NoApply
    /\ statusLost' = (statusLost \/ (hpa.exists /\ hpa.age # hpaApply.row.age))
    /\ UNCHANGED <<dep, rs, load, posts, auto, deploy, sinceScale, disturbances>>

\* DELETE: the status goes with the row.
DeleteHpa ==
    /\ Disturb
    /\ hpa.exists
    /\ hpa' = NoHpa
    /\ statusLost' = TRUE
    /\ UNCHANGED <<dep, rs, load, posts, auto, deploy, hpaApply, sinceScale>>

-----------------------------------------------------------------------------
(* The Deployment controller: reconcileAll and reconcileOne. *)

\* ListDeployments.
DeployList ==
    /\ deploy.at = "idle"
    /\ dep.exists
    /\ deploy' = [deploy EXCEPT !.at = "listed", !.want = [dep EXCEPT !.status = 0]]
    /\ UNCHANGED <<dep, rs, hpa, load, posts, auto, hpaApply, sinceScale, statusLost,
                   disturbances>>

\* Mutant: a ReplicaSet that exists is left alone.
NeedsUpsert_OnlyMissing == ~rs.exists

\* No ReplicaSet, or one with another replica count.
NeedsUpsert == ~rs.exists \/ rs.replicas # deploy.want.replicas

\* GetReplicaSet, and whether to upsert: any error is taken for "not found".
DeployCompare ==
    /\ deploy.at = "listed"
    /\ \/ ~NeedsUpsert /\ deploy' = [deploy EXCEPT !.at = "posted"]
       \/ deploy' = [deploy EXCEPT !.at = "posting"]
    /\ UNCHANGED <<dep, rs, hpa, load, posts, auto, hpaApply, sinceScale, statusLost,
                   disturbances>>

\* CreateReplicaSet: an upsert that keeps the status of the row.
DeployUpsert ==
    /\ deploy.at = "posting"
    /\ rs' = [deploy.want EXCEPT !.status = IF rs.exists THEN rs.status ELSE 0]
    /\ deploy' = [deploy EXCEPT !.at = "posted"]
    /\ UNCHANGED <<dep, hpa, load, posts, auto, hpaApply, sinceScale, statusLost,
                   disturbances>>

\* It fails: the pass is over.
DeployUpsertFails ==
    /\ deploy.at = "posting"
    /\ deploy' = NoPass
    /\ UNCHANGED <<dep, rs, hpa, load, posts, auto, hpaApply, sinceScale, statusLost,
                   disturbances>>

\* GetReplicaSet again, for its status; if that fails the pass is over.
DeployReadStatus ==
    /\ deploy.at = "posted"
    /\ \/ rs.exists /\ deploy' = [deploy EXCEPT !.at = "mirroring", !.status = rs.status]
       \/ deploy' = NoPass
    /\ UNCHANGED <<dep, rs, hpa, load, posts, auto, hpaApply, sinceScale, statusLost,
                   disturbances>>

\* UpdateDeploymentStatus.
Mirrored(row) == IF row.exists THEN [row EXCEPT !.status = deploy.status] ELSE row

DeployMirror ==
    /\ deploy.at = "mirroring"
    /\ dep' = Mirrored(dep)
    /\ deploy' = NoPass
    /\ UNCHANGED <<rs, hpa, load, posts, auto, hpaApply, sinceScale, statusLost,
                   disturbances>>

\* The PUT is lost; its error is ignored.
DeployMirrorFails ==
    /\ deploy.at = "mirroring"
    /\ deploy' = NoPass
    /\ UNCHANGED <<dep, rs, hpa, load, posts, auto, hpaApply, sinceScale, statusLost,
                   disturbances>>

-----------------------------------------------------------------------------
(* What goes on around them. *)

\* mkctl delete rs.
ReplicaSetDeleted ==
    /\ Disturb
    /\ rs.exists
    /\ rs' = [rs EXCEPT !.exists = FALSE, !.replicas = 0, !.status = 0]
    /\ UNCHANGED <<dep, hpa, load, posts, auto, deploy, hpaApply, sinceScale, statusLost>>

\* The ReplicaSet controller reports.
ReplicaSetReports(n) ==
    /\ Disturb
    /\ rs.exists
    /\ rs' = [rs EXCEPT !.status = n]
    /\ UNCHANGED <<dep, hpa, load, posts, auto, deploy, hpaApply, sinceScale, statusLost>>

LoadChanges(n) ==
    /\ Disturb
    /\ load' = n
    /\ UNCHANGED <<dep, rs, hpa, posts, auto, deploy, hpaApply, sinceScale, statusLost>>

-----------------------------------------------------------------------------
Next ==
    \/ Tick
    \/ \E x \in Autoscalers \cup {User} : PostRead(x)
    \/ \E n \in ReplicaCounts, t \in Templates : UserApplies(n, t)
    \/ UserPostWrite \/ DeleteDeployment
    \/ \E c \in Autoscalers :
        \/ HpaList(c) \/ HpaMeasure(c) \/ HpaUnmeasured(c) \/ HpaDecide(c)
        \/ HpaDecideFails(c)
        \/ HpaPostWrite(c) \/ HpaPostFails(c) \/ HpaReport(c) \/ HpaReportFails(c)
    \/ \E spec \in HpaSpecs : HpaApplyRead(spec)
    \/ HpaApplyWrite \/ DeleteHpa
    \/ DeployList \/ DeployCompare \/ DeployUpsert \/ DeployUpsertFails
    \/ DeployReadStatus \/ DeployMirror \/ DeployMirrorFails
    \/ ReplicaSetDeleted
    \/ \E n \in Reports : ReplicaSetReports(n)
    \/ \E n \in Loads : LoadChanges(n)

Spec == Init /\ [][Next]_vars

\* Time passes, the Run loops tick for ever, handlers finish, and a call
\* repeated on every pass does not fail every time.
Fairness ==
    /\ WF_vars(Tick)
    /\ WF_vars(PostRead(User)) /\ WF_vars(UserPostWrite) /\ WF_vars(HpaApplyWrite)
    /\ \A c \in Autoscalers :
        /\ WF_vars(HpaList(c)) /\ WF_vars(HpaMeasure(c))
        /\ WF_vars(HpaDecide(c) \/ HpaDecideFails(c)) /\ SF_vars(HpaDecide(c))
        /\ WF_vars(PostRead(c) \/ HpaPostFails(c)) /\ SF_vars(PostRead(c))
        /\ WF_vars(HpaPostWrite(c))
        /\ WF_vars(HpaReport(c) \/ HpaReportFails(c)) /\ SF_vars(HpaReport(c))
    /\ WF_vars(DeployList) /\ WF_vars(DeployCompare)
    /\ WF_vars(DeployUpsert \/ DeployUpsertFails) /\ SF_vars(DeployUpsert)
    /\ WF_vars(DeployReadStatus)
    /\ SF_vars(DeployReadStatus /\ deploy'.at = "mirroring")
    /\ WF_vars(DeployMirror \/ DeployMirrorFails) /\ SF_vars(DeployMirror)

FairSpec == Spec /\ Fairness

-----------------------------------------------------------------------------
\* An autoscaler's POST lowers the replica count it listed, for real.
ScalesDown(c) ==
    HpaPostWrite(c) /\ Effective(c) /\ posts[c].body.replicas < auto[c].current

(***************************************************************************)
(* "Apply a simple scale-down cooldown to avoid flapping": no scale-down   *)
(* within CooldownDown of the autoscaler's previous scaling, although the  *)
(* time of that scaling travels through the HPA's status, as long as a     *)
(* single autoscaler is at work and no status write was lost.              *)
(***************************************************************************)
CooldownKept ==
    [][\A c \in Autoscalers : ScalesDown(c) /\ ~statusLost => sinceScale = Cooldown]_vars

(***************************************************************************)
(* Whatever an autoscaler writes is within the bounds of the HPA it listed *)
(* at the beginning of its pass, and is never zero: also when nothing was  *)
(* measured, when minReplicas was left out, and when HPA and Deployment    *)
(* were replaced or deleted since.                                         *)
(***************************************************************************)
ScalesWithinBounds ==
    [][\A c \in Autoscalers :
        HpaPostWrite(c) /\ Effective(c) =>
            /\ dep'.replicas > 0
            /\ auto[c].min <= dep'.replicas /\ dep'.replicas <= auto[c].max]_vars

(***************************************************************************)
(* The autoscaler brings the Deployment within the bounds of the HPA and   *)
(* keeps it there, whatever a user applies.                                *)
(***************************************************************************)
BoundsConverge ==
    <>[](dep.exists /\ hpa.exists => dep.replicas \in hpa.min .. hpa.max)

(***************************************************************************)
(* The ReplicaSet follows the Deployment: it exists and wants the same     *)
(* number of replicas in the end, although the controller compares and     *)
(* writes what it listed earlier while users and the autoscaler scale.     *)
(***************************************************************************)
ReplicasFollow == <>[](dep.exists => rs.exists /\ rs.replicas = dep.replicas)

\* hpa.go: the autoscaler "writes Deployment.spec.replicas": it leaves the rest
\* of the Deployment alone.
HpaWritesReplicasOnly ==
    [][\A c \in Autoscalers :
        HpaPostWrite(c) => dep' = [dep EXCEPT !.replicas = dep'.replicas]]_vars

=============================================================================
