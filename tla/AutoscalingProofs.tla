-------------------------- MODULE AutoscalingProofs --------------------------
(***************************************************************************)
(* Proofs about Autoscaling, for any bounds, loads, target, cooldown and   *)
(* number of disturbances.                                                 *)
(***************************************************************************)
EXTENDS Autoscaling, TLAPS

\* An autoscaler's POST is in progress while it waits for it ...
PostsAwaited == \A c \in Autoscalers : posts[c].at # "none" => auto[c].at = "posting"

\* ... and lowers the replica count only after a cooldown, as far as it knows.
DownAfterCooldown ==
    \A c \in Autoscalers :
        posts[c].at # "none" /\ posts[c].body.replicas < auto[c].current =>
            auto[c].age = Cooldown

\* What is about to be written is a row.
ApplyExists == hpaApply.active => hpaApply.row.exists

\* Without an HPA nothing has been scaled, and nobody is about to.
NothingScaled ==
    ~statusLost /\ ~hpa.exists =>
        /\ sinceScale = Cooldown
        /\ \A c \in Autoscalers : auto[c].at = "idle"

\* The time that has been listed is not before the last scaling ...
ListedIsRecent ==
    ~statusLost => \A c \in Autoscalers : auto[c].at # "idle" => auto[c].age <= sinceScale

\* ... and neither is the one in the table, once it has been reported.
StoredIsRecent ==
    ~statusLost /\ (\A c \in Autoscalers : auto[c].at # "reporting") => hpa.age <= sinceScale

CooldownInv ==
    PostsAwaited /\ DownAfterCooldown /\ NothingScaled /\ ListedIsRecent /\ StoredIsRecent

-----------------------------------------------------------------------------
(* Arithmetic. *)

\* A quotient of naturals is a natural.
LEMMA DivNat == ASSUME NEW a \in Nat, NEW d \in Nat \ {0} PROVE a \div d \in Nat
<1>1. a \div d \in Int
    OBVIOUS
<1>2. a = d * (a \div d) + (a % d) /\ 0 <= (a % d) /\ (a % d) < d
    OBVIOUS
<1>3. a \div d >= 0
    <2> DEFINE q == a \div d
               r == a % d
    <2>1. q \in Int /\ r \in Int /\ r < d /\ a = d * q + r
        BY <1>1, <1>2
    <2> HIDE DEF q, r
    <2> SUFFICES ASSUME q <= -1 PROVE FALSE
        BY <2>1 DEF q
    <2>2. d * q <= d * (-1)
        BY <2>1
    <2> QED BY <2>1, <2>2
<1> QED BY <1>1, <1>3

\* What reconcileOne asks for is a replica count.
LEMMA DesiredNat ==
    ASSUME NEW current \in Nat, NEW avg \in Nat, NEW min \in Nat, NEW max \in Nat
    PROVE  Desired(current, avg, min, max) \in Nat
<1> DEFINE a == current * avg
<1>1. a \in Nat
    OBVIOUS
<1> HIDE DEF a
<1>2. a + Target - 1 \in Nat
    BY <1>1, TargetAssumption
<1>3. (a + Target - 1) \div Target \in Nat
    BY <1>2, DivNat, TargetAssumption
<1> QED BY <1>3 DEF Desired, Clamp, a

LEMMA OlderAge == ASSUME NEW age \in Ages PROVE Older(age) \in Ages
BY CooldownAssumption DEF Ages, Older

\* A valid specification makes a valid row.
LEMMA AppliedRow ==
    ASSUME NEW spec \in HpaSpecs, Valid(spec), NEW age \in Ages
    PROVE  Applied(spec, age) \in HpaRow
<1>1. spec.min \in Int /\ spec.max \in Int
    BY HpaSpecsAssumption
<1>2. MinOrDefault(spec.min) \in Nat \ {0} /\ spec.max \in Nat \ {0}
    BY <1>1 DEF Valid, MinOrDefault
<1> QED BY <1>2 DEF Applied, HpaRow

-----------------------------------------------------------------------------
(* Type correctness. *)

PostRecords == [at : {"none", "sent", "read"}, body : Row, found : BOOLEAN]
AutoRecords == [at : {"idle", "listed", "measured", "posting", "reporting"},
                min : Nat, max : Nat, age : Ages, avg : Nat, current : Nat]
DeployRecords == [at : {"idle", "listed", "posting", "posted", "mirroring"},
                  want : Row, status : Reports]

LEMMA IdleRecords ==
    /\ NoPost \in PostRecords /\ NoPass \in DeployRecords /\ Resting \in AutoRecords
    /\ NoHpa \in HpaRow /\ NoApply \in [active : BOOLEAN, row : HpaRow]
    /\ \A n \in Nat, t \in Templates : Fresh(n, t) \in Row
<1>1. \A n \in Nat, t \in Templates : Fresh(n, t) \in Row
    BY ReportsAssumption DEF Fresh, Row
<1>2. AnyRow \in Row
    <2>1. (CHOOSE t \in Templates : TRUE) \in Templates
        BY TemplatesAssumption
    <2> QED BY <1>1, <2>1 DEF AnyRow
<1>3. NoPost \in PostRecords
    BY <1>2 DEF NoPost, Post, PostRecords
<1>4. NoPass \in DeployRecords
    BY <1>2, ReportsAssumption DEF NoPass, DeployRecords
<1>5. Cooldown \in Ages
    BY CooldownAssumption DEF Ages
<1>6. Resting \in AutoRecords
    BY <1>5 DEF Resting, AutoRecords
<1>7. NoHpa \in HpaRow
    BY <1>5 DEF NoHpa, HpaRow
<1>8. NoApply \in [active : BOOLEAN, row : HpaRow]
    BY <1>7 DEF NoApply
<1> QED BY <1>1, <1>3, <1>4, <1>6, <1>7, <1>8

LEMMA TypeInit == Init => TypeOK
<1> SUFFICES ASSUME Init PROVE TypeOK
    OBVIOUS
<1>1. dep \in Row /\ rs \in Row
    <2>1. PICK n \in ReplicaCounts, t \in Templates :
            dep = Fresh(n, t) /\ rs = [Fresh(0, t) EXCEPT !.exists = FALSE]
        BY DEF Init
    <2>2. Fresh(n, t) \in Row /\ Fresh(0, t) \in Row
        BY IdleRecords, ReplicaCountsAssumption
    <2> QED BY <2>1, <2>2 DEF Row
<1>2. Cooldown \in Ages
    BY CooldownAssumption DEF Ages
<1>3. hpa \in HpaRow
    BY <1>2, IdleRecords, AppliedRow DEF Init
<1>4. /\ posts \in [Autoscalers \cup {User} -> PostRecords]
      /\ auto \in [Autoscalers -> AutoRecords]
      /\ deploy \in DeployRecords
      /\ hpaApply \in [active : BOOLEAN, row : HpaRow]
    BY IdleRecords DEF Init
<1>5. load \in Loads /\ sinceScale \in Ages
    BY <1>2 DEF Init
<1>6. disturbances \in 0 .. MaxDisturbances
    BY MaxDisturbancesAssumption DEF Init
<1>7. statusLost \in BOOLEAN
    BY Zenon DEF Init
<1> QED BY <1>1, <1>3, <1>4, <1>5, <1>6, <1>7 DEF TypeOK, PostRecords, AutoRecords, DeployRecords

LEMMA DisturbedInRange ==
    TypeOK /\ (Disturb \/ UNCHANGED disturbances) => disturbances' \in 0 .. MaxDisturbances
BY MaxDisturbancesAssumption DEF TypeOK, Disturb

LEMMA TypeInductive == TypeOK /\ [Next]_vars => TypeOK'
<1> SUFFICES ASSUME TypeOK, [Next]_vars PROVE TypeOK'
    OBVIOUS
<1>0. /\ dep \in Row /\ rs \in Row /\ hpa \in HpaRow /\ load \in Loads
      /\ posts \in [Autoscalers \cup {User} -> PostRecords]
      /\ auto \in [Autoscalers -> AutoRecords]
      /\ deploy \in DeployRecords
      /\ hpaApply \in [active : BOOLEAN, row : HpaRow]
      /\ sinceScale \in Ages /\ statusLost \in BOOLEAN
    BY DEF TypeOK, PostRecords, AutoRecords, DeployRecords
<1>q. ASSUME /\ dep' \in Row /\ rs' \in Row /\ hpa' \in HpaRow /\ load' \in Loads
             /\ posts' \in [Autoscalers \cup {User} -> PostRecords]
             /\ auto' \in [Autoscalers -> AutoRecords]
             /\ deploy' \in DeployRecords
             /\ hpaApply' \in [active : BOOLEAN, row : HpaRow]
             /\ sinceScale' \in Ages /\ statusLost' \in BOOLEAN
             /\ Disturb \/ UNCHANGED disturbances
      PROVE  TypeOK'
    BY <1>q, DisturbedInRange DEF TypeOK, PostRecords, AutoRecords, DeployRecords
<1>z. Cooldown \in Ages /\ 0 \in Ages
    BY CooldownAssumption DEF Ages
<1>1. CASE Tick
    <2>1. [hpa EXCEPT !.age = Older(@)] \in HpaRow
        BY <1>0, OlderAge DEF HpaRow
    <2>2. \A c \in Autoscalers : [auto[c] EXCEPT !.age = Older(@)] \in AutoRecords
        BY <1>0, OlderAge DEF AutoRecords
    <2>3. [hpaApply EXCEPT !.row.age = Older(@)] \in [active : BOOLEAN, row : HpaRow]
        BY <1>0, OlderAge DEF HpaRow
    <2>4. Older(sinceScale) \in Ages
        BY <1>0, OlderAge
    <2> QED BY <1>0, <1>1, <1>q, <2>1, <2>2, <2>3, <2>4 DEF Tick
<1>2. ASSUME NEW x \in Autoscalers \cup {User}, PostRead(x) PROVE TypeOK'
    <2> DEFINE body == IF dep.exists THEN [posts[x].body EXCEPT !.status = dep.status]
                       ELSE posts[x].body
    <2>1. posts[x] \in PostRecords /\ posts[x].body \in Row
        BY <1>0 DEF PostRecords
    <2>2. body \in Row /\ dep.exists \in BOOLEAN
        BY <1>0, <2>1 DEF Row
    <2>3. posts' = [posts EXCEPT ![x] = Post("read", body, dep.exists)]
        BY <1>2 DEF PostRead
    <2> HIDE DEF body
    <2>4. Post("read", body, dep.exists) \in PostRecords
        BY <2>2 DEF Post, PostRecords
    <2>5. posts' \in [Autoscalers \cup {User} -> PostRecords]
        BY <1>0, <2>3, <2>4
    <2> QED BY <1>0, <1>2, <1>q, <2>5 DEF PostRead
<1>3. ASSUME NEW n \in ReplicaCounts, NEW t \in Templates, UserApplies(n, t) PROVE TypeOK'
    <2>1. Fresh(n, t) \in Row
        BY IdleRecords, ReplicaCountsAssumption
    <2>2. Post("sent", Fresh(n, t), FALSE) \in PostRecords
        BY <2>1 DEF Post, PostRecords
    <2>3. posts' \in [Autoscalers \cup {User} -> PostRecords]
        BY <1>0, <1>3, <2>2 DEF UserApplies
    <2> QED BY <1>0, <1>3, <1>q, <2>3 DEF UserApplies
<1>w. ASSUME NEW x \in Autoscalers \cup {User}, PostWritten(x)
      PROVE  dep' \in Row /\ posts' \in [Autoscalers \cup {User} -> PostRecords]
    <2>1. posts[x].body \in Row
        BY <1>0 DEF PostRecords
    <2> QED BY <1>0, <1>w, <2>1, IdleRecords DEF PostWritten
<1>4. CASE UserPostWrite
    BY <1>0, <1>4, <1>q, <1>w DEF UserPostWrite
<1>5. CASE DeleteDeployment
    <2>1. dep' \in Row
        BY <1>0, <1>5, ReportsAssumption DEF DeleteDeployment, Row
    <2> QED BY <1>0, <1>5, <1>q, <2>1 DEF DeleteDeployment
<1>6. ASSUME NEW c \in Autoscalers,
             \/ HpaList(c) \/ HpaMeasure(c) \/ HpaUnmeasured(c) \/ HpaDecideFails(c)
      PROVE  TypeOK'
    <2>1. [Resting EXCEPT !.at = "listed", !.min = hpa.min, !.max = hpa.max, !.age = hpa.age]
            \in AutoRecords
        BY <1>0, IdleRecords DEF AutoRecords, HpaRow
    <2>2. \A avg \in Nat : [auto[c] EXCEPT !.at = "measured", !.avg = avg] \in AutoRecords
        BY <1>0 DEF AutoRecords
    <2>3. load \in Nat
        BY <1>0, LoadsAssumption
    <2>4. CASE HpaList(c)
        BY <1>0, <1>q, <2>1, <2>4 DEF HpaList
    <2>5. CASE HpaMeasure(c)
        <3>1. auto' = [auto EXCEPT ![c] = [auto[c] EXCEPT !.at = "measured", !.avg = load]]
            BY <1>0, <2>5 DEF HpaMeasure
        <3> QED BY <1>0, <1>q, <2>2, <2>3, <2>5, <3>1 DEF HpaMeasure
    <2>6. CASE HpaUnmeasured(c)
        <3>1. auto' = [auto EXCEPT ![c] = [auto[c] EXCEPT !.at = "measured", !.avg = 0]]
            BY <1>0, <2>6 DEF HpaUnmeasured
        <3>2. [auto[c] EXCEPT !.at = "measured", !.avg = 0] \in AutoRecords
            BY <2>2
        <3>3. auto' \in [Autoscalers -> AutoRecords]
            BY <1>0, <3>1, <3>2
        <3> QED BY <1>0, <1>q, <2>6, <3>3 DEF HpaUnmeasured
    <2>7. CASE HpaDecideFails(c)
        BY <1>0, <1>q, <2>7, IdleRecords DEF HpaDecideFails
    <2> QED BY <1>6, <2>4, <2>5, <2>6, <2>7
<1>7. ASSUME NEW c \in Autoscalers, HpaDecide(c) PROVE TypeOK'
    <2> DEFINE desired == Desired(dep.replicas, auto[c].avg, auto[c].min, auto[c].max)
               scale == /\ dep.exists
                        /\ desired # dep.replicas
                        /\ ~Cooling(dep.replicas, desired, auto[c].age)
               next == [auto[c] EXCEPT !.at = IF scale THEN "posting" ELSE "reporting",
                                       !.current = dep.replicas]
    <2>1. /\ auto' = [auto EXCEPT ![c] = IF dep.exists THEN next ELSE Resting]
          /\ posts' = IF scale
                      THEN [posts EXCEPT ![c] =
                                Post("sent", [dep EXCEPT !.replicas = desired], FALSE)]
                      ELSE posts
        BY <1>7 DEF HpaDecide
    <2>2. dep.replicas \in Nat
        BY <1>0 DEF Row
    <2>3. desired \in Nat
        BY <1>0, <2>2, DesiredNat DEF AutoRecords
    <2> HIDE DEF desired
    <2>4. next \in AutoRecords
        BY <1>0, <2>2 DEF AutoRecords
    <2> HIDE DEF next
    <2>5. [dep EXCEPT !.replicas = desired] \in Row
        BY <1>0, <2>3 DEF Row
    <2>6. Post("sent", [dep EXCEPT !.replicas = desired], FALSE) \in PostRecords
        BY <2>5 DEF Post, PostRecords
    <2>7. posts' \in [Autoscalers \cup {User} -> PostRecords]
        BY <1>0, <2>1, <2>6
    <2>8. auto' \in [Autoscalers -> AutoRecords]
        BY <1>0, <2>1, <2>4, IdleRecords
    <2> QED BY <1>0, <1>7, <1>q, <2>7, <2>8 DEF HpaDecide
<1>8. ASSUME NEW c \in Autoscalers, HpaPostWrite(c) PROVE TypeOK'
    <2>1. dep' \in Row /\ posts' \in [Autoscalers \cup {User} -> PostRecords]
        BY <1>8, <1>w DEF HpaPostWrite
    <2>2. auto' = [auto EXCEPT ![c] = [auto[c] EXCEPT !.at = "reporting",
                                          !.age = IF Succeeds(c) THEN 0 ELSE @]]
        BY <1>0, <1>8 DEF HpaPostWrite
    <2>3. auto' \in [Autoscalers -> AutoRecords]
        BY <1>0, <1>z, <2>2 DEF AutoRecords
    <2>4. sinceScale' \in Ages
        BY <1>0, <1>z, <1>8 DEF HpaPostWrite
    <2> QED BY <1>0, <1>8, <1>q, <2>1, <2>3, <2>4 DEF HpaPostWrite
<1>9. ASSUME NEW c \in Autoscalers, HpaPostFails(c) PROVE TypeOK'
    <2>1. posts' \in [Autoscalers \cup {User} -> PostRecords]
        BY <1>0, <1>9, IdleRecords DEF HpaPostFails
    <2>2. auto' = [auto EXCEPT ![c] = [auto[c] EXCEPT !.at = "reporting"]]
        BY <1>0, <1>9 DEF HpaPostFails
    <2>3. auto' \in [Autoscalers -> AutoRecords]
        BY <1>0, <2>2 DEF AutoRecords
    <2> QED BY <1>0, <1>9, <1>q, <2>1, <2>3 DEF HpaPostFails
<1>10. ASSUME NEW c \in Autoscalers, HpaReport(c) \/ HpaReportFails(c) PROVE TypeOK'
    <2>1. [hpa EXCEPT !.age = auto[c].age] \in HpaRow
        BY <1>0 DEF HpaRow, AutoRecords
    <2>2. auto' \in [Autoscalers -> AutoRecords]
        BY <1>0, <1>10, IdleRecords DEF HpaReport, HpaReportFails
    <2> QED BY <1>0, <1>10, <1>q, <2>1, <2>2 DEF HpaReport, HpaReportFails
<1>11. ASSUME NEW spec \in HpaSpecs, HpaApplyRead(spec) PROVE TypeOK'
    <2>1. PICK age \in {Cooldown} \cup (IF hpa.exists THEN {hpa.age} ELSE {}) :
            hpaApply' = [active |-> TRUE, row |-> Applied(spec, age)]
        BY <1>11 DEF HpaApplyRead
    <2>2. age \in Ages
        BY <1>0, <1>z, <2>1 DEF HpaRow
    <2>3. Applied(spec, age) \in HpaRow
        BY <1>11, <2>2, AppliedRow DEF HpaApplyRead
    <2>4. hpaApply' \in [active : BOOLEAN, row : HpaRow]
        BY <2>1, <2>3
    <2> QED BY <1>0, <1>11, <1>q, <2>4 DEF HpaApplyRead
<1>12. CASE HpaApplyWrite
    <2>1. hpaApply.row \in HpaRow
        BY <1>0
    <2>2. statusLost' \in BOOLEAN
        BY <1>12, Zenon DEF HpaApplyWrite
    <2> QED BY <1>0, <1>12, <1>q, <2>1, <2>2, IdleRecords DEF HpaApplyWrite
<1>13. CASE DeleteHpa
    BY <1>0, <1>13, <1>q, IdleRecords DEF DeleteHpa
<1>14. CASE DeployList \/ DeployCompare
    <2>1. [dep EXCEPT !.status = 0] \in Row
        BY <1>0, ReportsAssumption DEF Row
    <2>2. deploy' \in DeployRecords
        BY <1>0, <1>14, <2>1 DEF DeployList, DeployCompare, DeployRecords
    <2> QED BY <1>0, <1>14, <1>q, <2>2 DEF DeployList, DeployCompare
<1>15. CASE DeployUpsert
    <2>1. rs' \in Row
        BY <1>0, <1>15, ReportsAssumption DEF DeployUpsert, Row, DeployRecords
    <2>2. deploy' \in DeployRecords
        BY <1>0, <1>15 DEF DeployUpsert, DeployRecords
    <2> QED BY <1>0, <1>15, <1>q, <2>1, <2>2 DEF DeployUpsert
<1>16. CASE DeployUpsertFails \/ DeployReadStatus \/ DeployMirrorFails
    <2>1. deploy' \in DeployRecords
        <3>1. [deploy EXCEPT !.at = "mirroring", !.status = rs.status] \in DeployRecords
            BY <1>0 DEF DeployRecords, Row
        <3> QED BY <1>16, <3>1, IdleRecords
                DEF DeployUpsertFails, DeployReadStatus, DeployMirrorFails
    <2> QED BY <1>0, <1>16, <1>q, <2>1
            DEF DeployUpsertFails, DeployReadStatus, DeployMirrorFails
<1>17. CASE DeployMirror
    <2>1. dep' \in Row
        BY <1>0, <1>17 DEF DeployMirror, Mirrored, Row, DeployRecords
    <2> QED BY <1>0, <1>17, <1>q, <2>1, IdleRecords DEF DeployMirror
<1>18. CASE ReplicaSetDeleted
    <2>1. rs' \in Row
        BY <1>0, <1>18, ReportsAssumption DEF ReplicaSetDeleted, Row
    <2> QED BY <1>0, <1>18, <1>q, <2>1 DEF ReplicaSetDeleted
<1>19. ASSUME NEW n \in Reports, ReplicaSetReports(n) PROVE TypeOK'
    <2>1. rs' \in Row
        BY <1>0, <1>19 DEF ReplicaSetReports, Row
    <2> QED BY <1>0, <1>19, <1>q, <2>1 DEF ReplicaSetReports
<1>20. ASSUME NEW n \in Loads, LoadChanges(n) PROVE TypeOK'
    BY <1>0, <1>20, <1>q DEF LoadChanges
<1>21. CASE UNCHANGED vars
    BY <1>0, <1>21, <1>q DEF vars
<1> QED BY <1>1, <1>2, <1>3, <1>4, <1>5, <1>6, <1>7, <1>8, <1>9, <1>10, <1>11, <1>12, <1>13,
           <1>14, <1>15, <1>16, <1>17, <1>18, <1>19, <1>20, <1>21 DEF Next

(***************************************************************************)
(* Type correctness: above all, whatever load is measured and whatever     *)
(* bounds are applied, scaleDeployment is asked for a natural number of    *)
(* replicas, and the bounds that are stored are positive.                  *)
(***************************************************************************)
THEOREM TypeCorrect == Spec => []TypeOK
BY TypeInit, TypeInductive, PTL DEF Spec

-----------------------------------------------------------------------------
(* The cooldown. *)

LEMMA ApplyInductive == TypeOK /\ ApplyExists /\ [Next]_vars => ApplyExists'
<1> SUFFICES ASSUME TypeOK, ApplyExists, [Next]_vars PROVE ApplyExists'
    OBVIOUS
<1>1. CASE Tick
    <2>1. hpaApply'.active = hpaApply.active /\ hpaApply'.row.exists = hpaApply.row.exists
        BY <1>1 DEF Tick, TypeOK, HpaRow
    <2> QED BY <2>1 DEF ApplyExists
<1>2. ASSUME NEW spec \in HpaSpecs, HpaApplyRead(spec) PROVE ApplyExists'
    BY <1>2 DEF HpaApplyRead, Applied, ApplyExists
<1>3. CASE HpaApplyWrite
    BY <1>3 DEF HpaApplyWrite, NoApply, ApplyExists
<1>4. CASE UNCHANGED hpaApply
    BY <1>4 DEF ApplyExists
<1>5. CASE \/ \E x \in Autoscalers \cup {User} : PostRead(x)
           \/ \E n \in ReplicaCounts, t \in Templates : UserApplies(n, t)
           \/ UserPostWrite \/ DeleteDeployment \/ DeleteHpa \/ ReplicaSetDeleted
           \/ \E n \in Reports : ReplicaSetReports(n)
           \/ \E n \in Loads : LoadChanges(n)
    BY <1>4, <1>5 DEF PostRead, UserApplies, UserPostWrite, DeleteDeployment, DeleteHpa,
       ReplicaSetDeleted, ReplicaSetReports, LoadChanges
<1>6. CASE \E c \in Autoscalers :
            \/ HpaList(c) \/ HpaMeasure(c) \/ HpaUnmeasured(c) \/ HpaDecide(c)
            \/ HpaDecideFails(c)
            \/ HpaPostWrite(c) \/ HpaPostFails(c) \/ HpaReport(c) \/ HpaReportFails(c)
    BY <1>4, <1>6 DEF HpaList, HpaMeasure, HpaUnmeasured, HpaDecide, HpaDecideFails,
       HpaPostWrite, HpaPostFails, HpaReport, HpaReportFails
<1>7. CASE DeployList \/ DeployCompare \/ DeployUpsert \/ DeployUpsertFails
           \/ DeployReadStatus \/ DeployMirror \/ DeployMirrorFails
    BY <1>4, <1>7 DEF DeployList, DeployCompare, DeployUpsert, DeployUpsertFails,
       DeployReadStatus, DeployMirror, DeployMirrorFails
<1>8. CASE UNCHANGED vars
    BY <1>4, <1>8 DEF vars
<1> QED BY <1>1, <1>2, <1>3, <1>5, <1>6, <1>7, <1>8 DEF Next

LEMMA CooldownInit == Init => CooldownInv
<1> SUFFICES ASSUME Init PROVE CooldownInv
    OBVIOUS
<1>1. \A c \in Autoscalers : posts[c].at = "none" /\ auto[c].at = "idle"
    BY DEF Init, NoPost, Post, Resting
<1>2. sinceScale = Cooldown
    BY DEF Init
<1>3. hpa.age <= sinceScale
    BY <1>2, CooldownAssumption DEF Init, NoHpa, Applied
<1> QED BY <1>1, <1>2, <1>3 DEF CooldownInv, PostsAwaited, DownAfterCooldown, NothingScaled,
                                ListedIsRecent, StoredIsRecent

\* Steps that leave the autoscaler's memory alone.
LEMMA OthersKeepCooldown ==
    ASSUME CooldownInv, UNCHANGED <<hpa, auto, sinceScale, statusLost>>,
           \A c \in Autoscalers : posts'[c] = posts[c]
    PROVE  CooldownInv'
<1> USE DEF CooldownInv
<1>1. PostsAwaited' /\ DownAfterCooldown'
    BY DEF PostsAwaited, DownAfterCooldown
<1>2. NothingScaled' /\ ListedIsRecent' /\ StoredIsRecent'
    BY DEF NothingScaled, ListedIsRecent, StoredIsRecent
<1> QED BY <1>1, <1>2

\* Time passes alike for what is stored, what is listed and what happened.
LEMMA TickKeepsCooldown == TypeOK /\ CooldownInv /\ Tick => CooldownInv'
<1> SUFFICES ASSUME TypeOK, CooldownInv, Tick PROVE CooldownInv'
    OBVIOUS
<1> USE DEF CooldownInv
<1>0. /\ hpa.age \in Ages /\ sinceScale \in Ages
      /\ \A c \in Autoscalers : auto[c] \in AutoRecords /\ auto[c].age \in Ages
    BY DEF TypeOK, HpaRow, AutoRecords
<1>1. \A a, b \in Ages : a <= b => Older(a) <= Older(b)
    BY CooldownAssumption DEF Ages, Older
<1>2. Older(Cooldown) = Cooldown
    BY CooldownAssumption DEF Older
<1>3. /\ hpa'.exists = hpa.exists /\ hpa'.age = Older(hpa.age)
      /\ sinceScale' = Older(sinceScale) /\ UNCHANGED posts /\ UNCHANGED statusLost
    BY DEF Tick, TypeOK, HpaRow
<1>4. \A c \in Autoscalers : /\ auto'[c].at = auto[c].at
                             /\ auto'[c].current = auto[c].current
                             /\ auto'[c].age = Older(auto[c].age)
    BY <1>0 DEF Tick, AutoRecords
<1>5. PostsAwaited' /\ DownAfterCooldown'
    BY <1>2, <1>3, <1>4 DEF PostsAwaited, DownAfterCooldown
<1>6. NothingScaled'
    BY <1>2, <1>3, <1>4 DEF NothingScaled
<1>7. ListedIsRecent'
    BY <1>0, <1>1, <1>3, <1>4 DEF ListedIsRecent
<1>8. StoredIsRecent'
    BY <1>0, <1>1, <1>3, <1>4 DEF StoredIsRecent
<1> QED BY <1>5, <1>6, <1>7, <1>8

\* With one autoscaler, its pass from the list to the report.
LEMMA PassKeepsCooldown ==
    ASSUME \A c, d \in Autoscalers : c = d, TypeOK, CooldownInv, NEW c \in Autoscalers,
           \/ PostRead(c) \/ HpaList(c) \/ HpaMeasure(c) \/ HpaUnmeasured(c) \/ HpaDecide(c)
           \/ HpaDecideFails(c) \/ HpaPostWrite(c) \/ HpaPostFails(c) \/ HpaReport(c)
           \/ HpaReportFails(c)
    PROVE  CooldownInv'
<1> USE DEF CooldownInv
<1>0. /\ posts[c] \in PostRecords /\ auto[c] \in AutoRecords /\ c \in DOMAIN auto
      /\ c \in DOMAIN posts /\ hpa \in HpaRow /\ dep \in Row /\ sinceScale \in Ages
      /\ posts[c].body \in Row
    BY DEF TypeOK, PostRecords, AutoRecords
<1>t. /\ hpa.age \in Int /\ auto[c].age \in Int /\ sinceScale \in Int /\ Cooldown \in Int
      /\ sinceScale >= 0 /\ auto[c].age <= Cooldown /\ hpa.age <= Cooldown
      /\ dep.replicas \in Nat
    BY <1>0, CooldownAssumption DEF HpaRow, AutoRecords, Ages, Row
<1>i. /\ posts[c].at # "none" => auto[c].at = "posting"
      /\ posts[c].at # "none" /\ posts[c].body.replicas < auto[c].current => auto[c].age = Cooldown
      /\ ~statusLost /\ ~hpa.exists => sinceScale = Cooldown /\ auto[c].at = "idle"
      /\ ~statusLost /\ auto[c].at # "idle" => auto[c].age <= sinceScale
      /\ ~statusLost /\ auto[c].at # "reporting" => hpa.age <= sinceScale
    BY DEF PostsAwaited, DownAfterCooldown, NothingScaled, ListedIsRecent, StoredIsRecent
<1>q. ASSUME /\ posts'[c].at # "none" => auto'[c].at = "posting"
             /\ posts'[c].at # "none" /\ posts'[c].body.replicas < auto'[c].current =>
                    auto'[c].age = Cooldown
             /\ ~statusLost' /\ ~hpa'.exists => sinceScale' = Cooldown /\ auto'[c].at = "idle"
             /\ ~statusLost' /\ auto'[c].at # "idle" => auto'[c].age <= sinceScale'
             /\ ~statusLost' /\ auto'[c].at # "reporting" => hpa'.age <= sinceScale'
      PROVE  CooldownInv'
    BY <1>q DEF PostsAwaited, DownAfterCooldown, NothingScaled, ListedIsRecent, StoredIsRecent
<1>1. CASE PostRead(c)
    <2> DEFINE body == IF dep.exists THEN [posts[c].body EXCEPT !.status = dep.status]
                       ELSE posts[c].body
    <2>1. posts'[c] = Post("read", body, dep.exists)
        BY <1>0, <1>1 DEF PostRead
    <2>2. body.replicas = posts[c].body.replicas
        BY <1>0 DEF Row
    <2> HIDE DEF body
    <2>3. posts'[c].body.replicas = posts[c].body.replicas
        BY <2>1, <2>2 DEF Post
    <2>4. posts[c].at # "none"
        BY <1>1 DEF PostRead
    <2>5. UNCHANGED hpa /\ UNCHANGED auto /\ UNCHANGED sinceScale /\ UNCHANGED statusLost
        BY <1>1 DEF PostRead
    <2> QED BY <1>i, <1>q, <2>3, <2>4, <2>5
<1>2. CASE HpaList(c)
    <2>1. auto'[c].at = "listed" /\ auto'[c].age = hpa.age
        BY <1>0, <1>2 DEF HpaList, Resting
    <2>2. /\ auto[c].at = "idle" /\ hpa.exists /\ UNCHANGED posts /\ UNCHANGED hpa
          /\ UNCHANGED sinceScale /\ UNCHANGED statusLost
        BY <1>2 DEF HpaList
    <2> QED BY <1>i, <1>q, <2>1, <2>2
<1>3. CASE HpaMeasure(c) \/ HpaUnmeasured(c)
    <2>1. auto'[c].at = "measured" /\ auto'[c].age = auto[c].age
        BY <1>0, <1>3 DEF HpaMeasure, HpaUnmeasured, AutoRecords
    <2>2. /\ auto[c].at = "listed" /\ UNCHANGED posts /\ UNCHANGED hpa
          /\ UNCHANGED sinceScale /\ UNCHANGED statusLost
        BY <1>3 DEF HpaMeasure, HpaUnmeasured
    <2> QED BY <1>i, <1>q, <2>1, <2>2
<1>4. CASE HpaDecide(c)
    <2> DEFINE desired == Desired(dep.replicas, auto[c].avg, auto[c].min, auto[c].max)
               scale == /\ dep.exists
                        /\ desired # dep.replicas
                        /\ ~Cooling(dep.replicas, desired, auto[c].age)
               next == [auto[c] EXCEPT !.at = IF scale THEN "posting" ELSE "reporting",
                                       !.current = dep.replicas]
    <2>1. /\ auto'[c] = IF dep.exists THEN next ELSE Resting
          /\ posts' = IF scale
                      THEN [posts EXCEPT ![c] =
                                Post("sent", [dep EXCEPT !.replicas = desired], FALSE)]
                      ELSE posts
        BY <1>0, <1>4 DEF HpaDecide
    <2> HIDE DEF desired
    <2>2. /\ auto[c].at = "measured" /\ UNCHANGED hpa
          /\ UNCHANGED sinceScale /\ UNCHANGED statusLost
        BY <1>4 DEF HpaDecide
    <2>3. posts[c].at = "none"
        BY <1>i, <2>2
    <2>4. /\ next.age = auto[c].age /\ next.current = dep.replicas
          /\ next.at = IF scale THEN "posting" ELSE "reporting"
        BY <1>0 DEF AutoRecords
    <2> HIDE DEF next
    <2>5. CASE scale
        <3>1. posts'[c] = Post("sent", [dep EXCEPT !.replicas = desired], FALSE)
            BY <1>0, <2>1, <2>5
        <3>2. [dep EXCEPT !.replicas = desired].replicas = desired
            BY <1>0 DEF Row
        <3>3. posts'[c].body.replicas = desired
            <4> DEFINE body == [dep EXCEPT !.replicas = desired]
            <4>1. posts'[c] = [at |-> "sent", body |-> body, found |-> FALSE]
                BY <3>1 DEF Post
            <4> HIDE DEF body
            <4>2. posts'[c].body = body
                BY <4>1
            <4> QED BY <3>2, <4>2 DEF body
        <3>4. ~(desired < dep.replicas /\ auto[c].age < Cooldown) /\ dep.exists
            BY <2>5 DEF Cooling
        <3>5. auto'[c] = next /\ next.at = "posting"
            BY <2>1, <2>4, <2>5
        <3> HIDE DEF scale
        <3> QED BY <1>i, <1>q, <1>t, <2>2, <2>4, <3>3, <3>4, <3>5
    <2>6. CASE ~scale
        <3>1. UNCHANGED posts
            BY <2>1, <2>6
        <3>2. auto'[c].at = "idle" \/ (auto'[c].at = "reporting" /\ auto'[c].age = auto[c].age)
            BY <2>1, <2>4, <2>6 DEF Resting
        <3> HIDE DEF scale
        <3> QED BY <1>i, <1>q, <2>2, <2>3, <3>1, <3>2
    <2> QED BY <2>5, <2>6
<1>5. CASE HpaDecideFails(c)
    <2>1. auto'[c].at = "idle"
        BY <1>0, <1>5 DEF HpaDecideFails, Resting
    <2>2. /\ auto[c].at = "measured" /\ UNCHANGED posts /\ UNCHANGED hpa
          /\ UNCHANGED sinceScale /\ UNCHANGED statusLost
        BY <1>5 DEF HpaDecideFails
    <2> QED BY <1>i, <1>q, <2>1, <2>2
<1>6. CASE HpaPostWrite(c)
    <2>1. posts[c].at = "read" /\ posts'[c].at = "none"
        BY <1>0, <1>6 DEF HpaPostWrite, PostWritten, NoPost, Post
    <2>2. auto'[c].at = "reporting" /\ auto'[c].age = IF Succeeds(c) THEN 0 ELSE auto[c].age
        BY <1>0, <1>6 DEF HpaPostWrite, AutoRecords
    <2>3. /\ UNCHANGED hpa /\ UNCHANGED statusLost
          /\ sinceScale' = IF Effective(c) THEN 0 ELSE sinceScale
        BY <1>6 DEF HpaPostWrite
    <2>4. Effective(c) => Succeeds(c)
        BY DEF Effective, Succeeds
    <2>5. auto[c].at = "posting"
        BY <1>i, <2>1
    <2>6. ~statusLost => auto'[c].age <= sinceScale' /\ hpa.exists
        BY <1>i, <1>t, <2>2, <2>3, <2>4, <2>5
    <2> QED BY <1>q, <2>1, <2>2, <2>3, <2>6
<1>7. CASE HpaPostFails(c)
    <2>1. posts[c].at = "sent" /\ posts'[c].at = "none"
        BY <1>0, <1>7 DEF HpaPostFails, NoPost, Post
    <2>2. auto'[c].at = "reporting" /\ auto'[c].age = auto[c].age
        BY <1>0, <1>7 DEF HpaPostFails, AutoRecords
    <2>3. UNCHANGED hpa /\ UNCHANGED sinceScale /\ UNCHANGED statusLost
        BY <1>7 DEF HpaPostFails
    <2> QED BY <1>i, <1>q, <2>1, <2>2, <2>3
<1>8. CASE HpaReport(c)
    <2>1. auto'[c].at = "idle"
        BY <1>0, <1>8 DEF HpaReport, Resting
    <2>2. /\ auto[c].at = "reporting" /\ UNCHANGED posts
          /\ UNCHANGED sinceScale /\ UNCHANGED statusLost
        BY <1>8 DEF HpaReport
    <2>3. hpa'.exists = hpa.exists /\ (hpa.exists => hpa'.age = auto[c].age)
        BY <1>0, <1>8 DEF HpaReport, HpaRow
    <2> QED BY <1>i, <1>q, <2>1, <2>2, <2>3
<1>9. CASE HpaReportFails(c)
    <2>1. auto'[c].at = "idle" /\ statusLost' /\ auto[c].at = "reporting" /\ UNCHANGED posts
        BY <1>0, <1>9 DEF HpaReportFails, Resting
    <2> QED BY <1>i, <1>q, <2>1
<1> QED BY <1>1, <1>2, <1>3, <1>4, <1>5, <1>6, <1>7, <1>8, <1>9

LEMMA CooldownInductive ==
    ASSUME \A c, d \in Autoscalers : c = d
    PROVE  TypeOK /\ ApplyExists /\ CooldownInv /\ [Next]_vars => CooldownInv'
<1> SUFFICES ASSUME TypeOK, ApplyExists, CooldownInv, [Next]_vars PROVE CooldownInv'
    OBVIOUS
<1>1. CASE Tick
    BY <1>1, TickKeepsCooldown
<1>2. ASSUME NEW x \in Autoscalers \cup {User}, PostRead(x) PROVE CooldownInv'
    <2>1. CASE x \in Autoscalers
        BY <1>2, <2>1, PassKeepsCooldown
    <2>2. CASE x = User
        <3>1. \A c \in Autoscalers : posts'[c] = posts[c]
            BY <1>2, <2>2, UserAssumption DEF PostRead, TypeOK
        <3> QED BY <1>2, <3>1, OthersKeepCooldown DEF PostRead
    <2> QED BY <2>1, <2>2
<1>3. ASSUME NEW n \in ReplicaCounts, NEW t \in Templates, UserApplies(n, t) PROVE CooldownInv'
    <2>1. \A c \in Autoscalers : posts'[c] = posts[c]
        BY <1>3, UserAssumption DEF UserApplies, TypeOK
    <2> QED BY <1>3, <2>1, OthersKeepCooldown DEF UserApplies
<1>4. CASE UserPostWrite
    <2>1. \A c \in Autoscalers : posts'[c] = posts[c]
        BY <1>4, UserAssumption DEF UserPostWrite, PostWritten, TypeOK
    <2> QED BY <1>4, <2>1, OthersKeepCooldown DEF UserPostWrite
<1>5. ASSUME NEW c \in Autoscalers,
             \/ HpaList(c) \/ HpaMeasure(c) \/ HpaUnmeasured(c) \/ HpaDecide(c)
             \/ HpaDecideFails(c) \/ HpaPostWrite(c) \/ HpaPostFails(c) \/ HpaReport(c)
             \/ HpaReportFails(c)
      PROVE  CooldownInv'
    BY <1>5, PassKeepsCooldown
<1>6. CASE DeleteDeployment \/ DeployMirror
    BY <1>6, OthersKeepCooldown DEF DeleteDeployment, DeployMirror
<1>7. ASSUME NEW spec \in HpaSpecs, HpaApplyRead(spec) PROVE CooldownInv'
    BY <1>7, OthersKeepCooldown DEF HpaApplyRead
<1>8. CASE HpaApplyWrite
    <2>1. /\ hpa' = hpaApply.row /\ UNCHANGED posts /\ UNCHANGED auto /\ UNCHANGED sinceScale
          /\ statusLost' <=> (statusLost \/ (hpa.exists /\ hpa.age # hpaApply.row.age))
        BY <1>8 DEF HpaApplyWrite
    <2>2. /\ hpaApply.row.age \in Ages /\ hpa.exists \in BOOLEAN
        BY DEF TypeOK, HpaRow
    <2>3. ~statusLost' => ~statusLost /\ (hpa.exists => hpa'.age = hpa.age)
        BY <2>1
    <2>4. PostsAwaited' /\ DownAfterCooldown' /\ ListedIsRecent'
        BY <2>1, <2>3 DEF CooldownInv, PostsAwaited, DownAfterCooldown, ListedIsRecent
    <2>5. ~statusLost' /\ ~hpa.exists => sinceScale = Cooldown /\ hpa'.age <= sinceScale
        BY <2>1, <2>2, <2>3, CooldownAssumption DEF CooldownInv, NothingScaled, Ages
    <2>6. StoredIsRecent'
        BY <2>1, <2>3, <2>5 DEF CooldownInv, StoredIsRecent
    <2>7. hpaApply.row.exists
        BY <1>8 DEF ApplyExists, HpaApplyWrite
    <2>8. NothingScaled'
        BY <2>1, <2>7 DEF NothingScaled
    <2> QED BY <2>4, <2>6, <2>8 DEF CooldownInv
<1>9. CASE DeleteHpa
    <2>1. statusLost' /\ UNCHANGED posts /\ UNCHANGED auto
        BY <1>9 DEF DeleteHpa
    <2> QED BY <2>1 DEF CooldownInv, PostsAwaited, DownAfterCooldown, NothingScaled,
                        ListedIsRecent, StoredIsRecent
<1>10. CASE DeployList \/ DeployCompare \/ DeployUpsert \/ DeployUpsertFails
            \/ DeployReadStatus \/ DeployMirrorFails \/ ReplicaSetDeleted
    BY <1>10, OthersKeepCooldown DEF DeployList, DeployCompare, DeployUpsert,
       DeployUpsertFails, DeployReadStatus, DeployMirrorFails, ReplicaSetDeleted
<1>11. CASE (\E n \in Reports : ReplicaSetReports(n)) \/ (\E n \in Loads : LoadChanges(n))
    BY <1>11, OthersKeepCooldown DEF ReplicaSetReports, LoadChanges
<1>12. CASE UNCHANGED vars
    BY <1>12, OthersKeepCooldown DEF vars
<1> QED BY <1>1, <1>2, <1>3, <1>4, <1>5, <1>6, <1>7, <1>8, <1>9, <1>10, <1>11, <1>12 DEF Next

(***************************************************************************)
(* "Apply a simple scale-down cooldown to avoid flapping": an autoscaler   *)
(* that is alone scales down only CooldownDown after its previous scaling, *)
(* for any cooldown, bounds and loads and whatever is applied or deleted   *)
(* meanwhile, as long as no write of the HPA's status is lost.             *)
(***************************************************************************)
THEOREM CooldownRespected ==
    ASSUME \A c, d \in Autoscalers : c = d
    PROVE  Spec => CooldownKept
<1> DEFINE Kept == \A c \in Autoscalers : ScalesDown(c) /\ ~statusLost => sinceScale = Cooldown
<1>1. TypeOK /\ CooldownInv => Kept
    <2> SUFFICES ASSUME TypeOK, CooldownInv, NEW c \in Autoscalers, ScalesDown(c), ~statusLost
                 PROVE  sinceScale = Cooldown
        OBVIOUS
    <2>1. posts[c].at = "read" /\ posts[c].body.replicas < auto[c].current
        BY DEF ScalesDown, HpaPostWrite, PostWritten
    <2>2. auto[c].age = Cooldown /\ auto[c].at = "posting"
        BY <2>1 DEF CooldownInv, PostsAwaited, DownAfterCooldown
    <2>3. Cooldown <= sinceScale
        BY <2>2 DEF CooldownInv, ListedIsRecent
    <2> QED BY <2>3, CooldownAssumption DEF TypeOK, Ages
<1>0. Init => ApplyExists
    BY DEF Init, NoApply, ApplyExists
<1>2. TypeOK /\ ApplyExists /\ CooldownInv /\ [Next]_vars =>
        TypeOK' /\ ApplyExists' /\ CooldownInv'
    BY TypeInductive, ApplyInductive, CooldownInductive
<1>3. TypeOK /\ CooldownInv => [Kept]_vars
    BY <1>1
<1> HIDE DEF Kept
<1>4. Spec => [][Kept]_vars
    BY TypeInit, CooldownInit, <1>0, <1>2, <1>3, PTL DEF Spec
<1> QED BY <1>4 DEF CooldownKept, Kept

-----------------------------------------------------------------------------
(* The bounds. *)

\* Of an autoscaler's pass and its POST: what it listed are bounds, and what it
\* sent is within them.
Bounded(pass, post) ==
    /\ 1 <= pass.min /\ pass.min <= pass.max
    /\ post.at # "none" =>
        /\ pass.at = "posting"
        /\ pass.min <= post.body.replicas /\ post.body.replicas <= pass.max

\* The bounds in the table are in order, and those about to be written.
RowsOrdered == hpa.min <= hpa.max /\ hpaApply.row.min <= hpaApply.row.max

BoundsInv == RowsOrdered /\ \A c \in Autoscalers : Bounded(auto[c], posts[c])

\* reconcileOne clamps: its answer is within bounds that are in order.
LEMMA DesiredWithin ==
    ASSUME NEW current \in Nat, NEW avg \in Nat, NEW min \in Nat, NEW max \in Nat, min <= max
    PROVE  /\ min <= Desired(current, avg, min, max)
           /\ Desired(current, avg, min, max) <= max
<1> DEFINE scaled == (current * avg + Target - 1) \div Target
           wanted == IF current > 0 /\ avg > 0 THEN scaled
                     ELSE IF avg = 0 /\ current > min THEN min ELSE current
<1>1. scaled \in Nat
    <2> DEFINE a == current * avg
    <2>1. a \in Nat
        OBVIOUS
    <2> HIDE DEF a
    <2>2. a + Target - 1 \in Nat
        BY <2>1, TargetAssumption
    <2> QED BY <2>2, DivNat, TargetAssumption DEF a
<1> HIDE DEF scaled
<1>2. wanted \in Nat
    BY <1>1
<1>3. Desired(current, avg, min, max) = Clamp(wanted, min, max)
    BY DEF Desired, scaled
<1> HIDE DEF wanted
<1> QED BY <1>2, <1>3 DEF Clamp

LEMMA BoundsInit == Init => BoundsInv
<1> SUFFICES ASSUME Init PROVE BoundsInv
    OBVIOUS
<1>1. \A c \in Autoscalers : Bounded(auto[c], posts[c])
    <2>1. \A c \in Autoscalers : auto[c] = Resting /\ posts[c] = NoPost
        BY DEF Init
    <2>2. Resting.min = 1 /\ Resting.max = 1 /\ NoPost.at = "none"
        BY DEF Resting, NoPost, Post
    <2>3. Bounded(Resting, NoPost)
        BY <2>2 DEF Bounded
    <2> QED BY <2>1, <2>3, Zenon
<1>2. hpa.min <= hpa.max
    <2>1. CASE hpa = NoHpa
        BY <2>1 DEF NoHpa
    <2>2. CASE \E spec \in HpaSpecs : Valid(spec) /\ hpa = Applied(spec, Cooldown)
        BY <2>2, HpaSpecsAssumption DEF Applied, Valid, MinOrDefault
    <2> QED BY <2>1, <2>2 DEF Init
<1>3. hpaApply.row.min <= hpaApply.row.max
    BY DEF Init, NoApply, NoHpa
<1> QED BY <1>1, <1>2, <1>3 DEF BoundsInv, RowsOrdered

\* The steps of others.
LEMMA OthersKeepBounds ==
    ASSUME BoundsInv, UNCHANGED <<hpa, hpaApply, auto>>,
           \A c \in Autoscalers : posts'[c] = posts[c]
    PROVE  BoundsInv'
BY DEF BoundsInv, RowsOrdered, Bounded

\* A step of one autoscaler.
LEMMA AutoscalerKeepsBounds ==
    ASSUME BoundsInv, RowsOrdered', NEW c \in Autoscalers,
           \A d \in Autoscalers \ {c} : auto'[d] = auto[d] /\ posts'[d] = posts[d],
           Bounded(auto'[c], posts'[c])
    PROVE  BoundsInv'
<1>1. \A d \in Autoscalers \ {c} : Bounded(auto'[d], posts'[d])
    BY DEF BoundsInv, Bounded
<1>2. (\A d \in Autoscalers : Bounded(auto[d], posts[d]))'
    BY <1>1 DEF Bounded
<1> QED BY <1>2 DEF BoundsInv

\* A pass, from the list to the report.
LEMMA PassKeepsBounds ==
    ASSUME TypeOK, BoundsInv, NEW c \in Autoscalers,
           \/ PostRead(c) \/ HpaList(c) \/ HpaMeasure(c) \/ HpaUnmeasured(c) \/ HpaDecide(c)
           \/ HpaDecideFails(c) \/ HpaPostWrite(c) \/ HpaPostFails(c) \/ HpaReport(c)
           \/ HpaReportFails(c)
    PROVE  BoundsInv'
<1>0. /\ auto \in [Autoscalers -> AutoRecords] /\ auto[c] \in AutoRecords
      /\ posts \in [Autoscalers \cup {User} -> PostRecords] /\ posts[c] \in PostRecords
      /\ hpa \in HpaRow /\ dep \in Row /\ load \in Nat
      /\ Bounded(auto[c], posts[c]) /\ RowsOrdered
    BY LoadsAssumption DEF TypeOK, AutoRecords, PostRecords, BoundsInv
<1>1. CASE PostRead(c)
    <2>1. \A d \in Autoscalers \ {c} : auto'[d] = auto[d] /\ posts'[d] = posts[d]
        BY <1>0, <1>1 DEF PostRead
    <2>2. /\ posts[c].at = "sent" /\ posts'[c].body.replicas = posts[c].body.replicas
          /\ auto' = auto
        BY <1>0, <1>1 DEF PostRead, Post, PostRecords, Row
    <2>3. Bounded(auto'[c], posts'[c])
        BY <1>0, <2>2 DEF Bounded
    <2>4. RowsOrdered'
        BY <1>0, <1>1 DEF PostRead, RowsOrdered
    <2> QED BY <2>1, <2>3, <2>4, AutoscalerKeepsBounds
<1>2. CASE HpaList(c)
    <2>1. \A d \in Autoscalers \ {c} : auto'[d] = auto[d] /\ posts'[d] = posts[d]
        BY <1>0, <1>2 DEF HpaList
    <2>2. /\ auto'[c].min = hpa.min /\ auto'[c].max = hpa.max /\ posts'[c] = posts[c]
          /\ posts[c].at = "none"
        BY <1>0, <1>2 DEF HpaList, Resting, Bounded
    <2>3. Bounded(auto'[c], posts'[c])
        BY <1>0, <2>2 DEF Bounded, RowsOrdered, HpaRow
    <2>4. RowsOrdered'
        BY <1>0, <1>2 DEF HpaList, RowsOrdered
    <2> QED BY <2>1, <2>3, <2>4, AutoscalerKeepsBounds
<1>3. CASE HpaMeasure(c) \/ HpaUnmeasured(c)
    <2>1. \A d \in Autoscalers \ {c} : auto'[d] = auto[d] /\ posts'[d] = posts[d]
        BY <1>0, <1>3 DEF HpaMeasure, HpaUnmeasured
    <2>2. /\ auto'[c].min = auto[c].min /\ auto'[c].max = auto[c].max
          /\ posts'[c] = posts[c] /\ posts[c].at = "none"
        BY <1>0, <1>3 DEF HpaMeasure, HpaUnmeasured, AutoRecords, Bounded
    <2>3. Bounded(auto'[c], posts'[c])
        BY <1>0, <2>2 DEF Bounded
    <2>4. RowsOrdered'
        BY <1>0, <1>3 DEF HpaMeasure, HpaUnmeasured, RowsOrdered
    <2> QED BY <2>1, <2>3, <2>4, AutoscalerKeepsBounds
<1>4. CASE HpaDecide(c)
    <2> DEFINE desired == Desired(dep.replicas, auto[c].avg, auto[c].min, auto[c].max)
    <2>0. auto[c].min <= desired /\ desired <= auto[c].max /\ posts[c].at = "none"
        BY <1>0, <1>4, DesiredWithin DEF AutoRecords, Row, Bounded, HpaDecide
    <2> HIDE DEF desired
    <2>1. \A d \in Autoscalers \ {c} : auto'[d] = auto[d] /\ posts'[d] = posts[d]
        BY <1>0, <1>4 DEF HpaDecide
    <2>2. CASE auto'[c] = Resting /\ posts' = posts
        <3>1. Bounded(auto'[c], posts'[c])
            BY <2>0, <2>2 DEF Bounded, Resting
        <3>2. RowsOrdered'
            BY <1>0, <1>4 DEF HpaDecide, RowsOrdered
        <3> QED BY <2>1, <3>1, <3>2, AutoscalerKeepsBounds
    <2>3. CASE auto'[c] = [auto[c] EXCEPT !.at = "reporting", !.current = dep.replicas]
               /\ posts' = posts
        <3>1. auto'[c].min = auto[c].min /\ auto'[c].max = auto[c].max
            BY <1>0, <2>3 DEF AutoRecords
        <3>2. Bounded(auto'[c], posts'[c])
            BY <1>0, <2>0, <2>3, <3>1 DEF Bounded
        <3>3. RowsOrdered'
            BY <1>0, <1>4 DEF HpaDecide, RowsOrdered
        <3> QED BY <2>1, <3>2, <3>3, AutoscalerKeepsBounds
    <2>4. CASE /\ auto'[c] = [auto[c] EXCEPT !.at = "posting", !.current = dep.replicas]
               /\ posts' = [posts EXCEPT ![c] =
                                Post("sent", [dep EXCEPT !.replicas = desired], FALSE)]
        <3>1. /\ auto'[c].min = auto[c].min /\ auto'[c].max = auto[c].max
              /\ auto'[c].at = "posting"
            BY <1>0, <2>4 DEF AutoRecords
        <3>2. posts'[c].body.replicas = desired
            BY <1>0, <2>4 DEF Post, Row
        <3>3. Bounded(auto'[c], posts'[c])
            BY <1>0, <2>0, <3>1, <3>2 DEF Bounded
        <3>4. RowsOrdered'
            BY <1>0, <1>4 DEF HpaDecide, RowsOrdered
        <3> QED BY <2>1, <3>3, <3>4, AutoscalerKeepsBounds
    <2> QED BY <1>0, <1>4, <2>2, <2>3, <2>4 DEF HpaDecide, desired
<1>5. CASE HpaDecideFails(c) \/ HpaReport(c) \/ HpaReportFails(c)
    <2>1. \A d \in Autoscalers \ {c} : auto'[d] = auto[d] /\ posts'[d] = posts[d]
        BY <1>0, <1>5 DEF HpaDecideFails, HpaReport, HpaReportFails
    <2>2. auto'[c] = Resting /\ posts'[c] = posts[c] /\ posts[c].at = "none"
        BY <1>0, <1>5 DEF HpaDecideFails, HpaReport, HpaReportFails, Bounded
    <2>3. Bounded(auto'[c], posts'[c])
        BY <2>2 DEF Bounded, Resting
    <2>4. RowsOrdered'
        BY <1>0, <1>5 DEF HpaDecideFails, HpaReport, HpaReportFails, RowsOrdered, HpaRow
    <2> QED BY <2>1, <2>3, <2>4, AutoscalerKeepsBounds
<1>6. CASE HpaPostWrite(c) \/ HpaPostFails(c)
    <2>1. \A d \in Autoscalers \ {c} : auto'[d] = auto[d] /\ posts'[d] = posts[d]
        BY <1>0, <1>6 DEF HpaPostWrite, HpaPostFails, PostWritten
    <2>2. /\ auto'[c].min = auto[c].min /\ auto'[c].max = auto[c].max
          /\ posts'[c] = NoPost
        BY <1>0, <1>6 DEF HpaPostWrite, HpaPostFails, PostWritten, AutoRecords
    <2>3. Bounded(auto'[c], posts'[c])
        BY <1>0, <2>2 DEF Bounded, NoPost, Post
    <2>4. RowsOrdered'
        BY <1>0, <1>6 DEF HpaPostWrite, HpaPostFails, RowsOrdered
    <2> QED BY <2>1, <2>3, <2>4, AutoscalerKeepsBounds
<1> QED BY <1>1, <1>2, <1>3, <1>4, <1>5, <1>6

LEMMA BoundsInductive == TypeOK /\ BoundsInv /\ [Next]_vars => BoundsInv'
<1> SUFFICES ASSUME TypeOK, BoundsInv, [Next]_vars PROVE BoundsInv'
    OBVIOUS
<1>0. /\ auto \in [Autoscalers -> AutoRecords]
      /\ posts \in [Autoscalers \cup {User} -> PostRecords]
      /\ hpa \in HpaRow /\ hpaApply \in [active : BOOLEAN, row : HpaRow]
    BY DEF TypeOK, AutoRecords, PostRecords
<1>1. CASE Tick
    <2>1. \A c \in Autoscalers : /\ auto'[c].min = auto[c].min /\ auto'[c].max = auto[c].max
                                 /\ auto'[c].at = auto[c].at /\ posts'[c] = posts[c]
        BY <1>0, <1>1 DEF Tick, AutoRecords
    <2>2. /\ hpa'.min = hpa.min /\ hpa'.max = hpa.max
          /\ hpaApply'.row.min = hpaApply.row.min /\ hpaApply'.row.max = hpaApply.row.max
        BY <1>0, <1>1 DEF Tick, HpaRow
    <2> QED BY <2>1, <2>2 DEF BoundsInv, RowsOrdered, Bounded
<1>2. ASSUME NEW x \in Autoscalers \cup {User}, PostRead(x) PROVE BoundsInv'
    <2>1. CASE x \in Autoscalers
        BY <1>2, <2>1, PassKeepsBounds
    <2>2. CASE x = User
        <3>1. \A c \in Autoscalers : posts'[c] = posts[c]
            BY <1>0, <1>2, <2>2, UserAssumption DEF PostRead
        <3> QED BY <1>2, <3>1, OthersKeepBounds DEF PostRead
    <2> QED BY <2>1, <2>2
<1>3. CASE (\E n \in ReplicaCounts, t \in Templates : UserApplies(n, t)) \/ UserPostWrite
    <2>1. \A c \in Autoscalers : posts'[c] = posts[c]
        BY <1>0, <1>3, UserAssumption DEF UserApplies, UserPostWrite, PostWritten
    <2> QED BY <1>3, <2>1, OthersKeepBounds DEF UserApplies, UserPostWrite
<1>4. ASSUME NEW c \in Autoscalers,
             \/ HpaList(c) \/ HpaMeasure(c) \/ HpaUnmeasured(c) \/ HpaDecide(c)
             \/ HpaDecideFails(c) \/ HpaPostWrite(c) \/ HpaPostFails(c) \/ HpaReport(c)
             \/ HpaReportFails(c)
      PROVE  BoundsInv'
    BY <1>4, PassKeepsBounds
<1>5. ASSUME NEW spec \in HpaSpecs, HpaApplyRead(spec) PROVE BoundsInv'
    <2>1. UNCHANGED <<hpa, auto, posts>> /\ hpaApply'.row.min <= hpaApply'.row.max
        BY <1>5 DEF HpaApplyRead, Applied, Valid
    <2> QED BY <2>1 DEF BoundsInv, RowsOrdered, Bounded
<1>6. CASE HpaApplyWrite \/ DeleteHpa
    <2>1. UNCHANGED <<auto, posts>> /\ RowsOrdered'
        BY <1>6 DEF HpaApplyWrite, DeleteHpa, NoApply, NoHpa, BoundsInv, RowsOrdered
    <2> QED BY <2>1 DEF BoundsInv, Bounded
<1>7. CASE DeleteDeployment \/ DeployMirror \/ DeployList \/ DeployCompare \/ DeployUpsert
           \/ DeployUpsertFails \/ DeployReadStatus \/ DeployMirrorFails \/ ReplicaSetDeleted
    BY <1>7, OthersKeepBounds DEF DeleteDeployment, DeployMirror, DeployList, DeployCompare,
       DeployUpsert, DeployUpsertFails, DeployReadStatus, DeployMirrorFails, ReplicaSetDeleted
<1>8. CASE (\E n \in Reports : ReplicaSetReports(n)) \/ (\E n \in Loads : LoadChanges(n))
    BY <1>8, OthersKeepBounds DEF ReplicaSetReports, LoadChanges
<1>9. CASE UNCHANGED vars
    BY <1>9, OthersKeepBounds DEF vars
<1> QED BY <1>1, <1>2, <1>3, <1>4, <1>5, <1>6, <1>7, <1>8, <1>9 DEF Next

(***************************************************************************)
(* Whatever an autoscaler writes is within the bounds it listed and never  *)
(* zero: for any number of autoscalers, any HPAs users apply, loads and    *)
(* target, and although HPA and Deployment change during its pass.         *)
(***************************************************************************)
THEOREM BoundsKept == Spec => ScalesWithinBounds
<1> DEFINE Within ==
        \A c \in Autoscalers :
            HpaPostWrite(c) /\ Effective(c) =>
                /\ dep'.replicas > 0
                /\ auto[c].min <= dep'.replicas /\ dep'.replicas <= auto[c].max
<1>1. TypeOK /\ BoundsInv => Within
    <2> SUFFICES ASSUME TypeOK, BoundsInv, NEW c \in Autoscalers, HpaPostWrite(c), Effective(c)
                 PROVE  /\ dep'.replicas > 0
                        /\ auto[c].min <= dep'.replicas /\ dep'.replicas <= auto[c].max
        OBVIOUS
    <2>1. posts[c].at = "read" /\ dep' = posts[c].body
        BY DEF HpaPostWrite, PostWritten
    <2>2. posts[c].body.replicas \in Nat /\ auto[c].min \in Nat
        BY DEF TypeOK, Row
    <2> QED BY <2>1, <2>2 DEF BoundsInv, Bounded
<1>2. TypeOK /\ BoundsInv /\ [Next]_vars => TypeOK' /\ BoundsInv'
    BY TypeInductive, BoundsInductive
<1>3. TypeOK /\ BoundsInv => [Within]_vars
    BY <1>1
<1> HIDE DEF Within
<1>4. Spec => [][Within]_vars
    BY TypeInit, BoundsInit, <1>2, <1>3, PTL DEF Spec
<1> QED BY <1>4 DEF ScalesWithinBounds, Within

=============================================================================
