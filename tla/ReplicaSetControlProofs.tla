----------------------- MODULE ReplicaSetControlProofs -----------------------
(***************************************************************************)
(* Proofs about ReplicaSetControl, for any number of controller instances, *)
(* pods, replica counts and disturbances.                                  *)
(***************************************************************************)
EXTENDS ReplicaSetControl, FiniteSetTheorems, TLAPS

\* created_at orders the pods there are.
OlderIsOrder ==
    /\ \A p, q \in Names : <<p, q>> \in older => phase[p] # "Absent" /\ phase[q] # "Absent"
    /\ \A p \in Names : <<p, p>> \notin older
    /\ \A p, q, r \in Names : <<p, q>> \in older /\ <<q, r>> \in older => <<p, r>> \in older

\* A pod between its created_at and its row belongs to one instance.
InsertingOwned ==
    /\ \A c \in Controllers : ctl[c].inserting # NoName =>
            phase[ctl[c].inserting] = "Inserting" /\ ctl[c].creates > 0
    /\ \A b, c \in Controllers :
            b # c /\ ctl[c].inserting # NoName => ctl[b].inserting # ctl[c].inserting

\* Only a pass that has decided has something to do, and no more to create than
\* spec.replicas was when it listed.
ActingOnly ==
    \A c \in Controllers :
        /\ ctl[c].at # "acting" => ctl[c].creates = 0 /\ ctl[c].victims = {}
        /\ ctl[c].creates <= ctl[c].desired

\* Undisturbed, every pass works for the current spec.replicas.
DesiredCurrent ==
    ~disturbed => \A c \in Controllers : ctl[c].at # "idle" => ctl[c].desired = rs.desired

\* The alive pods older than p.
Elders(p) == {q \in Alive : <<q, p>> \in older}

\* Undisturbed, whatever still is to be deleted has spec.replicas elders - also
\* when its name has since been given to a new pod.
VictimsHaveElders ==
    ~disturbed => \A c \in Controllers : \A p \in ctl[c].victims :
        /\ Cardinality(Alive) >= rs.desired
        /\ phase[p] # "Absent" => Cardinality(Elders(p)) >= rs.desired

\* The creates still to come, of all instances: <<c, k>> is the k-th from last
\* of c.
Pending == {e \in Controllers \X (Nat \ {0}) : e[2] <= ctl[e[1]].creates}

\* Undisturbed, there are not more of them than the bound leaves room for.
CreatesFit ==
    ~disturbed /\ Pending # {} =>
        Cardinality(Alive) + Cardinality(Pending) <= Cardinality(Controllers) * rs.desired

RSInv ==
    /\ TypeOK /\ OlderIsOrder /\ InsertingOwned /\ ActingOnly /\ DesiredCurrent
    /\ VictimsHaveElders /\ CreatesFit

-----------------------------------------------------------------------------
\* Counting pods.
LEMMA PodSets ==
    ASSUME NEW S, S \subseteq Names
    PROVE  IsFiniteSet(S) /\ Cardinality(S) \in Nat
BY FiniteAssumption, FS_Subset, FS_CardinalityType

LEMMA UpTo ==
    ASSUME NEW n \in Nat
    PROVE  IsFiniteSet(1 .. n) /\ Cardinality(1 .. n) = n
BY FS_Interval

LEMMA OneMore ==
    ASSUME NEW n \in Nat, NEW d \in Nat
    PROVE  (n - 1) * d \in Int /\ (n - 1) * d + d = n * d
OBVIOUS

LEMMA PodSubset ==
    ASSUME NEW S, NEW T, S \subseteq T, T \subseteq Names
    PROVE  Cardinality(S) <= Cardinality(T)
BY PodSets, FS_Subset

-----------------------------------------------------------------------------
\* The record of a pass that is over, and of an apply.
LEMMA EmptyRecords ==
    /\ Resting \in [at : {"idle", "listing", "acting"}, desired : Nat, creates : Nat,
                    inserting : Names \cup {NoName}, victims : SUBSET Names,
                    observed : Counts]
    /\ Resting.at = "idle" /\ Resting.desired = 0 /\ Resting.creates = 0
    /\ Resting.inserting = NoName /\ Resting.victims = {}
    /\ NoApply \in [active : BOOLEAN, desired : Nat, found : BOOLEAN, status : Counts]
    /\ NoPods \in Counts
BY DEF Resting, NoApply, NoPods, Counts

\* Every step keeps the variables in their types.
LEMMA TypeInductive == TypeOK /\ InsertingOwned /\ [Next]_vars => TypeOK'
<1> SUFFICES ASSUME TypeOK, InsertingOwned, [Next]_vars PROVE TypeOK'
    OBVIOUS
<1> USE DEF TypeOK
<1>1. ASSUME NEW c \in Controllers, ListReplicaSets(c) PROVE TypeOK'
    BY <1>1 DEF ListReplicaSets, Resting, NoPods, Counts
<1>2. ASSUME NEW c \in Controllers, ListPods(c) PROVE TypeOK'
    <2>1. Cardinality(Alive) \in Nat /\ Cardinality(Ready) \in Nat
        BY PodSets DEF Alive, Ready
    <2>2. Missing(Alive, ctl[c].desired) \in Nat
        BY <2>1 DEF Missing
    <2>3. Victims(Alive, ctl[c].desired) \in SUBSET Names
        BY DEF Victims, Alive
    <2> DEFINE obs == [replicas |-> Cardinality(Alive), ready |-> Cardinality(Ready)]
    <2>4. obs \in Counts
        BY <2>1 DEF Counts
    <2> DEFINE Passes == [at : {"idle", "listing", "acting"}, desired : Nat, creates : Nat,
                          inserting : Names \cup {NoName}, victims : SUBSET Names,
                          observed : Counts]
               new == [ctl[c] EXCEPT !.at = "acting",
                         !.creates = Missing(Alive, ctl[c].desired),
                         !.victims = Victims(Alive, ctl[c].desired), !.observed = obs]
    <2>5. ctl' = [ctl EXCEPT ![c] = new]
        BY <1>2 DEF ListPods
    <2>6. UNCHANGED <<rs, phase, older, apply, disturbances, disturbed>>
        BY <1>2 DEF ListPods
    <2> HIDE DEF obs
    <2>7. new \in Passes
        BY <2>2, <2>3, <2>4
    <2> HIDE DEF new
    <2> QED BY <2>5, <2>6, <2>7
<1>3. ASSUME NEW c \in Controllers, CreateStamp(c) PROVE TypeOK'
    BY <1>3 DEF CreateStamp, PodPhases
<1>4. ASSUME NEW c \in Controllers, CreateInsert(c) PROVE TypeOK'
    BY <1>4 DEF CreateInsert, PodPhases, InsertingOwned
<1>5. ASSUME NEW c \in Controllers, CreateFails(c) PROVE TypeOK'
    BY <1>5 DEF CreateFails, Forget, PodPhases, InsertingOwned
<1>6. ASSUME NEW c \in Controllers, CreateCollides(c) PROVE TypeOK'
    BY <1>6 DEF CreateCollides, Creating
<1>7. ASSUME NEW c \in Controllers, NEW p \in Names, DeleteVictim(c, p) \/ DeleteFails(c, p)
      PROVE  TypeOK'
    <2>1. phase' \in [Names -> PodPhases] /\ older' \in SUBSET (Names \X Names)
        BY <1>7 DEF DeleteVictim, DeleteFails, Forget, PodPhases
    <2>2. ctl' = [ctl EXCEPT ![c].victims = @ \ {p}]
        BY <1>7 DEF DeleteVictim, DeleteFails
    <2>3. UNCHANGED <<rs, apply, disturbances, disturbed>>
        BY <1>7 DEF DeleteVictim, DeleteFails
    <2> QED BY <2>1, <2>2, <2>3
<1>8. ASSUME NEW c \in Controllers,
             UpdateReplicaSetStatus(c) \/ UpdateStatusFails(c) \/ ListPodsFails(c)
      PROVE  TypeOK'
    BY <1>8, EmptyRecords DEF UpdateReplicaSetStatus, UpdateStatusFails, ListPodsFails
<1>9. ASSUME NEW p \in Names, PodRuns(p) \/ PodFails(p) \/ UserDeletesPod(p) PROVE TypeOK'
    <2>1. phase' \in [Names -> PodPhases] /\ older' \in SUBSET (Names \X Names)
        BY <1>9 DEF PodRuns, PodFails, UserDeletesPod, Forget, PodPhases
    <2>2. disturbances' \in 0 .. MaxDisturbances /\ disturbed' \in BOOLEAN
        <3>1. \/ disturbances' = disturbances /\ disturbed' = disturbed
              \/ Disturb
            BY <1>9 DEF PodRuns, PodFails, UserDeletesPod
        <3>2. disturbances' \in 0 .. MaxDisturbances
            BY <3>1, MaxDisturbancesAssumption DEF Disturb
        <3>3. disturbed' \in BOOLEAN
            BY <3>1, Zenon DEF Disturb
        <3> QED BY <3>2, <3>3
    <2> QED BY <1>9, <2>1, <2>2 DEF PodRuns, PodFails, UserDeletesPod
<1>10. ASSUME NEW d \in ReplicaCounts, UpsertReplicaSetRead(d) PROVE TypeOK'
    BY <1>10, MaxDisturbancesAssumption, ReplicaCountsAssumption DEF UpsertReplicaSetRead, Disturb
<1>11. CASE UpsertReplicaSetWrite
    BY <1>11, EmptyRecords DEF UpsertReplicaSetWrite
<1>12. CASE DeleteReplicaSet
    BY <1>12, EmptyRecords, MaxDisturbancesAssumption DEF DeleteReplicaSet, Disturb
<1>13. CASE UNCHANGED vars
    BY <1>13 DEF vars
<1> QED BY <1>1, <1>2, <1>3, <1>4, <1>5, <1>6, <1>7, <1>8, <1>9, <1>10, <1>11, <1>12, <1>13
        DEF Next

-----------------------------------------------------------------------------
\* A pod that goes takes its place in the order with it.
LEMMA ForgetKeepsOrder ==
    ASSUME TypeOK, OlderIsOrder, NEW p \in Names, Forget(p)
    PROVE  OlderIsOrder'
BY DEF TypeOK, OlderIsOrder, Forget

LEMMA OrderInductive == TypeOK /\ OlderIsOrder /\ InsertingOwned /\ [Next]_vars => OlderIsOrder'
<1> SUFFICES ASSUME TypeOK, OlderIsOrder, InsertingOwned, [Next]_vars PROVE OlderIsOrder'
    OBVIOUS
<1>1. CASE UNCHANGED <<phase, older>>
    BY <1>1 DEF OlderIsOrder
<1>2. ASSUME NEW c \in Controllers, CreateStamp(c) PROVE OlderIsOrder'
    <2>1. PICK p \in Names :
            /\ phase[p] = "Absent"
            /\ phase' = [phase EXCEPT ![p] = "Inserting"]
            /\ older' = older \cup {<<q, p>> : q \in {n \in Names : phase[n] # "Absent"}}
        BY <1>2 DEF CreateStamp
    <2>2. \A q, r \in Names : <<q, r>> \in older' <=>
                <<q, r>> \in older \/ (r = p /\ phase[q] # "Absent")
        BY <2>1
    <2>3. \A q \in Names : phase'[q] = IF q = p THEN "Inserting" ELSE phase[q]
        BY <2>1 DEF TypeOK
    <2> QED BY <2>1, <2>2, <2>3 DEF OlderIsOrder
<1>3. ASSUME NEW c \in Controllers, CreateInsert(c) PROVE OlderIsOrder'
    <2>1. phase' = [phase EXCEPT ![ctl[c].inserting] = "Pending"] /\ older' = older
        BY <1>3 DEF CreateInsert
    <2> QED BY <2>1 DEF OlderIsOrder, TypeOK
<1>4. ASSUME NEW c \in Controllers, CreateFails(c) PROVE OlderIsOrder'
    <2>1. ctl[c].inserting \in Names
        BY <1>4 DEF CreateFails, TypeOK
    <2> QED BY <1>4, <2>1, ForgetKeepsOrder DEF CreateFails
<1>5. ASSUME NEW c \in Controllers, NEW p \in Names, DeleteVictim(c, p) PROVE OlderIsOrder'
    BY <1>1, <1>5, ForgetKeepsOrder DEF DeleteVictim
<1>6. ASSUME NEW p \in Names, UserDeletesPod(p) PROVE OlderIsOrder'
    BY <1>6, ForgetKeepsOrder DEF UserDeletesPod
<1>7. ASSUME NEW p \in Names, PodRuns(p) \/ PodFails(p) PROVE OlderIsOrder'
    <2>1. older' = older /\ \A q \in Names : phase[q] # "Absent" => phase'[q] # "Absent"
        BY <1>7 DEF PodRuns, PodFails, TypeOK
    <2> QED BY <2>1 DEF OlderIsOrder
<1>8. CASE \/ \E c \in Controllers :
                \/ ListReplicaSets(c) \/ ListPods(c) \/ CreateCollides(c)
                \/ \E p \in Names : DeleteFails(c, p)
                \/ UpdateReplicaSetStatus(c) \/ UpdateStatusFails(c) \/ ListPodsFails(c)
           \/ \E d \in ReplicaCounts : UpsertReplicaSetRead(d)
           \/ UpsertReplicaSetWrite \/ DeleteReplicaSet \/ UNCHANGED vars
    BY <1>1, <1>8 DEF ListReplicaSets, ListPods, CreateCollides, DeleteFails,
        UpdateReplicaSetStatus, UpdateStatusFails, ListPodsFails, UpsertReplicaSetRead,
        UpsertReplicaSetWrite, DeleteReplicaSet, vars
<1> QED BY <1>2, <1>3, <1>4, <1>5, <1>6, <1>7, <1>8 DEF Next

\* Passes keep to what they listed, and a pod being inserted to its inserter.
LEMMA PassesInductive ==
    /\ TypeOK /\ InsertingOwned /\ ActingOnly /\ DesiredCurrent /\ TypeOK' /\ [Next]_vars
    => InsertingOwned' /\ ActingOnly' /\ DesiredCurrent'
<1> DEFINE Goal == InsertingOwned /\ ActingOnly /\ DesiredCurrent
<1> SUFFICES ASSUME TypeOK, InsertingOwned, ActingOnly, DesiredCurrent, TypeOK', [Next]_vars
             PROVE  Goal'
    OBVIOUS
<1> USE NoNameAssumption DEF TypeOK, InsertingOwned, ActingOnly, DesiredCurrent
<1>1. ASSUME NEW c \in Controllers, ListReplicaSets(c) PROVE Goal'
    <2> DEFINE new == [Resting EXCEPT !.at = "listing", !.desired = rs.desired]
    <2>1. /\ new.at = "listing" /\ new.desired = rs.desired /\ new.creates = 0
          /\ new.inserting = NoName /\ new.victims = {}
        BY DEF Resting
    <2>2. ctl' = [ctl EXCEPT ![c] = new] /\ UNCHANGED <<rs, phase>>
        BY <1>1 DEF ListReplicaSets
    <2> HIDE DEF new
    <2>3. \A b \in Controllers : ctl'[b] = IF b = c THEN new ELSE ctl[b]
        BY <2>2
    <2>4. ~disturbed' => ~disturbed \/ \A b \in Controllers \ {c} : ctl[b].at = "idle"
        BY <1>1 DEF ListReplicaSets
    <2> QED BY <2>1, <2>2, <2>3, <2>4
<1>2. ASSUME NEW c \in Controllers, ListPods(c) PROVE Goal'
    <2>1. /\ ctl[c].at = "listing" /\ ctl'[c].at = "acting"
          /\ ctl'[c].desired = ctl[c].desired /\ ctl'[c].inserting = ctl[c].inserting
          /\ ctl'[c].creates = Missing(Alive, ctl[c].desired)
        BY <1>2 DEF ListPods
    <2>2. \A b \in Controllers \ {c} : ctl'[b] = ctl[b]
        BY <1>2 DEF ListPods
    <2>3. Missing(Alive, ctl[c].desired) <= ctl[c].desired
        BY PodSets DEF Missing, Alive
    <2>4. UNCHANGED <<rs, phase, disturbed>>
        BY <1>2 DEF ListPods
    <2>5. ctl'[c].inserting = NoName
        BY <2>1
    <2>6. InsertingOwned'
        <3>1. \A b \in Controllers : ctl'[b].inserting # NoName => b # c /\ ctl'[b] = ctl[b]
            BY <2>2, <2>5, Zenon
        <3>2. ASSUME NEW b \in Controllers, ctl'[b].inserting # NoName
              PROVE  phase'[ctl'[b].inserting] = "Inserting" /\ ctl'[b].creates > 0
            BY <2>4, <3>1, <3>2, Zenon
        <3>3. ASSUME NEW a \in Controllers, NEW b \in Controllers, a # b,
                     ctl'[b].inserting # NoName
              PROVE  ctl'[a].inserting # ctl'[b].inserting
            <4>1. ctl'[b] = ctl[b] /\ (ctl'[a].inserting = NoName \/ ctl'[a] = ctl[a])
                BY <3>1, <3>3, Zenon
            <4>2. CASE ctl'[a].inserting = NoName
                BY <3>3, <4>2, Zenon
            <4>3. CASE ctl'[a] = ctl[a]
                <5>1. ctl[b].inserting # NoName => ctl[a].inserting # ctl[b].inserting
                    BY <3>3, Zenon
                <5> QED BY <3>3, <4>1, <4>3, <5>1, Zenon
            <4> QED BY <4>1, <4>2, <4>3, Zenon
        <3> QED BY <3>2, <3>3, Zenon
    <2>7. ActingOnly'
        BY <2>1, <2>2, <2>3
    <2>8. DesiredCurrent'
        BY <2>1, <2>2, <2>4
    <2> QED BY <2>6, <2>7, <2>8
<1>3. ASSUME NEW c \in Controllers, CreateStamp(c) PROVE Goal'
    BY <1>3 DEF CreateStamp, Creating
<1>4. ASSUME NEW c \in Controllers, CreateInsert(c) PROVE Goal'
    BY <1>4 DEF CreateInsert
<1>5. ASSUME NEW c \in Controllers, CreateFails(c) PROVE Goal'
    BY <1>5 DEF CreateFails, Forget
<1>6. ASSUME NEW c \in Controllers, CreateCollides(c) PROVE Goal'
    BY <1>6 DEF CreateCollides, Creating
<1>7. ASSUME NEW c \in Controllers, NEW p \in Names, DeleteVictim(c, p) \/ DeleteFails(c, p)
      PROVE  Goal'
    <2>1. ctl' = [ctl EXCEPT ![c].victims = @ \ {p}] /\ UNCHANGED <<rs, disturbed>>
        BY <1>7 DEF DeleteVictim, DeleteFails
    <2>2. \A q \in Names : phase[q] = "Inserting" => phase'[q] = "Inserting"
        BY <1>7 DEF DeleteVictim, DeleteFails, Forget
    <2> QED BY <2>1, <2>2
<1>8. ASSUME NEW c \in Controllers,
             UpdateReplicaSetStatus(c) \/ UpdateStatusFails(c) \/ ListPodsFails(c)
      PROVE  Goal'
    <2>1. ctl' = [ctl EXCEPT ![c] = Resting] /\ UNCHANGED <<phase, disturbed>>
        BY <1>8 DEF UpdateReplicaSetStatus, UpdateStatusFails, ListPodsFails
    <2>2. rs'.desired = rs.desired
        BY <1>8 DEF UpdateReplicaSetStatus, UpdateStatusFails, ListPodsFails
    <2>3. \A b \in Controllers : ctl'[b] = IF b = c THEN Resting ELSE ctl[b]
        BY <2>1
    <2> QED BY <2>1, <2>2, <2>3, EmptyRecords
<1>9. ASSUME NEW p \in Names, PodRuns(p) \/ PodFails(p) \/ UserDeletesPod(p) PROVE Goal'
    <2>1. ctl' = ctl /\ rs' = rs /\ (~disturbed' => ~disturbed)
        BY <1>9 DEF PodRuns, PodFails, UserDeletesPod, Disturb
    <2>2. \A q \in Names : phase[q] = "Inserting" => phase'[q] = "Inserting"
        BY <1>9 DEF PodRuns, PodFails, UserDeletesPod, Forget
    <2> QED BY <2>1, <2>2
<1>10. CASE (\E d \in ReplicaCounts : UpsertReplicaSetRead(d)) \/ UpsertReplicaSetWrite
            \/ DeleteReplicaSet
    <2>1. disturbed' /\ ctl' = ctl /\ phase' = phase
        BY <1>10 DEF UpsertReplicaSetRead, UpsertReplicaSetWrite, DeleteReplicaSet, Disturb
    <2> QED BY <2>1
<1>11. CASE UNCHANGED vars
    BY <1>11 DEF vars
<1> QED BY <1>1, <1>2, <1>3, <1>4, <1>5, <1>6, <1>7, <1>8, <1>9, <1>10, <1>11 DEF Next

-----------------------------------------------------------------------------
\* What a step does to the pods alive and to their order, in the terms of the
\* invariants.
LEMMA AliveAfterStamp ==
    ASSUME TypeOK, OlderIsOrder, NEW c \in Controllers, CreateStamp(c)
    PROVE  /\ Alive' = Alive
           /\ \A x \in Names : phase[x] # "Absent" => Elders(x)' = Elders(x)
           /\ \A x \in Names : phase[x] = "Absent" /\ phase'[x] # "Absent" => Elders(x)' = Alive
<1>1. PICK p \in Names :
        /\ phase[p] = "Absent"
        /\ phase' = [phase EXCEPT ![p] = "Inserting"]
        /\ older' = older \cup {<<q, p>> : q \in {n \in Names : phase[n] # "Absent"}}
    BY DEF CreateStamp
<1>2. \A q \in Names : phase'[q] = IF q = p THEN "Inserting" ELSE phase[q]
    BY <1>1 DEF TypeOK
<1>3. Alive' = Alive
    BY <1>1, <1>2 DEF Alive
<1>4. \A q, r \in Names : <<q, r>> \in older' <=>
            <<q, r>> \in older \/ (r = p /\ phase[q] # "Absent")
    BY <1>1
<1>5. ASSUME NEW x \in Names, phase[x] # "Absent" PROVE Elders(x)' = Elders(x)
    BY <1>1, <1>3, <1>4, <1>5 DEF Elders, Alive
<1>6. ASSUME NEW x \in Names, phase[x] = "Absent", phase'[x] # "Absent" PROVE Elders(x)' = Alive
    <2>1. x = p
        BY <1>2, <1>6
    <2>2. \A q \in Alive : <<q, p>> \in older'
        BY <1>4 DEF Alive
    <2> QED BY <1>3, <2>1, <2>2 DEF Elders
<1> QED BY <1>3, <1>5, <1>6

LEMMA AliveAfterInsert ==
    ASSUME TypeOK, InsertingOwned, NEW c \in Controllers, CreateInsert(c)
    PROVE  /\ Alive' = Alive \cup {ctl[c].inserting} /\ ctl[c].inserting \in Names \ Alive
           /\ \A x \in Names : Elders(x) \subseteq Elders(x)'
           /\ \A x \in Names : phase'[x] # "Absent" => phase[x] # "Absent"
<1> DEFINE p == ctl[c].inserting
<1>1. p \in Names /\ phase[p] = "Inserting" /\ older' = older
    BY DEF CreateInsert, InsertingOwned, TypeOK
<1>2. \A q \in Names : phase'[q] = IF q = p THEN "Pending" ELSE phase[q]
    BY DEF CreateInsert, TypeOK
<1> HIDE DEF p
<1>3. Alive' = Alive \cup {p} /\ p \in Names \ Alive
    BY <1>1, <1>2 DEF Alive
<1>4. \A x \in Names : Elders(x) \subseteq Elders(x)'
    BY <1>1, <1>3 DEF Elders
<1> QED BY <1>1, <1>2, <1>3, <1>4 DEF p

LEMMA AliveAfterForget ==
    ASSUME TypeOK, OlderIsOrder, NEW p \in Names, Forget(p)
    PROVE  /\ Alive' = Alive \ {p}
           /\ \A x \in Names : phase'[x] # "Absent" => phase[x] # "Absent" /\ x # p
           /\ \A x \in Names : x # p => Elders(x)' = Elders(x) \ {p}
<1>1. \A q \in Names : phase'[q] = IF q = p THEN "Absent" ELSE phase[q]
    BY DEF Forget, TypeOK
<1>2. Alive' = Alive \ {p}
    BY <1>1 DEF Alive
<1>3. \A q, r \in Names : <<q, r>> \in older' <=> <<q, r>> \in older /\ q # p /\ r # p
    BY DEF Forget
<1>4. ASSUME NEW x \in Names, x # p PROVE Elders(x)' = Elders(x) \ {p}
    BY <1>2, <1>3, <1>4 DEF Elders, Alive
<1> QED BY <1>1, <1>2, <1>4

\* Deletions leave every victim its elders: the elders of a deleted pod are
\* elders of whatever it was an elder of.
LEMMA VictimsInductive ==
    RSInv /\ TypeOK' /\ [Next]_vars => VictimsHaveElders'
<1> SUFFICES ASSUME RSInv, TypeOK', [Next]_vars, ~disturbed'
             PROVE  \A b \in Controllers : \A x \in ctl'[b].victims :
                        /\ Cardinality(Alive') >= rs'.desired
                        /\ phase'[x] # "Absent" => Cardinality(Elders(x)') >= rs'.desired
    BY DEF VictimsHaveElders
<1> DEFINE Goal == \A b \in Controllers : \A x \in ctl'[b].victims :
                        /\ Cardinality(Alive') >= rs'.desired
                        /\ phase'[x] # "Absent" => Cardinality(Elders(x)') >= rs'.desired
<1>1. /\ TypeOK /\ OlderIsOrder /\ InsertingOwned /\ ActingOnly /\ DesiredCurrent
      /\ VictimsHaveElders
    BY DEF RSInv
<1>2. \A b \in Controllers : ctl[b].victims \subseteq Names /\ ctl'[b].victims \subseteq Names
    BY <1>1 DEF TypeOK
<1>3. /\ rs.desired \in Nat
      /\ Cardinality(Alive) \in Nat /\ Cardinality(Alive') \in Nat
      /\ \A x \in Names : Cardinality(Elders(x)) \in Nat /\ Cardinality(Elders(x)') \in Nat
    <2>1. Alive \subseteq Names /\ Alive' \subseteq Names
        BY DEF Alive
    <2>2. \A x \in Names : Elders(x) \subseteq Names /\ Elders(x)' \subseteq Names
        BY <2>1 DEF Elders
    <2>3. rs.desired \in Nat
        BY <1>1 DEF TypeOK
    <2> QED BY <2>1, <2>2, <2>3, PodSets
<1>4. ASSUME ~disturbed, rs'.desired = rs.desired, UNCHANGED <<phase, older>>,
             \A b \in Controllers : ctl'[b].victims \subseteq ctl[b].victims
      PROVE  Goal
    BY <1>1, <1>4 DEF VictimsHaveElders, Alive, Elders
<1>5. ASSUME NEW c \in Controllers, ListReplicaSets(c) PROVE Goal
    <2>1. ctl' = [ctl EXCEPT ![c] = [Resting EXCEPT !.at = "listing", !.desired = rs.desired]]
          /\ UNCHANGED <<rs, phase, older>>
        BY <1>5 DEF ListReplicaSets
    <2>2. ctl'[c].victims = {} /\ \A b \in Controllers \ {c} : ctl'[b] = ctl[b]
        BY <1>1, <2>1 DEF TypeOK, Resting
    <2>3. ~disturbed \/ \A b \in Controllers \ {c} : ctl[b].at = "idle"
        BY <1>5 DEF ListReplicaSets
    <2>4. CASE ~disturbed
        BY <1>4, <2>1, <2>2, <2>4
    <2>5. CASE \A b \in Controllers \ {c} : ctl[b].at = "idle"
        <3>1. \A b \in Controllers : ctl'[b].victims = {}
            BY <1>1, <2>2, <2>5 DEF ActingOnly
        <3> QED BY <3>1
    <2> QED BY <2>3, <2>4, <2>5
<1>6. ASSUME NEW c \in Controllers, ListPods(c) PROVE Goal
    <2>1. UNCHANGED <<rs, phase, older, disturbed>> /\ ctl[c].at = "listing"
        BY <1>6 DEF ListPods
    <2>2. /\ ctl'[c].victims = Victims(Alive, ctl[c].desired)
          /\ \A b \in Controllers \ {c} : ctl'[b] = ctl[b]
        BY <1>1, <1>6 DEF ListPods, TypeOK
    <2>3. ctl[c].desired = rs.desired
        BY <1>1, <2>1 DEF DesiredCurrent
    <2>4. Alive' = Alive /\ \A x \in Names : Elders(x)' = Elders(x)
        BY <2>1 DEF Alive, Elders
    <2>5. ASSUME NEW x \in ctl'[c].victims
          PROVE  Cardinality(Alive) >= rs.desired /\ Cardinality(Elders(x)) >= rs.desired
        <3>1. x \in Names /\ Cardinality(Elders(x)) >= rs.desired
            BY <2>2, <2>3, <2>5 DEF Victims, Alive, Elders
        <3>2. Elders(x) \subseteq Alive /\ Alive \subseteq Names
            BY DEF Elders, Alive
        <3>3. Cardinality(Elders(x)) <= Cardinality(Alive)
            BY <3>2, PodSubset
        <3> QED BY <1>3, <3>1, <3>3
    <2>6. \A b \in Controllers \ {c} : \A x \in ctl'[b].victims :
            /\ Cardinality(Alive) >= rs.desired
            /\ phase[x] # "Absent" => Cardinality(Elders(x)) >= rs.desired
        BY <1>1, <2>1, <2>2 DEF VictimsHaveElders
    <2>7. ctl'[c].victims \subseteq Names /\ \A b \in Controllers : ctl'[b].victims \subseteq Names
        BY <1>2
    <2> QED BY <2>1, <2>4, <2>5, <2>6, <2>7
<1>7. ASSUME NEW c \in Controllers, CreateStamp(c) PROVE Goal
    <2>1. /\ UNCHANGED <<rs, disturbed>>
          /\ \A b \in Controllers : ctl'[b].victims = ctl[b].victims
        BY <1>1, <1>7 DEF CreateStamp, TypeOK
    <2> QED BY <1>1, <1>2, <1>7, <2>1, AliveAfterStamp DEF VictimsHaveElders
<1>8. ASSUME NEW c \in Controllers, CreateInsert(c) PROVE Goal
    <2>1. /\ UNCHANGED <<rs, disturbed>>
          /\ \A b \in Controllers : ctl'[b].victims = ctl[b].victims
        BY <1>1, <1>8 DEF CreateInsert, TypeOK
    <2>2. \A x \in Names : Cardinality(Elders(x)) <= Cardinality(Elders(x)')
        <3>1. \A x \in Names : Elders(x) \subseteq Elders(x)' /\ Elders(x)' \subseteq Names
            BY <1>1, <1>8, AliveAfterInsert DEF Elders, Alive
        <3> QED BY <3>1, PodSubset
    <2>3. Cardinality(Alive) <= Cardinality(Alive')
        <3>1. Alive \subseteq Alive' /\ Alive' \subseteq Names
            BY <1>1, <1>8, AliveAfterInsert DEF Alive
        <3> QED BY <3>1, PodSubset
    <2>4. \A x \in Names : phase'[x] # "Absent" => phase[x] # "Absent"
        BY <1>1, <1>8, AliveAfterInsert
    <2>5. ASSUME NEW b \in Controllers, NEW x \in ctl'[b].victims
          PROVE  /\ Cardinality(Alive') >= rs'.desired
                 /\ phase'[x] # "Absent" => Cardinality(Elders(x)') >= rs'.desired
        <3>1. x \in Names /\ Cardinality(Alive) >= rs.desired
              /\ (phase[x] # "Absent" => Cardinality(Elders(x)) >= rs.desired)
            BY <1>1, <1>2, <2>1, <2>5 DEF VictimsHaveElders
        <3> QED BY <1>3, <2>1, <2>2, <2>3, <2>4, <3>1
    <2> QED BY <2>5
<1>9. ASSUME NEW c \in Controllers, CreateFails(c) PROVE Goal
    <2> DEFINE p == ctl[c].inserting
    <2>1. /\ UNCHANGED <<rs, disturbed>>
          /\ \A b \in Controllers : ctl'[b].victims = ctl[b].victims
        BY <1>1, <1>9 DEF CreateFails, TypeOK
    <2>2. p \in Names /\ phase[p] = "Inserting" /\ Forget(p)
        BY <1>1, <1>9 DEF CreateFails, InsertingOwned, TypeOK
    <2> HIDE DEF p
    <2>3. p \notin Alive
        BY <2>2 DEF Alive
    <2>4. Alive' = Alive /\ \A x \in Names : phase'[x] # "Absent" =>
                phase[x] # "Absent" /\ Elders(x)' = Elders(x)
        BY <1>1, <2>2, <2>3, AliveAfterForget DEF Elders
    <2> QED BY <1>1, <1>2, <2>1, <2>4 DEF VictimsHaveElders
<1>10. ASSUME NEW c \in Controllers, NEW p \in Names, DeleteVictim(c, p) PROVE Goal
    <2>1. /\ UNCHANGED <<rs, disturbed>> /\ p \in ctl[c].victims
          /\ \A b \in Controllers : ctl'[b].victims \subseteq ctl[b].victims
        BY <1>1, <1>10 DEF DeleteVictim, NextVictim, TypeOK
    <2>2. CASE phase[p] \in {"Absent", "Inserting"}
        BY <1>4, <1>10, <2>1, <2>2 DEF DeleteVictim
    <2>3. CASE phase[p] \notin {"Absent", "Inserting"}
        <3>1. Forget(p)
            BY <1>10, <2>3 DEF DeleteVictim
        <3>2. Cardinality(Elders(p)) >= rs.desired
            BY <1>1, <2>1, <2>3 DEF VictimsHaveElders
        <3>3. Elders(p) \subseteq Alive' /\ Alive' \subseteq Names
            BY <1>1, <3>1, AliveAfterForget DEF Elders, Alive, OlderIsOrder
        <3>4. Cardinality(Alive') >= rs.desired
            <4>1. Cardinality(Elders(p)) <= Cardinality(Alive')
                BY <3>3, PodSubset
            <4> QED BY <1>3, <3>2, <4>1
        <3>5. ASSUME NEW b \in Controllers, NEW x \in ctl'[b].victims, phase'[x] # "Absent"
              PROVE  Cardinality(Elders(x)') >= rs.desired
            <4>1. x \in Names /\ x # p /\ phase[x] # "Absent" /\ Elders(x)' = Elders(x) \ {p}
                BY <1>1, <1>2, <3>1, <3>5, AliveAfterForget
            <4>2. CASE p \in Elders(x)
                <5>1. Elders(p) \subseteq Elders(x)' /\ Elders(x)' \subseteq Names
                    BY <1>1, <4>1, <4>2 DEF Elders, Alive, OlderIsOrder
                <5>2. Cardinality(Elders(p)) <= Cardinality(Elders(x)')
                    BY <5>1, PodSubset
                <5> QED BY <1>3, <3>2, <4>1, <5>2
            <4>3. CASE p \notin Elders(x)
                <5>1. Elders(x)' = Elders(x) /\ x \in ctl[b].victims
                    BY <2>1, <4>1, <4>3, <3>5
                <5> QED BY <1>1, <2>1, <4>1, <5>1 DEF VictimsHaveElders
            <4> QED BY <4>2, <4>3
        <3> QED BY <2>1, <3>4, <3>5
    <2> QED BY <2>2, <2>3
<1>11. ASSUME NEW p \in Names, PodRuns(p) PROVE Goal
    <2>1. UNCHANGED <<rs, ctl, older, disturbed>>
        BY <1>11 DEF PodRuns
    <2>2. \A q \in Names : phase'[q] = IF q = p THEN "Running" ELSE phase[q]
        BY <1>1, <1>11 DEF PodRuns, TypeOK
    <2>3. Alive' = Alive /\ phase[p] = "Pending"
        BY <1>11, <2>2 DEF Alive, PodRuns
    <2>4. \A x \in Names : Elders(x)' = Elders(x) /\ (phase'[x] # "Absent" => phase[x] # "Absent")
        BY <2>1, <2>2, <2>3 DEF Elders
    <2> QED BY <1>1, <1>2, <2>1, <2>3, <2>4 DEF VictimsHaveElders
<1>12. ASSUME NEW c \in Controllers,
              \/ CreateCollides(c) \/ \E p \in Names : DeleteFails(c, p)
              \/ UpdateReplicaSetStatus(c) \/ UpdateStatusFails(c) \/ ListPodsFails(c)
       PROVE  Goal
    <2>1. UNCHANGED <<phase, older, disturbed>>
        BY <1>12 DEF CreateCollides, DeleteFails, UpdateReplicaSetStatus, UpdateStatusFails, ListPodsFails
    <2>2. rs'.desired = rs.desired
        BY <1>1, <1>12 DEF CreateCollides, DeleteFails, UpdateReplicaSetStatus,
            UpdateStatusFails, ListPodsFails, TypeOK
    <2>3. \A b \in Controllers : ctl'[b].victims \subseteq ctl[b].victims
        BY <1>1, <1>12, EmptyRecords DEF CreateCollides, DeleteFails, UpdateReplicaSetStatus,
            UpdateStatusFails, ListPodsFails, TypeOK
    <2> QED BY <1>4, <2>1, <2>2, <2>3
<1>13. CASE UNCHANGED vars
    BY <1>4, <1>13 DEF vars
<1>14. ~(\E p \in Names : PodFails(p) \/ UserDeletesPod(p))
       /\ ~(\E d \in ReplicaCounts : UpsertReplicaSetRead(d))
       /\ ~UpsertReplicaSetWrite /\ ~DeleteReplicaSet
    BY DEF PodFails, UserDeletesPod, UpsertReplicaSetRead, UpsertReplicaSetWrite,
        DeleteReplicaSet, Disturb
<1> QED BY <1>5, <1>6, <1>7, <1>8, <1>9, <1>10, <1>11, <1>12, <1>13, <1>14 DEF Next

-----------------------------------------------------------------------------
\* Undisturbed, the creates still to come are finitely many, and those of the
\* instances other than c at most spec.replicas each.
LEMMA PendingBounded ==
    ASSUME TypeOK, ActingOnly, DesiredCurrent, ~disturbed
    PROVE  /\ IsFiniteSet(Pending) /\ Cardinality(Pending) \in Nat
           /\ \A c \in Controllers :
                Cardinality({e \in Pending : e[1] # c}) <= (Cardinality(Controllers) - 1) * rs.desired
<1> DEFINE D == 1 .. rs.desired
<1>1. rs.desired \in Nat
    BY DEF TypeOK
<1>2. IsFiniteSet(D) /\ Cardinality(D) = rs.desired
    BY <1>1, UpTo
<1>3. Pending \subseteq Controllers \X D
    <2> SUFFICES ASSUME NEW e \in Pending PROVE e \in Controllers \X D
        OBVIOUS
    <2>1. /\ e[1] \in Controllers /\ e[2] \in Nat \ {0} /\ e[2] <= ctl[e[1]].creates
          /\ e = <<e[1], e[2]>>
        BY DEF Pending
    <2>2. ctl[e[1]].creates \in Nat /\ ctl[e[1]].desired \in Nat
        BY <2>1 DEF TypeOK
    <2>3. ctl[e[1]].at # "idle" /\ ctl[e[1]].creates <= ctl[e[1]].desired
        BY <2>1, <2>2 DEF ActingOnly
    <2>4. ctl[e[1]].desired = rs.desired
        BY <2>1, <2>3 DEF DesiredCurrent
    <2>5. e[2] \in D
        BY <1>1, <2>1, <2>2, <2>3, <2>4
    <2> HIDE DEF D
    <2> QED BY <2>1, <2>5
<1> HIDE DEF D
<1>4. IsFiniteSet(Controllers \X D)
    BY <1>2, FiniteAssumption, FS_Product
<1>5. IsFiniteSet(Pending) /\ Cardinality(Pending) \in Nat
    BY <1>3, <1>4, FS_Subset, FS_CardinalityType
<1>6. ASSUME NEW c \in Controllers
      PROVE  Cardinality({e \in Pending : e[1] # c}) <= (Cardinality(Controllers) - 1) * rs.desired
    <2>1. /\ IsFiniteSet(Controllers \ {c})
          /\ Cardinality(Controllers \ {c}) = Cardinality(Controllers) - 1
        BY FiniteAssumption, FS_RemoveElement
    <2>2. /\ IsFiniteSet((Controllers \ {c}) \X D)
          /\ Cardinality((Controllers \ {c}) \X D) = (Cardinality(Controllers) - 1) * rs.desired
        BY <1>2, <2>1, FS_Product
    <2>3. {e \in Pending : e[1] # c} \subseteq (Controllers \ {c}) \X D
        BY <1>3
    <2>4. Cardinality({e \in Pending : e[1] # c}) <= Cardinality((Controllers \ {c}) \X D)
        BY <2>2, <2>3, FS_Subset
    <2> QED BY <2>2, <2>4
<1> QED BY <1>5, <1>6

\* A decision to create makes up what is missing, so it leaves room for the
\* others' decisions; after that every create spends one of those decided.
LEMMA CreatesInductive ==
    RSInv /\ TypeOK' /\ [Next]_vars => CreatesFit'
<1> DEFINE Bound == Cardinality(Controllers) * rs.desired
           Goal == Pending' # {} => Cardinality(Alive') + Cardinality(Pending') <= Bound'
<1> SUFFICES ASSUME RSInv, TypeOK', [Next]_vars, ~disturbed' PROVE Goal
    BY DEF CreatesFit
<1>1. /\ TypeOK /\ OlderIsOrder /\ InsertingOwned /\ ActingOnly /\ DesiredCurrent
      /\ CreatesFit
    BY DEF RSInv
<1>2. /\ rs.desired \in Nat /\ Alive \subseteq Names /\ Alive' \subseteq Names
      /\ Cardinality(Alive) \in Nat /\ Cardinality(Alive') \in Nat
      /\ Cardinality(Controllers) \in Nat /\ Bound \in Nat
    <2>1. rs.desired \in Nat /\ Alive \subseteq Names /\ Alive' \subseteq Names
        BY <1>1 DEF TypeOK, Alive
    <2>2. Cardinality(Controllers) \in Nat
        BY FiniteAssumption, FS_CardinalityType
    <2>3. Bound \in Nat
        BY <2>1, <2>2
    <2> QED BY <2>1, <2>2, <2>3, PodSets
<1>3. ASSUME ~disturbed, rs'.desired = rs.desired, Alive' \subseteq Alive, Pending' \subseteq Pending
      PROVE  Goal
    <2>1. Cardinality(Alive') <= Cardinality(Alive)
        BY <1>2, <1>3, PodSubset
    <2>2. IsFiniteSet(Pending) /\ Cardinality(Pending) \in Nat
        BY <1>1, <1>3, PendingBounded
    <2>3. Cardinality(Pending') \in Nat /\ Cardinality(Pending') <= Cardinality(Pending)
        BY <1>3, <2>2, FS_Subset, FS_CardinalityType
    <2>4. Pending # {} => Cardinality(Alive) + Cardinality(Pending) <= Bound
        BY <1>1, <1>3 DEF CreatesFit
    <2>5. Bound' = Bound
        BY <1>3
    <2> HIDE DEF Bound
    <2> QED BY <1>2, <1>3, <2>1, <2>2, <2>3, <2>4, <2>5
<1>4. ASSUME \A b \in Controllers : ctl'[b].creates <= ctl[b].creates
      PROVE  Pending' \subseteq Pending
    <2>1. \A b \in Controllers : ctl'[b].creates \in Nat /\ ctl[b].creates \in Nat
        BY <1>1 DEF TypeOK
    <2> QED BY <1>4, <2>1 DEF Pending
<1>5. UNCHANGED phase => Alive' = Alive
    BY DEF Alive
<1>6. ASSUME NEW c \in Controllers, ListReplicaSets(c) PROVE Goal
    <2>1. ctl' = [ctl EXCEPT ![c] = [Resting EXCEPT !.at = "listing", !.desired = rs.desired]]
          /\ UNCHANGED <<rs, phase>>
        BY <1>6 DEF ListReplicaSets
    <2>2. ctl'[c].creates = 0 /\ \A b \in Controllers \ {c} : ctl'[b] = ctl[b]
        BY <1>1, <2>1 DEF TypeOK, Resting
    <2>3. ~disturbed \/ \A b \in Controllers \ {c} : ctl[b].at = "idle"
        BY <1>6 DEF ListReplicaSets
    <2>4. CASE ~disturbed
        <3>1. \A b \in Controllers : ctl[b].creates \in Nat
            BY <1>1 DEF TypeOK
        <3>2. \A b \in Controllers : ctl'[b].creates <= ctl[b].creates
            BY <2>2, <3>1
        <3> QED BY <1>3, <1>4, <1>5, <2>1, <2>4, <3>2
    <2>5. CASE \A b \in Controllers \ {c} : ctl[b].at = "idle"
        <3>1. \A b \in Controllers : ctl'[b].creates = 0
            BY <1>1, <2>2, <2>5 DEF ActingOnly
        <3>2. Pending' = {}
            BY <3>1 DEF Pending
        <3> QED BY <3>2
    <2> QED BY <2>3, <2>4, <2>5
<1>7. ASSUME NEW c \in Controllers, ListPods(c) PROVE Goal
    <2> DEFINE m == Missing(Alive, rs.desired)
    <2>1. UNCHANGED <<rs, phase, disturbed>> /\ ctl[c].at = "listing"
        BY <1>7 DEF ListPods
    <2>2. ctl[c].desired = rs.desired /\ ctl[c].creates = 0
        BY <1>1, <2>1 DEF DesiredCurrent, ActingOnly
    <2>3. ctl'[c].creates = m /\ \A b \in Controllers \ {c} : ctl'[b] = ctl[b]
        BY <1>1, <1>7, <2>2 DEF ListPods, TypeOK
    <2>4. m = IF Cardinality(Alive) < rs.desired THEN rs.desired - Cardinality(Alive) ELSE 0
        BY DEF Missing
    <2> HIDE DEF m
    <2>5. m \in Nat
        BY <1>2, <2>4
    <2>6. CASE m = 0
        <3>1. \A b \in Controllers : ctl[b].creates \in Nat
            BY <1>1 DEF TypeOK
        <3>2. \A b \in Controllers : ctl'[b].creates <= ctl[b].creates
            BY <2>2, <2>3, <2>6, <3>1
        <3> QED BY <1>3, <1>4, <1>5, <2>1, <3>2
    <2>7. CASE m # 0
        <3> DEFINE Others == {e \in Pending : e[1] # c}
                   Mine == {c} \X (1 .. m)
        <3>1. Pending' \subseteq Others \cup Mine
            <4> SUFFICES ASSUME NEW e \in Pending' PROVE e \in Others \cup Mine
                OBVIOUS
            <4>1. /\ e = <<e[1], e[2]>> /\ e[1] \in Controllers /\ e[2] \in Nat \ {0}
                  /\ e[2] <= ctl'[e[1]].creates
                BY DEF Pending
            <4>2. CASE e[1] = c
                BY <2>3, <2>5, <4>1, <4>2
            <4>3. CASE e[1] # c
                BY <2>3, <4>1, <4>3 DEF Pending
            <4> QED BY <4>2, <4>3
        <3>2. IsFiniteSet(Pending) /\ Cardinality(Others) <= (Cardinality(Controllers) - 1) * rs.desired
            BY <1>1, <2>1, PendingBounded
        <3>3. IsFiniteSet(Others) /\ Cardinality(Others) \in Nat
            BY <3>2, FS_Subset, FS_CardinalityType
        <3>4. IsFiniteSet(Mine) /\ Cardinality(Mine) = m
            <4>1. IsFiniteSet({c}) /\ Cardinality({c}) = 1
                BY FS_Singleton
            <4>2. IsFiniteSet(1 .. m) /\ Cardinality(1 .. m) = m
                BY <2>5, UpTo
            <4>3. IsFiniteSet(Mine) /\ Cardinality(Mine) = Cardinality({c}) * Cardinality(1 .. m)
                BY <4>1, <4>2, FS_Product
            <4> QED BY <2>5, <4>1, <4>2, <4>3
        <3>5. Others \cap Mine = {}
            OBVIOUS
        <3> HIDE DEF Others, Mine
        <3>6. /\ IsFiniteSet(Others \cup Mine)
              /\ Cardinality(Others \cup Mine) = Cardinality(Others) + m
            <4>1. Cardinality({}) = 0
                BY FS_EmptySet
            <4>2. /\ IsFiniteSet(Others \cup Mine)
                  /\ Cardinality(Others \cup Mine) =
                        Cardinality(Others) + Cardinality(Mine) - Cardinality(Others \cap Mine)
                BY <3>3, <3>4, FS_Union
            <4>3. Cardinality(Others \cap Mine) = 0
                BY <3>5, <4>1
            <4> QED BY <2>5, <3>3, <3>4, <4>2, <4>3
        <3>7. Cardinality(Pending') \in Nat /\ Cardinality(Pending') <= Cardinality(Others) + m
            <4>1. IsFiniteSet(Pending') /\ Cardinality(Pending') <= Cardinality(Others \cup Mine)
                BY <3>1, <3>6, FS_Subset
            <4> QED BY <3>6, <4>1, FS_CardinalityType
        <3>8. Cardinality(Alive') + m = rs.desired
            BY <1>2, <1>5, <2>1, <2>4, <2>7
        <3>9. /\ (Cardinality(Controllers) - 1) * rs.desired \in Int
              /\ (Cardinality(Controllers) - 1) * rs.desired + rs.desired = Bound
            BY <1>2, OneMore
        <3>10. Bound' = Bound
            BY <2>1
        <3> HIDE DEF Bound
        <3> QED BY <1>2, <2>5, <3>2, <3>3, <3>7, <3>8, <3>9, <3>10
    <2> QED BY <2>6, <2>7
<1>8. ASSUME NEW c \in Controllers, CreateStamp(c) PROVE Goal
    <2>1. UNCHANGED <<rs, disturbed>> /\ \A b \in Controllers : ctl'[b].creates = ctl[b].creates
        BY <1>1, <1>8 DEF CreateStamp, TypeOK
    <2>2. Alive' = Alive
        BY <1>1, <1>8, AliveAfterStamp
    <2>3. Pending' = Pending
        BY <2>1 DEF Pending
    <2> QED BY <1>3, <2>1, <2>2, <2>3
<1>9. ASSUME NEW c \in Controllers, CreateInsert(c) PROVE Goal
    <2> DEFINE k == ctl[c].creates
    <2>1. UNCHANGED <<rs, disturbed>> /\ k \in Nat \ {0}
        BY <1>1, <1>9 DEF CreateInsert, InsertingOwned, TypeOK
    <2>2. ctl'[c].creates = k - 1 /\ \A b \in Controllers \ {c} : ctl'[b].creates = ctl[b].creates
        BY <1>1, <1>9 DEF CreateInsert, TypeOK
    <2> HIDE DEF k
    <2>3. <<c, k>> \in Pending
        BY <2>1 DEF Pending, k
    <2>4. Pending' = Pending \ {<<c, k>>}
        <3>1. \A e \in Controllers \X (Nat \ {0}) : e[2] <= ctl'[e[1]].creates <=>
                    e[2] <= ctl[e[1]].creates /\ e # <<c, k>>
            BY <2>1, <2>2 DEF k
        <3> QED BY <3>1 DEF Pending
    <2>5. IsFiniteSet(Pending) /\ Cardinality(Pending) \in Nat
        BY <1>1, <2>1, PendingBounded
    <2>6. Cardinality(Pending') = Cardinality(Pending) - 1
        BY <2>3, <2>4, <2>5, FS_RemoveElement
    <2>7. Cardinality(Alive') = Cardinality(Alive) + 1
        <3>1. Alive' = Alive \cup {ctl[c].inserting} /\ ctl[c].inserting \notin Alive
            BY <1>1, <1>9, AliveAfterInsert
        <3>2. IsFiniteSet(Alive)
            BY <1>2, PodSets
        <3> QED BY <3>1, <3>2, FS_AddElement
    <2>8. Cardinality(Alive) + Cardinality(Pending) <= Bound /\ Bound' = Bound
        BY <1>1, <2>1, <2>3 DEF CreatesFit
    <2> HIDE DEF Bound
    <2> QED BY <1>2, <2>5, <2>6, <2>7, <2>8
<1>10. ASSUME NEW c \in Controllers,
              \/ CreateFails(c) \/ CreateCollides(c)
              \/ UpdateReplicaSetStatus(c) \/ UpdateStatusFails(c) \/ ListPodsFails(c)
              \/ \E p \in Names : DeleteVictim(c, p) \/ DeleteFails(c, p)
       PROVE  Goal
    <2>1. disturbed' = disturbed /\ rs'.desired = rs.desired
        BY <1>1, <1>10 DEF CreateFails, CreateCollides, UpdateReplicaSetStatus,
            UpdateStatusFails, ListPodsFails, DeleteVictim, DeleteFails, TypeOK
    <2>2. \A b \in Controllers : ctl'[b].creates <= ctl[b].creates
        <3>1. CASE CreateFails(c) \/ CreateCollides(c)
            <4>1. /\ ctl'[c].creates = ctl[c].creates - 1
                  /\ \A b \in Controllers \ {c} : ctl'[b].creates = ctl[b].creates
                BY <1>1, <3>1 DEF CreateFails, CreateCollides, TypeOK
            <4> QED BY <1>1, <4>1 DEF TypeOK
        <3>2. CASE UpdateReplicaSetStatus(c) \/ UpdateStatusFails(c) \/ ListPodsFails(c)
            <4>1. ctl' = [ctl EXCEPT ![c] = Resting]
                BY <3>2 DEF UpdateReplicaSetStatus, UpdateStatusFails, ListPodsFails
            <4> QED BY <1>1, <4>1, EmptyRecords DEF TypeOK
        <3>3. CASE \E p \in Names : DeleteVictim(c, p) \/ DeleteFails(c, p)
            <4>1. \A b \in Controllers : ctl'[b].creates = ctl[b].creates
                BY <1>1, <3>3 DEF DeleteVictim, DeleteFails, TypeOK
            <4> QED BY <1>1, <4>1 DEF TypeOK
        <3> QED BY <1>10, <3>1, <3>2, <3>3
    <2>3. Alive' \subseteq Alive
        <3>1. UNCHANGED phase \/ \E p \in Names : Forget(p)
            BY <1>1, <1>10 DEF CreateFails, CreateCollides, UpdateReplicaSetStatus,
                UpdateStatusFails, ListPodsFails, DeleteVictim, DeleteFails, TypeOK
        <3> QED BY <1>1, <1>5, <3>1, AliveAfterForget
    <2> QED BY <1>3, <1>4, <2>1, <2>2, <2>3
<1>11. ASSUME NEW p \in Names, PodRuns(p) PROVE Goal
    <2>1. UNCHANGED <<rs, ctl, disturbed>>
        BY <1>11 DEF PodRuns
    <2>2. Alive' = Alive
        BY <1>1, <1>11 DEF PodRuns, Alive, TypeOK
    <2>3. Pending' = Pending
        BY <2>1 DEF Pending
    <2> QED BY <1>3, <2>1, <2>2, <2>3
<1>12. CASE UNCHANGED vars
    <2>1. Pending' = Pending /\ Alive' = Alive /\ rs' = rs /\ disturbed' = disturbed
        BY <1>12 DEF vars, Pending, Alive
    <2> QED BY <1>3, <2>1
<1>13. ~(\E p \in Names : PodFails(p) \/ UserDeletesPod(p))
       /\ ~(\E d \in ReplicaCounts : UpsertReplicaSetRead(d))
       /\ ~UpsertReplicaSetWrite /\ ~DeleteReplicaSet
    BY DEF PodFails, UserDeletesPod, UpsertReplicaSetRead, UpsertReplicaSetWrite,
        DeleteReplicaSet, Disturb
<1> QED BY <1>6, <1>7, <1>8, <1>9, <1>10, <1>11, <1>12, <1>13 DEF Next

-----------------------------------------------------------------------------
LEMMA RSInit == Init => RSInv
<1> SUFFICES ASSUME Init PROVE RSInv
    OBVIOUS
<1>1. TypeOK
    <2>1. rs \in [exists : BOOLEAN, desired : Nat, status : Counts]
        BY EmptyRecords, ReplicaCountsAssumption DEF Init
    <2>2. phase \in [Names -> PodPhases] /\ older \in SUBSET (Names \X Names)
        BY DEF Init, PodPhases
    <2>3. disturbances \in 0 .. MaxDisturbances
        BY MaxDisturbancesAssumption DEF Init
    <2>4. disturbed \in BOOLEAN
        BY Zenon DEF Init
    <2>5. /\ ctl \in [Controllers ->
                    [at : {"idle", "listing", "acting"}, desired : Nat, creates : Nat,
                     inserting : Names \cup {NoName}, victims : SUBSET Names,
                     observed : Counts]]
          /\ apply \in [active : BOOLEAN, desired : Nat, found : BOOLEAN, status : Counts]
        BY EmptyRecords DEF Init
    <2> QED BY <2>1, <2>2, <2>3, <2>4, <2>5 DEF TypeOK
<1>2. \A c \in Controllers : ctl[c] = Resting
    BY DEF Init
<1>3. OlderIsOrder
    BY DEF Init, OlderIsOrder
<1>4. InsertingOwned /\ ActingOnly /\ DesiredCurrent /\ VictimsHaveElders
    BY <1>2, EmptyRecords DEF InsertingOwned, ActingOnly, DesiredCurrent, VictimsHaveElders
<1>5. Pending = {}
    BY <1>2, EmptyRecords DEF Pending
<1> QED BY <1>1, <1>3, <1>4, <1>5 DEF RSInv, CreatesFit

LEMMA RSInductive == RSInv /\ [Next]_vars => RSInv'
<1> SUFFICES ASSUME RSInv, [Next]_vars PROVE RSInv'
    OBVIOUS
<1>1. TypeOK /\ OlderIsOrder /\ InsertingOwned /\ ActingOnly /\ DesiredCurrent
    BY DEF RSInv
<1>2. TypeOK'
    BY <1>1, TypeInductive
<1>3. OlderIsOrder'
    BY <1>1, OrderInductive
<1>4. InsertingOwned' /\ ActingOnly' /\ DesiredCurrent'
    BY <1>1, <1>2, PassesInductive
<1>5. VictimsHaveElders' /\ CreatesFit'
    BY <1>2, VictimsInductive, CreatesInductive
<1> QED BY <1>2, <1>3, <1>4, <1>5 DEF RSInv

(***************************************************************************)
(* Whatever the instances, the kubelets and the users do, in any order, the*)
(* records of ReplicaSet, pods, passes and the apply in progress keep their*)
(* types: in particular no pass is left with a negative number of pods to  *)
(* create.                                                                 *)
(***************************************************************************)
THEOREM TypeCorrect == Spec => []TypeOK
<1>1. RSInv => TypeOK
    BY DEF RSInv
<1> QED BY <1>1, RSInit, RSInductive, PTL DEF Spec

(***************************************************************************)
(* reconcileOne, run by any number of instances side by side: undisturbed, *)
(* a pod one of them deletes has spec.replicas alive pods older than it,   *)
(* though the list it was chosen from may be many deletions old.           *)
(***************************************************************************)
THEOREM OnlyExtrasDeleted == Spec => VictimsAreNewestExtras
<1> DEFINE Step == \A c \in Controllers, p \in Alive :
                DeleteVictim(c, p) /\ ~disturbed
                    => Cardinality({q \in Alive : <<q, p>> \in older}) >= rs.desired
<1>1. RSInv => Step
    <2> SUFFICES ASSUME RSInv, NEW c \in Controllers, NEW p \in Alive, DeleteVictim(c, p), ~disturbed
                 PROVE  Cardinality(Elders(p)) >= rs.desired
        BY DEF Elders
    <2>1. p \in ctl[c].victims /\ phase[p] # "Absent"
        BY DEF DeleteVictim, NextVictim, Alive
    <2> QED BY <2>1 DEF RSInv, VictimsHaveElders
<1>2. RSInv /\ [Next]_vars => [Step]_vars
    BY <1>1
<1> QED BY <1>2, RSInit, RSInductive, PTL DEF Spec, VictimsAreNewestExtras

(***************************************************************************)
(* n instances that count and create side by side, undisturbed, never have *)
(* more than n times spec.replicas pods: at most n decisions are in flight.*)
(***************************************************************************)
THEOREM OvershootBound == Spec => OvershootBounded
<1> DEFINE Step == ControllerCreates /\ ~disturbed
                    => Cardinality(Alive') <= Cardinality(Controllers) * rs.desired
<1>1. RSInv => Step
    <2> SUFFICES ASSUME RSInv, NEW c \in Controllers, CreateInsert(c), ~disturbed
                 PROVE  Cardinality(Alive') <= Cardinality(Controllers) * rs.desired
        BY DEF ControllerCreates
    <2>1. TypeOK /\ InsertingOwned /\ ActingOnly /\ DesiredCurrent /\ CreatesFit
        BY DEF RSInv
    <2>2. ctl[c].creates \in Nat \ {0} /\ rs.desired \in Nat
        BY <2>1 DEF CreateInsert, InsertingOwned, TypeOK
    <2>3. <<c, ctl[c].creates>> \in Pending
        BY <2>2 DEF Pending
    <2>4. IsFiniteSet(Pending) /\ Cardinality(Pending) \in Nat
        BY <2>1, PendingBounded
    <2>5. Cardinality(Pending) >= 1
        BY <2>3, <2>4, FS_EmptySet
    <2>6. Alive \subseteq Names
        BY DEF Alive
    <2>7. Alive' = Alive \cup {ctl[c].inserting} /\ ctl[c].inserting \notin Alive
        BY <2>1, AliveAfterInsert
    <2>8. Cardinality(Alive) \in Nat /\ Cardinality(Alive') = Cardinality(Alive) + 1
        BY <2>6, <2>7, PodSets, FS_AddElement
    <2>9. Cardinality(Alive) + Cardinality(Pending) <= Cardinality(Controllers) * rs.desired
        BY <2>1, <2>3 DEF CreatesFit
    <2>10. Cardinality(Controllers) * rs.desired \in Nat
        BY <2>2, FiniteAssumption, FS_CardinalityType
    <2> QED BY <2>4, <2>5, <2>8, <2>9, <2>10
<1>2. RSInv /\ [Next]_vars => [Step]_vars
    BY <1>1
<1> QED BY <1>2, RSInit, RSInductive, PTL DEF Spec, OvershootBounded

==============================================================================
