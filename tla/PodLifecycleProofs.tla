------------------------- MODULE PodLifecycleProofs -------------------------
(***************************************************************************)
(* Proofs about PodLifecycle, for any sets of pods, ports and concurrent   *)
(* requests and any number of kubelet restarts.                            *)
(***************************************************************************)
EXTENDS PodLifecycle, TLAPS

\* No status was written by a kubelet that has not started yet.
WrittenInPast == \A p \in Pods : pods[p].by <= life

\* Two pods never share a listener.
ListenersDistinct ==
    \A p, q \in Pods : servers[p] = servers[q] /\ servers[p] # NoPort => p = q

\* What runPod is about to report is true, and concerns a pod syncOnce listed.
PatchIsTrue ==
    kubelet.patch # NoPod =>
        /\ kubelet.patch \in kubelet.seen
        /\ kubelet.status.by = life
        /\ kubelet.status.phase \in {"Running", "Failed"}
        /\ kubelet.status.phase = "Running" =>
            /\ servers[kubelet.patch] # NoPort
            /\ kubelet.status.port = servers[kubelet.patch]

\* Why Reap is harmless: every pod this kubelet has reported Running was listed.
RunningWasSeen ==
    /\ kubelet.todo \subseteq kubelet.seen
    /\ kubelet.syncing =>
        \A p \in Pods : pods[p].phase = "Running" /\ pods[p].by = life => p \in kubelet.seen

ServedInv ==
    TypeOK /\ RunningPodIsServed /\ WrittenInPast /\ ListenersDistinct
        /\ PatchIsTrue /\ RunningWasSeen

-----------------------------------------------------------------------------
\* Statuses built from a phase, a port and an incarnation are statuses.
LEMMA StatusTyped ==
    ASSUME NEW ph \in Phases, NEW port \in Ports \cup {NoPort}, NEW k \in Nat
    PROVE  /\ Status(ph, port, k) \in StatusType
           /\ Status(ph, port, k).phase = ph
           /\ Status(ph, port, k).port = port
           /\ Status(ph, port, k).by = k
BY DEF Status, StatusType

\* The row of an absent pod.
LEMMA NoRowTyped ==
    NoRow \in StatusType /\ NoRow.phase = "Absent" /\ NoRow.by = 0
BY StatusTyped DEF NoRow, Phases

\* A kubelet between two passes.
LEMMA QuietTyped ==
    /\ Quiet \in [syncing : BOOLEAN, seen : SUBSET Pods, todo : SUBSET Pods,
                  patch : Pods \cup {NoPod}, status : StatusType]
    /\ Quiet.patch = NoPod /\ Quiet.todo = {} /\ Quiet.seen = {} /\ ~Quiet.syncing
BY NoRowTyped DEF Quiet

\* UpdateStatus writes one row at most, and only an existing one.
LEMMA UpdateStatusEffect ==
    ASSUME TypeOK, NEW p \in Pods, NEW s \in StatusType, UpdateStatus(p, s)
    PROVE  /\ pods' \in [Pods -> StatusType]
           /\ \A q \in Pods : pods'[q] = pods[q] \/ (q = p /\ Exists(p) /\ pods'[q] = s)
BY DEF UpdateStatus, TypeOK

\* SyncList starts a pass with the pods that have a node.
LEMMA SyncListEffect ==
    ASSUME SyncList
    PROVE  /\ kubelet'.syncing = TRUE
           /\ kubelet'.seen = {p \in Pods : OnNode(p)}
           /\ kubelet'.todo = {p \in Pods : pods[p].phase = "Scheduled"}
           /\ kubelet'.patch = NoPod
           /\ kubelet' \in [syncing : BOOLEAN, seen : SUBSET Pods, todo : SUBSET Pods,
                            patch : Pods \cup {NoPod}, status : StatusType]
BY QuietTyped DEF SyncList, Quiet

\* RunPod leaves the pod with a listener and every other pod as it was.
LEMMA RunPodEffect ==
    ASSUME TypeOK, NEW p \in Pods, RunPod(p)
    PROVE  /\ servers' \in [Pods -> Ports \cup {NoPort}]
           /\ servers'[p] \in Ports
           /\ \A q \in Pods : q # p => servers'[q] = servers[q]
           /\ servers[p] # NoPort => servers'[p] = servers[p]
           /\ servers[p] = NoPort => servers'[p] \in FreePorts
           /\ kubelet' = [kubelet EXCEPT !.todo = @ \ {p}, !.patch = p,
                                         !.status = Status("Running", servers'[p], life)]
           /\ Status("Running", servers'[p], life) \in StatusType
<1>1. CASE servers[p] # NoPort
    BY <1>1, StatusTyped DEF RunPod, TypeOK, WillPatch, Phases
<1>2. CASE servers[p] = NoPort
    <2>1. PICK port \in FreePorts : servers' = [servers EXCEPT ![p] = port]
        BY <1>2 DEF RunPod
    <2>2. port \in Ports
        BY DEF FreePorts
    <2> QED BY <1>2, <2>1, <2>2, StatusTyped DEF RunPod, TypeOK, WillPatch, Phases
<1> QED BY <1>1, <1>2

-----------------------------------------------------------------------------
\* Every step keeps the variables in their types.
LEMMA TypeInductive == TypeOK /\ [Next]_vars => TypeOK'
<1> SUFFICES ASSUME TypeOK, [Next]_vars PROVE TypeOK'
    OBVIOUS
<1>1. ASSUME NEW h \in Handlers, NEW p \in Pods, PostLookup(h, p) PROVE TypeOK'
    <2>1. Exists(p) \in BOOLEAN
        BY DEF Exists
    <2> QED BY <1>1, <2>1 DEF PostLookup, TypeOK
<1>2. ASSUME NEW h \in Handlers, PostWrite(h) PROVE TypeOK'
    <2>1. post[h].pod \in Pods
        BY <1>2 DEF PostWrite, TypeOK
    <2>2. pods' \in [Pods -> StatusType]
        BY <1>2, <2>1, StatusTyped DEF PostWrite, TypeOK, Phases
    <2>3. post' \in [Handlers -> [pod : Pods \cup {NoPod}, found : BOOLEAN]]
        BY <1>2 DEF PostWrite, TypeOK, Free
    <2> QED BY <1>2, <2>2, <2>3 DEF PostWrite, TypeOK
<1>3. ASSUME NEW p \in Pods, DeletePod(p) PROVE TypeOK'
    BY <1>3, NoRowTyped DEF DeletePod, TypeOK
<1>4. ASSUME SchedulerList PROVE TypeOK'
    BY <1>4 DEF SchedulerList, TypeOK
<1>5. ASSUME NEW p \in Pods, Bind(p) PROVE TypeOK'
    <2>1. pods' \in [Pods -> StatusType]
        BY <1>5, StatusTyped, UpdateStatusEffect DEF Bind, Phases
    <2> QED BY <1>5, <2>1 DEF Bind, LetGo, TypeOK
<1>6. ASSUME NEW p \in Pods, BindFails(p) PROVE TypeOK'
    BY <1>6 DEF BindFails, LetGo, TypeOK
<1>7. ASSUME SyncList PROVE TypeOK'
    BY <1>7, SyncListEffect DEF SyncList, TypeOK
<1>8. ASSUME NEW p \in Pods, RunPod(p) PROVE TypeOK'
    <2>1. /\ kubelet' = [kubelet EXCEPT !.todo = @ \ {p}, !.patch = p,
                                        !.status = Status("Running", servers'[p], life)]
          /\ Status("Running", servers'[p], life) \in StatusType
          /\ servers' \in [Pods -> Ports \cup {NoPort}]
        BY <1>8, RunPodEffect
    <2>2. kubelet' \in [syncing : BOOLEAN, seen : SUBSET Pods, todo : SUBSET Pods,
                        patch : Pods \cup {NoPod}, status : StatusType]
        BY <2>1 DEF TypeOK
    <2> QED BY <1>8, <2>1, <2>2 DEF RunPod, TypeOK
<1>9. ASSUME NEW p \in Pods, RunPodFails(p) PROVE TypeOK'
    <2>1. Status("Failed", NoPort, life) \in StatusType
        BY StatusTyped DEF TypeOK, Phases
    <2> QED BY <1>9, <2>1 DEF RunPodFails, WillPatch, TypeOK
<1>10. ASSUME NEW p \in Pods, Patch(p) PROVE TypeOK'
    <2>1. pods' \in [Pods -> StatusType]
        BY <1>10, UpdateStatusEffect DEF Patch, TypeOK
    <2> QED BY <1>10, <2>1 DEF Patch, LetGo, TypeOK
<1>11. ASSUME NEW p \in Pods, PatchFails(p) PROVE TypeOK'
    BY <1>11 DEF PatchFails, LetGo, TypeOK
<1>12. ASSUME Reap PROVE TypeOK'
    BY <1>12, QuietTyped DEF Reap, TypeOK
<1>13. ASSUME KubeletRestart PROVE TypeOK'
    BY <1>13, QuietTyped DEF KubeletRestart, LetGo, TypeOK
<1>14. CASE UNCHANGED vars
    BY <1>14 DEF vars, TypeOK
<1> QED
    BY <1>1, <1>2, <1>3, <1>4, <1>5, <1>6, <1>7, <1>8, <1>9, <1>10, <1>11, <1>12, <1>13, <1>14
    DEF Next

\* The initial state satisfies the strengthened invariant.
LEMMA ServedInit == Init => ServedInv
<1> SUFFICES ASSUME Init PROVE ServedInv
    OBVIOUS
<1>1. TypeOK
    BY NoRowTyped, QuietTyped DEF Init, TypeOK, Free
<1>2. WrittenInPast /\ RunningPodIsServed
    BY NoRowTyped DEF Init, WrittenInPast, RunningPodIsServed
<1>3. ListenersDistinct /\ PatchIsTrue /\ RunningWasSeen
    BY QuietTyped DEF Init, ListenersDistinct, PatchIsTrue, RunningWasSeen
<1> QED BY <1>1, <1>2, <1>3 DEF ServedInv

\* Writes to the table that report nothing Running keep the invariant.
LEMMA OtherWritesKeepServed ==
    ASSUME ServedInv, TypeOK', UNCHANGED <<kubelet, servers, life>>,
           \A p \in Pods : \/ pods'[p] = pods[p]
                           \/ pods'[p].phase # "Running" /\ pods'[p].by = 0
    PROVE  ServedInv'
<1>1. RunningPodIsServed'
    BY DEF ServedInv, RunningPodIsServed
<1>2. WrittenInPast'
    BY DEF ServedInv, WrittenInPast, TypeOK
<1>3. ListenersDistinct' /\ PatchIsTrue' /\ RunningWasSeen'
    BY DEF ServedInv, ListenersDistinct, PatchIsTrue, RunningWasSeen
<1> QED BY <1>1, <1>2, <1>3 DEF ServedInv

\* Opening a listener, or reusing one, disturbs no other.
LEMMA RunPodKeepsServed ==
    ASSUME ServedInv, TypeOK', NEW p \in Pods, RunPod(p)
    PROVE  ServedInv'
<1>0. TypeOK
    BY DEF ServedInv
<1>1. /\ servers'[p] \in Ports
      /\ \A q \in Pods : q # p => servers'[q] = servers[q]
      /\ servers[p] # NoPort => servers'[p] = servers[p]
      /\ servers[p] = NoPort => servers'[p] \in FreePorts
      /\ kubelet' = [kubelet EXCEPT !.todo = @ \ {p}, !.patch = p,
                                    !.status = Status("Running", servers'[p], life)]
    BY <1>0, RunPodEffect
<1>2. pods' = pods /\ life' = life /\ p \in kubelet.todo
    BY DEF RunPod
<1>3. kubelet'.patch = p /\ kubelet'.seen = kubelet.seen /\ kubelet'.syncing = kubelet.syncing
      /\ kubelet'.todo = kubelet.todo \ {p} /\ kubelet'.status = Status("Running", servers'[p], life)
    BY <1>0, <1>1 DEF TypeOK
<1>4. RunningPodIsServed'
    BY <1>1, <1>2 DEF ServedInv, RunningPodIsServed
<1>5. WrittenInPast'
    BY <1>2 DEF ServedInv, WrittenInPast
<1>6. ListenersDistinct'
    BY <1>0, <1>1 DEF ServedInv, ListenersDistinct, FreePorts
<1>7. PatchIsTrue'
    <2>1. life \in Nat /\ p \in kubelet.seen
        BY <1>2 DEF ServedInv, TypeOK, RunningWasSeen
    <2>2. /\ Status("Running", servers'[p], life).phase = "Running"
          /\ Status("Running", servers'[p], life).port = servers'[p]
          /\ Status("Running", servers'[p], life).by = life
        BY DEF Status
    <2> QED BY <1>1, <1>2, <1>3, <2>1, <2>2, NoPortAssumption DEF PatchIsTrue
<1>8. RunningWasSeen'
    BY <1>2, <1>3 DEF ServedInv, RunningWasSeen
<1> QED BY <1>4, <1>5, <1>6, <1>7, <1>8 DEF ServedInv

\* Reporting a pod keeps the invariant, whatever has become of its row: the
\* report is true of the pod's name.
LEMMA PatchKeepsServed ==
    ASSUME ServedInv, TypeOK', NEW p \in Pods, Patch(p)
    PROVE  ServedInv'
<1>0. TypeOK /\ kubelet.status \in StatusType /\ kubelet.patch = p /\ p # NoPod
    BY NoPodAssumption DEF ServedInv, TypeOK, Patch
<1>1. \A q \in Pods : pods'[q] = pods[q] \/ (q = p /\ pods'[q] = kubelet.status)
    BY <1>0, UpdateStatusEffect DEF Patch
<1>2. servers' = servers /\ life' = life /\ life \in Nat
    BY <1>0 DEF Patch, TypeOK
<1>3. kubelet'.patch = NoPod /\ kubelet'.seen = kubelet.seen
      /\ kubelet'.todo = kubelet.todo /\ kubelet'.syncing = kubelet.syncing
    BY <1>0 DEF Patch, TypeOK
<1>4. /\ p \in kubelet.seen /\ kubelet.status.by = life
      /\ kubelet.status.phase = "Running" =>
            servers[p] # NoPort /\ kubelet.status.port = servers[p]
    BY <1>0 DEF ServedInv, PatchIsTrue
<1>5. RunningPodIsServed'
    BY <1>1, <1>2, <1>4 DEF ServedInv, RunningPodIsServed
<1>6. WrittenInPast'
    BY <1>1, <1>2, <1>4 DEF ServedInv, WrittenInPast
<1>7. ListenersDistinct'
    BY <1>2 DEF ServedInv, ListenersDistinct
<1>8. PatchIsTrue'
    BY <1>3 DEF PatchIsTrue
<1>9. RunningWasSeen'
    BY <1>1, <1>2, <1>3, <1>4 DEF ServedInv, RunningWasSeen
<1> QED BY <1>5, <1>6, <1>7, <1>8, <1>9 DEF ServedInv

\* Every step keeps the strengthened invariant.
LEMMA ServedInductive == ServedInv /\ [Next]_vars => ServedInv'
<1> SUFFICES ASSUME ServedInv, [Next]_vars PROVE ServedInv'
    OBVIOUS
<1>0. TypeOK /\ TypeOK'
    BY TypeInductive DEF ServedInv
<1>1. ASSUME NEW h \in Handlers, PostWrite(h) PROVE ServedInv'
    <2>1. post[h].pod \in Pods
        BY <1>0, <1>1 DEF PostWrite, TypeOK
    <2>2. Status("Pending", NoPort, 0).phase = "Pending" /\ Status("Pending", NoPort, 0).by = 0
        BY DEF Status
    <2>3. \A p \in Pods : \/ pods'[p] = pods[p]
                          \/ pods'[p].phase # "Running" /\ pods'[p].by = 0
        BY <1>0, <1>1, <2>1, <2>2 DEF PostWrite, TypeOK
    <2> QED BY <1>0, <1>1, <2>3, OtherWritesKeepServed DEF PostWrite
<1>2. ASSUME NEW p \in Pods, DeletePod(p) PROVE ServedInv'
    <2>1. \A q \in Pods : \/ pods'[q] = pods[q]
                          \/ pods'[q].phase # "Running" /\ pods'[q].by = 0
        BY <1>0, <1>2, NoRowTyped DEF DeletePod, TypeOK
    <2> QED BY <1>0, <1>2, <2>1, OtherWritesKeepServed DEF DeletePod
<1>3. ASSUME NEW p \in Pods, Bind(p) PROVE ServedInv'
    <2>1. /\ Status("Scheduled", NoPort, 0) \in StatusType
          /\ Status("Scheduled", NoPort, 0).phase = "Scheduled"
          /\ Status("Scheduled", NoPort, 0).by = 0
        BY StatusTyped DEF Phases
    <2>2. \A q \in Pods : \/ pods'[q] = pods[q]
                          \/ pods'[q].phase # "Running" /\ pods'[q].by = 0
        BY <1>0, <1>3, <2>1, UpdateStatusEffect DEF Bind
    <2> QED BY <1>0, <1>3, <2>2, OtherWritesKeepServed DEF Bind
<1>4. ASSUME SyncList PROVE ServedInv'
    <2>1. /\ kubelet'.seen = {p \in Pods : OnNode(p)}
          /\ kubelet'.todo = {p \in Pods : pods[p].phase = "Scheduled"}
          /\ kubelet'.patch = NoPod
          /\ pods' = pods /\ servers' = servers /\ life' = life
        BY <1>4, SyncListEffect DEF SyncList
    <2>2. RunningWasSeen' /\ PatchIsTrue'
        BY <2>1 DEF RunningWasSeen, PatchIsTrue, OnNode
    <2>3. RunningPodIsServed' /\ WrittenInPast' /\ ListenersDistinct'
        BY <2>1 DEF ServedInv, RunningPodIsServed, WrittenInPast, ListenersDistinct
    <2> QED BY <1>0, <2>2, <2>3 DEF ServedInv
<1>5. ASSUME NEW p \in Pods, RunPod(p) PROVE ServedInv'
    BY <1>0, <1>5, RunPodKeepsServed
<1>6. ASSUME NEW p \in Pods, RunPodFails(p) PROVE ServedInv'
    <2>1. /\ kubelet'.seen = kubelet.seen /\ kubelet'.todo = kubelet.todo \ {p}
          /\ kubelet'.patch = p /\ kubelet'.status = Status("Failed", NoPort, life)
          /\ kubelet'.syncing = kubelet.syncing
        BY <1>0, <1>6 DEF RunPodFails, WillPatch, TypeOK
    <2>2. pods' = pods /\ servers' = servers /\ life' = life /\ p \in kubelet.seen
        BY <1>6 DEF RunPodFails, ServedInv, RunningWasSeen
    <2>3. Status("Failed", NoPort, life).phase = "Failed" /\ Status("Failed", NoPort, life).by = life
        BY DEF Status
    <2>4. PatchIsTrue' /\ RunningWasSeen'
        BY <2>1, <2>2, <2>3 DEF ServedInv, PatchIsTrue, RunningWasSeen
    <2>5. RunningPodIsServed' /\ WrittenInPast' /\ ListenersDistinct'
        BY <2>2 DEF ServedInv, RunningPodIsServed, WrittenInPast, ListenersDistinct
    <2> QED BY <1>0, <2>4, <2>5 DEF ServedInv
<1>7. ASSUME NEW p \in Pods, Patch(p) PROVE ServedInv'
    BY <1>0, <1>7, PatchKeepsServed
<1>8. ASSUME NEW p \in Pods, PatchFails(p) PROVE ServedInv'
    <2>1. kubelet'.patch = NoPod /\ kubelet'.seen = kubelet.seen
          /\ kubelet'.todo = kubelet.todo /\ kubelet'.syncing = kubelet.syncing
        BY <1>0, <1>8 DEF PatchFails, TypeOK
    <2> QED BY <1>0, <1>8, <2>1
        DEF PatchFails, ServedInv, RunningPodIsServed, WrittenInPast, ListenersDistinct,
            PatchIsTrue, RunningWasSeen
<1>9. ASSUME Reap PROVE ServedInv'
    <2>1. /\ servers' = [p \in Pods |-> IF p \in kubelet.seen THEN servers[p] ELSE NoPort]
          /\ kubelet.syncing /\ pods' = pods /\ life' = life
          /\ kubelet'.patch = NoPod /\ kubelet'.todo = {} /\ ~kubelet'.syncing
        BY <1>9, QuietTyped DEF Reap
    <2>2. RunningPodIsServed'
        BY <2>1 DEF ServedInv, RunningPodIsServed, RunningWasSeen
    <2>3. ListenersDistinct'
        BY <2>1 DEF ServedInv, ListenersDistinct
    <2>4. PatchIsTrue' /\ RunningWasSeen' /\ WrittenInPast'
        BY <2>1 DEF ServedInv, PatchIsTrue, RunningWasSeen, WrittenInPast
    <2> QED BY <1>0, <2>2, <2>3, <2>4 DEF ServedInv
<1>10. ASSUME KubeletRestart PROVE ServedInv'
    <2>1. /\ servers' = [p \in Pods |-> NoPort] /\ pods' = pods /\ life' = life + 1
          /\ kubelet'.patch = NoPod /\ kubelet'.todo = {} /\ ~kubelet'.syncing
        BY <1>10, QuietTyped DEF KubeletRestart
    <2>2. life \in Nat /\ \A p \in Pods : pods[p].by \in Nat /\ pods[p].by <= life
        BY <1>0 DEF ServedInv, WrittenInPast, TypeOK, StatusType
    <2>3. RunningPodIsServed' /\ WrittenInPast'
        BY <2>1, <2>2 DEF RunningPodIsServed, WrittenInPast
    <2>4. ListenersDistinct' /\ PatchIsTrue' /\ RunningWasSeen'
        BY <2>1 DEF ListenersDistinct, PatchIsTrue, RunningWasSeen
    <2> QED BY <1>0, <2>3, <2>4 DEF ServedInv
<1>11. CASE UNCHANGED <<pods, kubelet, servers, life>>
    BY <1>0, <1>11, OtherWritesKeepServed
<1> QED
    BY <1>1, <1>2, <1>3, <1>4, <1>5, <1>6, <1>7, <1>8, <1>9, <1>10, <1>11
    DEF Next, vars, PostLookup, SchedulerList, BindFails

-----------------------------------------------------------------------------
(***************************************************************************)
(* Type correctness of the pod life-cycle model.                           *)
(***************************************************************************)
THEOREM TypeCorrect == Spec => []TypeOK
<1>1. Init => TypeOK
    BY ServedInit DEF ServedInv
<1> QED BY <1>1, TypeInductive, PTL DEF Spec

(***************************************************************************)
(* A pod reported Running by the kubelet that is running now is served at  *)
(* the port its status publishes, for every interleaving of users,         *)
(* scheduler and kubelet.                                                  *)
(***************************************************************************)
THEOREM RunningServed == Spec => []RunningPodIsServed
<1>1. ServedInv => RunningPodIsServed
    BY DEF ServedInv
<1> QED BY <1>1, ServedInit, ServedInductive, PTL DEF Spec

(***************************************************************************)
(* No two pods reported by the running kubelet publish the same port.      *)
(***************************************************************************)
THEOREM PortsDistinct == Spec => []PublishedPortsDistinct
<1>1. ServedInv => PublishedPortsDistinct
    BY DEF ServedInv, RunningPodIsServed, ListenersDistinct, PublishedPortsDistinct
<1> QED BY <1>1, ServedInit, ServedInductive, PTL DEF Spec

-----------------------------------------------------------------------------
\* A pod not deleted in their hands is still in the phase in which scheduler and
\* kubelet listed it when they come to write its status.
ListedPhaseIsCurrent ==
    \A p \in Pods \ stale :
        /\ p \in binding => pods[p].phase = "Pending"
        /\ p \in kubelet.todo => pods[p].phase = "Scheduled"
        /\ kubelet.patch = p => pods[p].phase = "Scheduled" /\ p \notin kubelet.todo

\* One step of the table as PhaseMovesForward allows it.
StepForward ==
    \A p \in Pods :
        \/ pods'[p].phase \in {pods[p].phase, "Absent"}
        \/ Rank[pods'[p].phase] > Rank[pods[p].phase]
        \/ p \in stale

\* What is let go of was not stale, or is in nobody's hands.
LEMMA LetGoEffect ==
    ASSUME LetGo, NEW p \in Pods, p \notin stale', kubelet'.patch \in Pods \cup {NoPod}
    PROVE  \/ p \notin stale
           \/ p \notin binding' /\ p \notin kubelet'.todo /\ kubelet'.patch # p
BY NoPodAssumption DEF LetGo, InHand

\* Every step of the system moves the pods forward that are not stale.
LEMMA ForwardInductive ==
    ASSUME ServedInv, ListedPhaseIsCurrent, [Next]_vars
    PROVE  ListedPhaseIsCurrent' /\ StepForward
<1>0. TypeOK
    BY DEF ServedInv
<1> USE DEF ListedPhaseIsCurrent, StepForward
<1>1. ASSUME NEW h \in Handlers, PostWrite(h) PROVE ListedPhaseIsCurrent' /\ StepForward
    <2>1. post[h].pod \in Pods
        BY <1>0, <1>1 DEF PostWrite, TypeOK
    <2>2. \A p \in Pods : \/ pods'[p] = pods[p]
                          \/ pods[p].phase = "Absent" /\ pods'[p].phase = "Pending"
        BY <1>0, <1>1, <2>1 DEF PostWrite, TypeOK, Exists, Status
    <2>3. UNCHANGED <<binding, kubelet, stale>>
        BY <1>1 DEF PostWrite
    <2> QED BY <2>2, <2>3 DEF Rank
<1>2. ASSUME NEW p \in Pods, DeletePod(p) PROVE ListedPhaseIsCurrent' /\ StepForward
    <2>1. stale \subseteq stale' /\ UNCHANGED <<binding, kubelet>>
        BY <1>2 DEF DeletePod
    <2>3. p \in stale' \/ (p \notin binding /\ p \notin kubelet.todo /\ kubelet.patch # p)
        BY <1>2, NoPodAssumption DEF DeletePod, InHand
    <2>4. pods'[p].phase = "Absent"
        BY <1>0, <1>2 DEF DeletePod, TypeOK, NoRow, Status
    <2>2. \A q \in Pods : q # p => pods'[q] = pods[q]
        BY <1>0, <1>2 DEF DeletePod, TypeOK
    <2> QED BY <2>1, <2>2, <2>3, <2>4
<1>3. ASSUME NEW p \in Pods, Bind(p) PROVE ListedPhaseIsCurrent' /\ StepForward
    <2>1. Status("Scheduled", NoPort, 0) \in StatusType
          /\ Status("Scheduled", NoPort, 0).phase = "Scheduled"
        BY StatusTyped DEF Phases
    <2>2. \A q \in Pods : \/ pods'[q] = pods[q]
                          \/ q = p /\ pods'[q].phase = "Scheduled"
        BY <1>0, <1>3, <2>1, UpdateStatusEffect DEF Bind
    <2>3. p \in binding /\ binding' = binding \ {p} /\ UNCHANGED kubelet
        BY <1>3 DEF Bind
    <2>4. \A q \in Pods \ stale' :
            q \notin stale \/ (q \notin binding' /\ q \notin kubelet'.todo /\ kubelet'.patch # q)
        BY <1>0, <1>3, <2>3, LetGoEffect DEF Bind, TypeOK
    <2> QED BY <2>2, <2>3, <2>4 DEF Rank
<1>4. ASSUME SyncList PROVE ListedPhaseIsCurrent' /\ StepForward
    <2>1. /\ kubelet'.todo = {p \in Pods : pods[p].phase = "Scheduled"}
          /\ kubelet'.patch = NoPod
        BY <1>4, SyncListEffect
    <2>2. UNCHANGED <<pods, binding, stale>>
        BY <1>4 DEF SyncList
    <2> QED BY <2>1, <2>2, NoPodAssumption
<1>5. ASSUME NEW p \in Pods, RunPod(p) \/ RunPodFails(p)
      PROVE  ListedPhaseIsCurrent' /\ StepForward
    <2>1. /\ kubelet'.todo = kubelet.todo \ {p} /\ kubelet'.patch = p
          /\ p \in kubelet.todo /\ UNCHANGED <<pods, binding, stale>>
        BY <1>0, <1>5 DEF RunPod, RunPodFails, WillPatch, TypeOK
    <2> QED BY <2>1
<1>6. ASSUME NEW p \in Pods, Patch(p) PROVE ListedPhaseIsCurrent' /\ StepForward
    <2>1. kubelet.status.phase \in {"Running", "Failed"}
        BY <1>6, NoPodAssumption DEF Patch, ServedInv, PatchIsTrue
    <2>2. kubelet.status \in StatusType
        BY <1>0 DEF TypeOK
    <2>3. \A q \in Pods : \/ pods'[q] = pods[q]
                          \/ q = p /\ pods'[q].phase \in {"Running", "Failed"}
        BY <1>0, <1>6, <2>1, <2>2, UpdateStatusEffect DEF Patch
    <2>4. /\ kubelet.patch = p /\ kubelet'.patch = NoPod /\ kubelet'.todo = kubelet.todo
          /\ UNCHANGED binding
        BY <1>0, <1>6 DEF Patch, TypeOK
    <2>5. \A q \in Pods \ stale' :
            q \notin stale \/ (q \notin binding' /\ q \notin kubelet'.todo /\ kubelet'.patch # q)
        BY <1>6, <2>4, LetGoEffect DEF Patch
    <2> QED BY <2>3, <2>4, <2>5, NoPodAssumption DEF Rank
<1>7. ASSUME NEW p \in Pods, PatchFails(p) PROVE ListedPhaseIsCurrent' /\ StepForward
    <2>1. /\ kubelet'.patch = NoPod /\ kubelet'.todo = kubelet.todo
          /\ UNCHANGED <<pods, binding>>
        BY <1>0, <1>7 DEF PatchFails, TypeOK
    <2>2. \A q \in Pods \ stale' :
            q \notin stale \/ (q \notin binding' /\ q \notin kubelet'.todo /\ kubelet'.patch # q)
        BY <1>7, <2>1, LetGoEffect DEF PatchFails
    <2> QED BY <2>1, <2>2, NoPodAssumption
<1>8. ASSUME Reap \/ KubeletRestart PROVE ListedPhaseIsCurrent' /\ StepForward
    <2>1. /\ kubelet'.todo = {} /\ kubelet'.patch = NoPod
          /\ UNCHANGED <<pods, binding>>
        BY <1>8, QuietTyped DEF Reap, KubeletRestart
    <2>2. stale' = stale \/ LetGo
        BY <1>8 DEF Reap, KubeletRestart
    <2>3. \A q \in Pods \ stale' :
            q \notin stale \/ (q \notin binding' /\ q \notin kubelet'.todo /\ kubelet'.patch # q)
        BY <2>1, <2>2, LetGoEffect
    <2> QED BY <2>1, <2>3, NoPodAssumption
<1>9. ASSUME SchedulerList PROVE ListedPhaseIsCurrent' /\ StepForward
    BY <1>9 DEF SchedulerList
<1>10. ASSUME NEW p \in Pods, BindFails(p) PROVE ListedPhaseIsCurrent' /\ StepForward
    <2>1. binding' = binding \ {p} /\ UNCHANGED <<pods, kubelet>>
        BY <1>10 DEF BindFails
    <2>2. \A q \in Pods \ stale' :
            q \notin stale \/ (q \notin binding' /\ q \notin kubelet'.todo /\ kubelet'.patch # q)
        BY <1>0, <1>10, <2>1, LetGoEffect DEF BindFails, TypeOK
    <2> QED BY <2>1, <2>2
<1>11. CASE UNCHANGED <<pods, binding, kubelet, stale>>
    BY <1>11
<1> QED
    BY <1>1, <1>2, <1>3, <1>4, <1>5, <1>6, <1>7, <1>8, <1>9, <1>10, <1>11
    DEF Next, vars, PostLookup

(***************************************************************************)
(* The unconditional status writes of scheduler and kubelet never move a   *)
(* pod backwards that was not deleted in their hands, however often pods   *)
(* of that name were deleted before.                                       *)
(***************************************************************************)
THEOREM PhaseForward == Spec => PhaseMovesForward
<1>1. Init => ListedPhaseIsCurrent
    BY QuietTyped, NoPodAssumption DEF Init, ListedPhaseIsCurrent
<1>2. ServedInv /\ ListedPhaseIsCurrent /\ [Next]_vars => ListedPhaseIsCurrent' /\ [StepForward]_vars
    BY ForwardInductive
<1> QED BY <1>1, <1>2, ServedInit, ServedInductive, PTL DEF Spec, PhaseMovesForward, StepForward

-----------------------------------------------------------------------------
\* A pod the kubelet is starting is not Running, and is started once.
NotRunningYet ==
    /\ \A p \in Pods : p \in kubelet.todo \/ kubelet.patch = p => pods[p].phase # "Running"
    /\ kubelet.patch \notin kubelet.todo

\* Pods left Running by an earlier kubelet have no listener.
OldRunningUnserved ==
    \A p \in Pods : pods[p].phase = "Running" /\ pods[p].by # life => servers[p] = NoPort

\* A step that makes no pod Running keeps both.
LEMMA NothingStarted ==
    ASSUME NotRunningYet, OldRunningUnserved, UNCHANGED <<kubelet, servers, life>>,
           \A p \in Pods : pods'[p] = pods[p] \/ pods'[p].phase # "Running"
    PROVE  NotRunningYet' /\ OldRunningUnserved'
BY DEF NotRunningYet, OldRunningUnserved

\* A write that makes no pod Running publishes nothing: it withdraws the pod
\* whose row it changes, if that was Running.
LEMMA NothingPublished ==
    ASSUME NEW p \in Pods, \A q \in Pods : q # p => pods'[q] = pods[q],
           pods'[p] = pods[p] \/ pods'[p].phase # "Running", servers' = servers
    PROVE  [Serving!Next]_(Serving!servingVars)
<1>1. \A q \in Pods : q # p => Published'[q] = Published[q]
    BY DEF Published
<1>2. CASE Published'[p] = Published[p]
    <2>1. Published' = Published
        BY <1>1, <1>2 DEF Published
    <2> QED BY <2>1 DEF Serving!servingVars
<1>3. CASE Published'[p] # Published[p]
    <2>1. Published'[p] = NoPort /\ Published[p] # NoPort
        BY <1>3 DEF Published
    <2>2. Published' = [Published EXCEPT ![p] = NoPort]
        BY <1>1, <2>1 DEF Published
    <2> QED BY <2>1, <2>2 DEF Serving!Next, Serving!Withdraw
<1> QED BY <1>2, <1>3

\* Starting a pod opens a listener for it, unless it has one.
LEMMA RunPodListens ==
    ASSUME TypeOK, NotRunningYet, NEW p \in Pods, RunPod(p)
    PROVE  [Serving!Next]_(Serving!servingVars)
<1>1. pods[p].phase # "Running" /\ pods' = pods
    BY DEF RunPod, NotRunningYet
<1>2. Published' = Published /\ Published[p] = NoPort
    BY <1>1 DEF Published
<1>3. CASE servers[p] # NoPort
    BY <1>2, <1>3 DEF RunPod, Serving!servingVars
<1>4. CASE servers[p] = NoPort
    <2>1. PICK port \in FreePorts : servers' = [servers EXCEPT ![p] = port]
        BY <1>4 DEF RunPod
    <2>2. port \in Ports /\ \A r \in Pods : servers[r] # port
        BY DEF FreePorts
    <2>3. Serving!Listen(p, port)
        BY <1>2, <1>4, <2>1, <2>2 DEF Serving!Listen
    <2> QED BY <2>2, <2>3 DEF Serving!Next
<1> QED BY <1>3, <1>4

\* A report publishes the listener, or the failure of a pod that had nothing
\* published.
LEMMA PatchReports ==
    ASSUME ServedInv, NotRunningYet, NEW p \in Pods, Patch(p)
    PROVE  [Serving!Next]_(Serving!servingVars)
<1>0. TypeOK /\ kubelet.status \in StatusType /\ kubelet.patch = p /\ p # NoPod
    BY NoPodAssumption DEF ServedInv, TypeOK, Patch
<1>1. /\ \A q \in Pods : q # p => pods'[q] = pods[q]
      /\ pods'[p] = pods[p] \/ pods'[p] = kubelet.status
    BY <1>0, UpdateStatusEffect DEF Patch
<1>2. servers' = servers /\ pods[p].phase # "Running"
    BY <1>0 DEF Patch, NotRunningYet
<1>3. CASE pods'[p] = pods[p] \/ kubelet.status.phase # "Running"
    BY <1>1, <1>2, <1>3, NothingPublished
<1>4. CASE pods'[p] = kubelet.status /\ kubelet.status.phase = "Running"
    <2>1. servers[p] # NoPort /\ kubelet.status.port = servers[p]
        BY <1>0, <1>4 DEF ServedInv, PatchIsTrue
    <2>2. Published[p] = NoPort /\ Published'[p] = servers[p]
        BY <1>2, <1>4, <2>1 DEF Published
    <2>3. \A q \in Pods : q # p => Published'[q] = Published[q]
        BY <1>1 DEF Published
    <2>4. Published' = [Published EXCEPT ![p] = servers[p]]
        BY <2>2, <2>3 DEF Published
    <2> QED BY <1>2, <2>1, <2>2, <2>4 DEF Serving!Next, Serving!Report
<1> QED BY <1>1, <1>3, <1>4

\* What Reap closes belongs to no Running pod.
LEMMA ReapCloses ==
    ASSUME ServedInv, OldRunningUnserved, Reap
    PROVE  [Serving!Next]_(Serving!servingVars)
<1> DEFINE S == {p \in Pods : p \notin kubelet.seen /\ servers[p] # NoPort}
<1>1. /\ servers' = [p \in Pods |-> IF p \in kubelet.seen THEN servers[p] ELSE NoPort]
      /\ kubelet.syncing /\ pods' = pods
    BY DEF Reap
<1>2. \A p \in S : pods[p].phase # "Running"
    BY <1>1 DEF ServedInv, RunningWasSeen, OldRunningUnserved
<1>3. \A p \in S : Published[p] = NoPort
    BY <1>2 DEF Published
<1>4. servers' = [p \in Pods |-> IF p \in S THEN NoPort ELSE servers[p]]
    BY <1>1
<1>5. Published' = Published
    BY <1>1 DEF Published
<1> HIDE DEF S
<1>6. Serving!CloseListeners(S)
    BY <1>3, <1>4, <1>5 DEF Serving!CloseListeners
<1>7. S \in SUBSET Pods
    BY DEF S
<1> QED BY <1>6, <1>7 DEF Serving!Next

\* Every step is one the promise allows, and keeps what that rests on.
LEMMA ServingInductive ==
    ASSUME ServedInv, NotRunningYet, OldRunningUnserved, [Next]_vars
    PROVE  NotRunningYet' /\ OldRunningUnserved' /\ [Serving!Next]_(Serving!servingVars)
<1> DEFINE Goal == /\ NotRunningYet' /\ OldRunningUnserved'
                   /\ [Serving!Next]_(Serving!servingVars)
<1>0. TypeOK
    BY DEF ServedInv
<1>1. ASSUME NEW h \in Handlers, PostWrite(h) PROVE Goal
    <2> DEFINE p == post[h].pod
    <2>1. p \in Pods
        BY <1>0, <1>1 DEF PostWrite, TypeOK
    <2>2. /\ \A q \in Pods : q # p => pods'[q] = pods[q]
          /\ pods'[p] = pods[p] \/ pods'[p].phase # "Running"
        BY <1>0, <1>1, <2>1 DEF PostWrite, TypeOK, Status
    <2>3. UNCHANGED <<kubelet, servers, life>>
        BY <1>1 DEF PostWrite
    <2> HIDE DEF p
    <2> QED BY <2>1, <2>2, <2>3, NothingStarted, NothingPublished
<1>2. ASSUME NEW p \in Pods, DeletePod(p) PROVE Goal
    <2>1. /\ \A q \in Pods : q # p => pods'[q] = pods[q]
          /\ pods'[p].phase # "Running"
        BY <1>0, <1>2, NoRowTyped DEF DeletePod, TypeOK
    <2>2. UNCHANGED <<kubelet, servers, life>>
        BY <1>2 DEF DeletePod
    <2> QED BY <2>1, <2>2, NothingStarted, NothingPublished
<1>3. ASSUME NEW p \in Pods, Bind(p) PROVE Goal
    <2>1. Status("Scheduled", NoPort, 0) \in StatusType
          /\ Status("Scheduled", NoPort, 0).phase = "Scheduled"
        BY StatusTyped DEF Phases
    <2>2. /\ \A q \in Pods : q # p => pods'[q] = pods[q]
          /\ pods'[p] = pods[p] \/ pods'[p].phase # "Running"
        BY <1>0, <1>3, <2>1, UpdateStatusEffect DEF Bind
    <2>3. UNCHANGED <<kubelet, servers, life>>
        BY <1>3 DEF Bind
    <2> QED BY <2>2, <2>3, NothingStarted, NothingPublished
<1>4. ASSUME SyncList PROVE Goal
    <2>1. /\ kubelet'.todo = {p \in Pods : pods[p].phase = "Scheduled"}
          /\ kubelet'.patch = NoPod /\ UNCHANGED <<pods, servers, life>>
        BY <1>4, SyncListEffect DEF SyncList
    <2>2. NotRunningYet' /\ OldRunningUnserved'
        BY <2>1, NoPodAssumption DEF NotRunningYet, OldRunningUnserved
    <2>3. UNCHANGED Serving!servingVars
        BY <2>1 DEF Serving!servingVars, Published
    <2> QED BY <2>2, <2>3
<1>5. ASSUME NEW p \in Pods, RunPod(p) PROVE Goal
    <2>1. /\ kubelet'.todo = kubelet.todo \ {p} /\ kubelet'.patch = p
          /\ p \in kubelet.todo /\ UNCHANGED <<pods, life>>
        BY <1>0, <1>5 DEF RunPod, WillPatch, TypeOK
    <2>2. \A q \in Pods : q # p => servers'[q] = servers[q]
        BY <1>0, <1>5, RunPodEffect
    <2>3. NotRunningYet' /\ OldRunningUnserved'
        BY <2>1, <2>2 DEF NotRunningYet, OldRunningUnserved
    <2> QED BY <1>0, <1>5, <2>3, RunPodListens
<1>6. ASSUME NEW p \in Pods, RunPodFails(p) PROVE Goal
    <2>1. /\ kubelet'.todo = kubelet.todo \ {p} /\ kubelet'.patch = p
          /\ p \in kubelet.todo /\ UNCHANGED <<pods, servers, life>>
        BY <1>0, <1>6 DEF RunPodFails, WillPatch, TypeOK
    <2>2. NotRunningYet' /\ OldRunningUnserved'
        BY <2>1 DEF NotRunningYet, OldRunningUnserved
    <2>3. UNCHANGED Serving!servingVars
        BY <2>1 DEF Serving!servingVars, Published
    <2> QED BY <2>2, <2>3
<1>7. ASSUME NEW p \in Pods, Patch(p) PROVE Goal
    <2>1. kubelet.status \in StatusType /\ kubelet.patch = p /\ p # NoPod
        BY <1>0, <1>7, NoPodAssumption DEF TypeOK, Patch
    <2>2. \A q \in Pods : pods'[q] = pods[q] \/ (q = p /\ pods'[q] = kubelet.status)
        BY <1>0, <1>7, <2>1, UpdateStatusEffect DEF Patch
    <2>3. /\ kubelet'.patch = NoPod /\ kubelet'.todo = kubelet.todo
          /\ UNCHANGED <<servers, life>>
        BY <1>0, <1>7 DEF Patch, TypeOK
    <2>4. kubelet.status.by = life
        BY <2>1 DEF ServedInv, PatchIsTrue
    <2>5. NotRunningYet'
        <3>1. NoPod \notin kubelet.todo
            BY <1>0, NoPodAssumption DEF TypeOK
        <3> QED BY <2>1, <2>2, <2>3, <3>1, NoPodAssumption DEF NotRunningYet
    <2>6. OldRunningUnserved'
        BY <2>2, <2>3, <2>4 DEF OldRunningUnserved
    <2> QED BY <1>7, <2>5, <2>6, PatchReports
<1>8. ASSUME NEW p \in Pods, PatchFails(p) PROVE Goal
    <2>1. /\ kubelet'.patch = NoPod /\ kubelet'.todo = kubelet.todo
          /\ UNCHANGED <<pods, servers, life>>
        BY <1>0, <1>8 DEF PatchFails, TypeOK
    <2>2. NoPod \notin kubelet.todo
        BY <1>0, NoPodAssumption DEF TypeOK
    <2>3. NotRunningYet' /\ OldRunningUnserved'
        BY <2>1, <2>2, NoPodAssumption DEF NotRunningYet, OldRunningUnserved
    <2>4. UNCHANGED Serving!servingVars
        BY <2>1 DEF Serving!servingVars, Published
    <2> QED BY <2>3, <2>4
<1>9. ASSUME Reap PROVE Goal
    <2>1. /\ kubelet'.patch = NoPod /\ kubelet'.todo = {} /\ UNCHANGED <<pods, life>>
          /\ \A p \in Pods : servers[p] = NoPort => servers'[p] = NoPort
        BY <1>9, QuietTyped DEF Reap
    <2>2. NotRunningYet' /\ OldRunningUnserved'
        BY <2>1, NoPodAssumption DEF NotRunningYet, OldRunningUnserved
    <2> QED BY <1>9, <2>2, ReapCloses
<1>10. ASSUME KubeletRestart PROVE Goal
    <2>1. /\ kubelet'.patch = NoPod /\ kubelet'.todo = {} /\ pods' = pods
          /\ servers' = [p \in Pods |-> NoPort]
        BY <1>10, QuietTyped DEF KubeletRestart
    <2>2. NotRunningYet' /\ OldRunningUnserved'
        BY <2>1, NoPodAssumption DEF NotRunningYet, OldRunningUnserved
    <2>3. Serving!Next
        BY <2>1 DEF Serving!Next, Serving!Restart, Published
    <2> QED BY <2>2, <2>3
<1>11. CASE UNCHANGED <<pods, kubelet, servers, life>>
    <2>1. NotRunningYet' /\ OldRunningUnserved'
        BY <1>11 DEF NotRunningYet, OldRunningUnserved
    <2>2. UNCHANGED Serving!servingVars
        BY <1>11 DEF Serving!servingVars, Published
    <2> QED BY <2>1, <2>2
<1> QED
    BY <1>1, <1>2, <1>3, <1>4, <1>5, <1>6, <1>7, <1>8, <1>9, <1>10, <1>11
    DEF Next, vars, PostLookup, SchedulerList, BindFails

(***************************************************************************)
(* Users, scheduler and kubelet together keep the promise on which the     *)
(* routing of Services is built: syncOnce, runPod and the API handlers     *)
(* implement ServingPods.                                                  *)
(***************************************************************************)
THEOREM ServingRefinement == Spec => ImplementsServing
<1>1. Init => NotRunningYet /\ OldRunningUnserved
    BY QuietTyped, NoPodAssumption DEF Init, NotRunningYet, OldRunningUnserved
<1>2. Init => Serving!Init
    BY NoRowTyped DEF Init, Serving!Init, Published
<1>3. /\ ServedInv /\ NotRunningYet /\ OldRunningUnserved /\ [Next]_vars
      => NotRunningYet' /\ OldRunningUnserved' /\ [Serving!Next]_(Serving!servingVars)
    BY ServingInductive
<1> QED BY <1>1, <1>2, <1>3, ServedInit, ServedInductive, PTL
        DEF Spec, ImplementsServing, Serving!Spec

=============================================================================
