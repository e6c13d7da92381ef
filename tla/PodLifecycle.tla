---------------------------- MODULE PodLifecycle ----------------------------
(***************************************************************************)
(* The life of a pod: the pods table of the store with the API handlers    *)
(* that write it, mk-scheduler, and mk-kubelet with its stub runtime.      *)
(*                                                                         *)
(* Scheduler and kubelet poll: each lists pods, works through the listed   *)
(* pods one HTTP call at a time, and sleeps.  Both write the status        *)
(* subresource by NAME and unconditionally, from what they listed, while   *)
(* users and controllers create and delete pods of the same name.  Every   *)
(* SQL statement is atomic (one connection); an HTTP handler that issues   *)
(* two of them is two steps.                                               *)
(*                                                                         *)
(* mk-scheduler binds every pod to the one node of its -node flag, so there*)
(* is one node and one kubelet.  An HTTP call either takes effect before   *)
(* the caller goes on or not at all.                                       *)
(***************************************************************************)
EXTENDS Naturals

CONSTANTS
    Pods,        \* pod names
    NoPod,
    Ports,       \* bound: TCP ports net.Listen can hand out
    NoPort,      \* host_port = 0
    Handlers,    \* bound: POST /pods requests in progress at once
    MaxRestarts  \* bound on kubelet restarts

ASSUME NoPodAssumption == NoPod \notin Pods
ASSUME NoPortAssumption == NoPort \notin Ports
ASSUME MaxRestartsAssumption == MaxRestarts \in Nat

VARIABLES
    pods,      \* the pods table; phase "Absent" where there is no row
    post,      \* per handler: the pod being upserted and what GetPod said
    binding,   \* scheduler: listed Pending pods still to be bound
    kubelet,   \* the pass of syncOnce in progress
    servers,   \* stubServers: port of the pod's listener, or NoPort
    life,      \* history: which incarnation of the kubelet is running
    stale      \* history: pods deleted in the hands of a pass that goes on

vars == <<pods, post, binding, kubelet, servers, life, stale>>

Phases == {"Absent", "Pending", "Scheduled", "Running", "Failed"}

\* by: the incarnation of the kubelet that wrote the status (history; 0: none).
Status(ph, port, k) == [phase |-> ph, port |-> port, by |-> k]

StatusType == [phase : Phases, port : Ports \cup {NoPort}, by : Nat]

NoRow == Status("Absent", NoPort, 0)

Quiet == [syncing |-> FALSE, seen |-> {}, todo |-> {},
          patch |-> NoPod, status |-> NoRow]

Free == [pod |-> NoPod, found |-> FALSE]

TypeOK ==
    /\ pods \in [Pods -> StatusType]
    /\ post \in [Handlers -> [pod : Pods \cup {NoPod}, found : BOOLEAN]]
    /\ binding \in SUBSET Pods
    /\ kubelet \in [syncing : BOOLEAN, seen : SUBSET Pods, todo : SUBSET Pods,
                    patch : Pods \cup {NoPod}, status : StatusType]
    /\ servers \in [Pods -> Ports \cup {NoPort}]
    /\ life \in Nat
    /\ stale \in SUBSET Pods

Exists(p) == pods[p].phase # "Absent"

\* Pods the pass of the scheduler or of the kubelet will still write to.
InHand == binding \cup kubelet.todo \cup ({kubelet.patch} \ {NoPod})

\* A pass may be done with a pod: what is in no hand is not stale any more.
LetGo == stale' = stale \cap InHand'

Init ==
    /\ pods = [p \in Pods |-> NoRow]
    /\ post = [h \in Handlers |-> Free]
    /\ binding = {}
    /\ kubelet = Quiet
    /\ servers = [p \in Pods |-> NoPort]
    /\ life = 1
    /\ stale = {}

-----------------------------------------------------------------------------
(* The pods table. *)

\* Store.UpdateStatus: all status columns, if there is a row.
UpdateStatus(p, s) ==
    pods' = IF Exists(p) THEN [pods EXCEPT ![p] = s] ELSE pods

\* POST /pods reaches UpsertPod, whose first statement looks the pod up.
PostLookup(h, p) ==
    /\ post[h].pod = NoPod
    /\ post' = [post EXCEPT ![h] = [pod |-> p, found |-> Exists(p)]]
    /\ UNCHANGED <<pods, binding, kubelet, servers, life, stale>>

\* Mutant: an upsert replaces the status too.
PostWrite_ReplacesStatus(h) ==
    /\ post[h].pod # NoPod
    /\ pods' = [pods EXCEPT ![post[h].pod] = Status("Pending", NoPort, 0)]
    /\ post' = [post EXCEPT ![h] = Free]
    /\ UNCHANGED <<binding, kubelet, servers, life, stale>>

\* The second statement.  Found: an UPDATE of spec and metadata, which leaves
\* the status alone and does nothing if the row has gone.  Not found: an INSERT
\* in phase Pending, which fails if another request was faster.
PostWrite(h) ==
    /\ post[h].pod # NoPod
    /\ LET p == post[h].pod
       IN pods' = IF post[h].found \/ Exists(p) THEN pods
                  ELSE [pods EXCEPT ![p] = Status("Pending", NoPort, 0)]
    /\ post' = [post EXCEPT ![h] = Free]
    /\ UNCHANGED <<binding, kubelet, servers, life, stale>>

\* DELETE /pods/{name}.
DeletePod(p) ==
    /\ Exists(p)
    /\ pods' = [pods EXCEPT ![p] = NoRow]
    /\ stale' = stale \cup ({p} \cap InHand)
    /\ UNCHANGED <<post, binding, kubelet, servers, life>>

-----------------------------------------------------------------------------
(* mk-scheduler, scheduleOnce. *)

SchedulerList ==
    /\ binding = {}
    /\ binding' = {p \in Pods : pods[p].phase = "Pending"}
    /\ UNCHANGED <<pods, post, kubelet, servers, life, stale>>

\* PUT status Scheduled, whatever the pod has become since it was listed.
Bind(p) ==
    /\ p \in binding
    /\ UpdateStatus(p, Status("Scheduled", NoPort, 0))
    /\ binding' = binding \ {p}
    /\ UNCHANGED <<post, kubelet, servers, life>>
    /\ LetGo

\* The PUT fails: logged, next pod.
BindFails(p) ==
    /\ p \in binding
    /\ binding' = binding \ {p}
    /\ UNCHANGED <<pods, post, kubelet, servers, life>>
    /\ LetGo

-----------------------------------------------------------------------------
(* mk-kubelet, syncOnce. *)

\* GET /pods?nodeName=: a pod has a node name from its binding on.
OnNode(p) == pods[p].phase \in {"Scheduled", "Running", "Failed"}

\* Mutants: seen is only set for the pods that are started in this pass; a pod
\* that has a listener is not reported again.
SyncList_SeenIfStarted ==
    /\ ~kubelet.syncing
    /\ kubelet' = [Quiet EXCEPT !.syncing = TRUE,
                                !.seen = {p \in Pods : pods[p].phase = "Scheduled"},
                                !.todo = {p \in Pods : pods[p].phase = "Scheduled"}]
    /\ UNCHANGED <<pods, post, binding, servers, life, stale>>

SyncList_SkipsStarted ==
    /\ ~kubelet.syncing
    /\ kubelet' = [Quiet EXCEPT !.syncing = TRUE,
                                !.seen = {p \in Pods : OnNode(p)},
                                !.todo = {p \in Pods : /\ pods[p].phase = "Scheduled"
                                                       /\ servers[p] = NoPort}]
    /\ UNCHANGED <<pods, post, binding, servers, life, stale>>

SyncList ==
    /\ ~kubelet.syncing
    /\ kubelet' = [Quiet EXCEPT !.syncing = TRUE,
                                !.seen = {p \in Pods : OnNode(p)},
                                !.todo = {p \in Pods : pods[p].phase = "Scheduled"}]
    /\ UNCHANGED <<pods, post, binding, servers, life, stale>>

\* A port the operating system can give to a new listener.
FreePorts == Ports \ {servers[p] : p \in Pods}

\* runPod is about to PUT status s for p.
WillPatch(p, s) ==
    kubelet' = [kubelet EXCEPT !.todo = @ \ {p}, !.patch = p, !.status = s]

\* runPod and stubRun: the pod's listener is reused if there is one, otherwise
\* a new one is opened.
RunPod(p) ==
    /\ p \in kubelet.todo
    /\ kubelet.patch = NoPod
    /\ IF servers[p] # NoPort
       THEN servers' = servers
       ELSE \E port \in FreePorts : servers' = [servers EXCEPT ![p] = port]
    /\ WillPatch(p, Status("Running", servers'[p], life))
    /\ UNCHANGED <<pods, post, binding, life, stale>>

\* runPod fails: no containers in the spec, or net.Listen fails.
RunPodFails(p) ==
    /\ p \in kubelet.todo
    /\ kubelet.patch = NoPod
    /\ WillPatch(p, Status("Failed", NoPort, life))
    /\ UNCHANGED <<pods, post, binding, servers, life, stale>>

\* The PUT of runPod, again by name and unconditional.
Patch(p) ==
    /\ kubelet.patch = p
    /\ UpdateStatus(p, kubelet.status)
    /\ kubelet' = [kubelet EXCEPT !.patch = NoPod]
    /\ UNCHANGED <<post, binding, servers, life>>
    /\ LetGo

\* The PUT fails: logged and forgotten.
PatchFails(p) ==
    /\ kubelet.patch = p
    /\ kubelet' = [kubelet EXCEPT !.patch = NoPod]
    /\ UNCHANGED <<pods, post, binding, servers, life>>
    /\ LetGo

\* The rest of syncOnce: close the listeners of pods that were not listed.
Reap ==
    /\ kubelet.syncing
    /\ kubelet.todo = {}
    /\ kubelet.patch = NoPod
    /\ servers' = [p \in Pods |-> IF p \in kubelet.seen THEN servers[p] ELSE NoPort]
    /\ kubelet' = Quiet
    /\ UNCHANGED <<pods, post, binding, life, stale>>

\* The kubelet process restarts; its listeners and its map die with it.
KubeletRestart ==
    /\ life <= MaxRestarts
    /\ life' = life + 1
    /\ kubelet' = Quiet
    /\ servers' = [p \in Pods |-> NoPort]
    /\ UNCHANGED <<pods, post, binding>>
    /\ LetGo

-----------------------------------------------------------------------------
Next ==
    \/ \E h \in Handlers : PostWrite(h) \/ \E p \in Pods : PostLookup(h, p)
    \/ \E p \in Pods :
        \/ DeletePod(p)
        \/ Bind(p) \/ BindFails(p)
        \/ RunPod(p) \/ RunPodFails(p) \/ Patch(p) \/ PatchFails(p)
    \/ SchedulerList
    \/ SyncList \/ Reap \/ KubeletRestart

Spec == Init /\ [][Next]_vars

\* Both daemons loop for ever; an HTTP call that is retried on every pass does
\* not fail every time.
Fairness ==
    /\ WF_vars(SchedulerList) /\ WF_vars(SyncList) /\ WF_vars(Reap)
    /\ WF_vars(\E p \in Pods : Bind(p) \/ BindFails(p))
    /\ WF_vars(\E p \in Pods : RunPod(p) \/ RunPodFails(p))
    /\ WF_vars(\E p \in Pods : Patch(p) \/ PatchFails(p))
    /\ \A p \in Pods : SF_vars(Bind(p)) /\ SF_vars(Patch(p))

FairSpec == Spec /\ Fairness

-----------------------------------------------------------------------------
(***************************************************************************)
(* A pod the kubelet has reported Running is reachable: the port in its    *)
(* status is the port of the listener the kubelet keeps for it, although   *)
(* syncOnce decides what to close from a list taken before it reported,    *)
(* and pods are deleted and created again meanwhile.  (After a restart of  *)
(* the kubelet this says nothing of the pods reported before it.)          *)
(***************************************************************************)
RunningPodIsServed ==
    \A p \in Pods :
        pods[p].phase = "Running" /\ pods[p].by = life
            => servers[p] # NoPort /\ pods[p].port = servers[p]

(***************************************************************************)
(* Two pods reported by the running kubelet never publish the same port,   *)
(* so a Service never reaches one pod at the address of another.           *)
(***************************************************************************)
PublishedPortsDistinct ==
    \A p, q \in Pods :
        /\ pods[p].phase = "Running" /\ pods[p].by = life
        /\ pods[q].phase = "Running" /\ pods[q].by = life
        /\ pods[p].port = pods[q].port
        => p = q

\* The host port of each Running pod.
Published == [p \in Pods |-> IF pods[p].phase = "Running" THEN pods[p].port ELSE NoPort]

Serving == INSTANCE ServingPods WITH pods <- Published, listening <- servers

(***************************************************************************)
(* The table and the kubelet keep the promise ServiceRouting builds on: a  *)
(* pod is published only with the listener it has, and a listener is taken *)
(* from a published pod only by a restart - through status writes by name  *)
(* that are older than the pod they hit.                                   *)
(***************************************************************************)
ImplementsServing == Serving!Spec

Rank == [Absent |-> 0, Pending |-> 1, Scheduled |-> 2, Running |-> 3, Failed |-> 3]

(***************************************************************************)
(* A pod only moves forward, Pending, Scheduled, then Running or Failed    *)
(* until it is deleted, and the same again when it is created again: the   *)
(* unconditional status writes of scheduler and kubelet undo nothing.  The *)
(* exception is a pod deleted while a pass had it in its hands, for as     *)
(* long as one has: the write meant for the old pod may hit the new one.   *)
(***************************************************************************)
PhaseMovesForward ==
    [][\A p \in Pods :
        \/ pods'[p].phase \in {pods[p].phase, "Absent"}
        \/ Rank[pods'[p].phase] > Rank[pods[p].phase]
        \/ p \in stale]_vars

(***************************************************************************)
(* Every pod is started or reported Failed in the end, unless somebody     *)
(* deletes it first, however many status writes are lost.                  *)
(***************************************************************************)
EveryPodSettles ==
    \A p \in Pods :
        (pods[p].phase \in {"Pending", "Scheduled"})
            ~> (pods[p].phase \in {"Running", "Failed", "Absent"})

=============================================================================
