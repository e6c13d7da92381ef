# Verification of the mini-Kubernetes orchestrator

TLA+ models of the control plane under `src/mvp/` (Go), the TLC runs that check
them on small instances, and TLAPS proofs of the safety results for every value
of the constants. `PROJECT.json` lists the components, the runs, the mutants
(plausible bugs each property is known to catch), the source lines every
definition stands for, the hazards and the theorems.

## 1. The system

One SQLite file holds the cluster's state. One or more `mk-apiserver` processes
serve it over HTTP; everything else polls the API on a timer, compares what it
lists with what should be, and issues one HTTP call after another. There are no
watches, no resource versions and no transactions across calls: every list is
stale by the time it is acted on and every write is unconditional and by name.

| Component | Source | State | Operations | Talks to |
|---|---|---|---|---|
| Store | `internal/store` | one table per kind, a lease row; one connection, so statements are atomic and two of them are not | upsert, get, list, update status, delete, `TryAcquireLease` | SQLite |
| apiserver | `cmd/apiserver` | ClusterIP cursor, leadership, the controllers' context | REST handlers behind RBAC `guard`; admission on pod and Deployment create; `runLeaderElected` | store, webhooks, metrics-server |
| Leader election | `store.go` 1001-1059, `apiserver/main.go` 146-210 | `leases` row; `leading`, `cancelCtrl` per replica | acquire/renew once per tick, start and stop the controllers | store |
| Scheduler | `cmd/scheduler` | none | list Pending, PUT status Scheduled on the node of `-node` | API |
| Kubelet | `cmd/kubelet` | `stubServers` (listeners by pod) | list own pods, start listeners, PUT Running/Failed, close the rest | API, OS |
| ReplicaSet controller | `internal/controllers/replicaset.go` | none | list, create missing, delete newest extras, PUT status | API |
| Deployment controller | `internal/controllers/deployment.go` | none | one ReplicaSet per Deployment, copy replicas, aggregate status | API |
| HPA controller, metrics-server | `internal/hpa`, `cmd/metrics-server` | last scale time and CPU samples per HPA | scrape, compute the desired count, scale the Deployment | API, kubelet |
| Service controller, ClusterIP allocation | `internal/controllers/service.go`, `apiserver/main.go` | `endpoints` table, allocation cursor | list Services and pods, PUT Endpoints; allocate on create | API |
| kube-proxy, DNS | `cmd/kube-proxy`, `cmd/coredns-mini` | listeners with backends and a round-robin index; name to IP map | sync from Services and Endpoints, forward connections, answer queries | API |
| NetworkPolicy | `internal/netpol`, `apiserver/m6.go` | `network_policies`; caches of policies and pods in the proxy | upsert, delete; evaluate per connection | store, proxy |
| RBAC | `internal/rbac`, `guard` in `apiserver/main.go` | `users`, `roles`, `role_bindings` | authenticate, authorize, POST of each kind | store |
| Admission | `internal/admission`, `cmd/sample-webhook`, `cmd/mk-sidecar-injector` | `admission_webhooks` | register, delete; call the webhooks one by one | store, webhooks |
| CRDs, custom resources, operator SDK | `internal/crd`, `operator`, `apiserver/main.go` | `crds`, `custom_resources` | dynamic routes, polling informer | store |
| Federation | `internal/federation` | none | probe member clusters, push each FederatedDeployment to the ready ones it selects, PUT the counts | API of members |
| Client, `mkctl`, sidecars | `internal/client`, `cmd/mkctl`, `cmd/mk-sidecar*` | round-robin index of the load-balancing transport | HTTP calls | API |

What is hard: two apiservers or a `mk-controller-manager` may run controllers at
the same time; leadership is lost while a pass is in progress; every
read-then-write of the store is two statements; pods are deleted and created
again under one name while status writes for the earlier pod are under way;
any call of a pass may fail and is only logged; the kubelet's listeners die with
it while the pods it reported stay Running; the HPA writes back a whole
Deployment it read earlier. `PROJECT.json` lists each under `hazards` with its
line.

What makes each part correct, in one line each:

- leader election: at most one replica that renewed in time believes it leads; a
  lost lease stops the controllers; a crashed holder is replaced;
- pods: a pod reported Running is served at the port reported; phases only move
  forward, but for a status that was decided for an earlier pod of the name; every
  pod settles;
- ReplicaSets: only extras are deleted, the newest first; over-provisioning is
  bounded; counts and status converge;
- Services: endpoints list live pods only, and the proxy follows them; cluster IPs
  are distinct and stay, and DNS answers with them;
- HPA and Deployments: the replica count stays within min and max and follows a
  user's apply;
- NetworkPolicy: in the end exactly the connections pass that the policies in the
  table allow, and policies never send a connection elsewhere;
- RBAC: what is allowed was granted, and what was granted throughout is allowed;
- admission: what is stored satisfies every webhook registered throughout that
  was not excused by its policy;
- CRDs: resources live and die with their CRD, conform to it, and are seen by the
  operator;
- federation: every selected cluster that accepts it has the template, and the
  status says so.

## 2. Modules

### LeaderElection (`MCLeaderElection`, `LeaderElectionProofs`)

`lease` is the row, `attempt[r]` the `now` a `TryAcquireLease` call in progress
has read, `leading` and `cancelCtrl` the locals of `runLeaderElected`, `ctrl` the
controller generations it has started. The call reads the clock, then waits for
the database: `Attempt` is the first half, and `Acquire`, `Refused` and
`AttemptError` are the three ways the second half ends. The transaction is one
step, because SQLite fails the second of two overlapping writers (that failure is
an `AttemptError`). The five controllers of one generation are represented by
one: it is in a pass while any of them is. A cancelled generation may start
another pass (Go's `select` picks freely among ready channels) and never
interrupts one. Two of the five make calls without a timeout, the federation
controller to its members (`federation.go:98`) and the autoscaler for the metrics
(`hpa.go:173`): `Hang` takes one such loop out of its generation for ever (`hung`),
the others go on, and it is they whose end `DeposedLeaderStops` is about. `Crash` keeps the row only; `Restart` comes back under the same
identity. TTLs differ per replica because they are flags; `StoredTTL` is the
truncation to whole seconds. `lastOK` is a history variable.

### PodLifecycle (`MCPodLifecycle`, `PodLifecycleProofs`)

`pods` is the table (phase and published port), `post` the `POST /pods` handlers
between the two statements of `UpsertPod`, `binding` the scheduler's listed pods,
`kubelet` the pass of `syncOnce` in progress, `servers` the map `stubServers`.
Each HTTP call is a step: `Bind`/`BindFails`, `RunPod`/`RunPodFails` (start the
listener, or decide Failed) and then `Patch`/`PatchFails`, at last `Reap`.
`KubeletRestart` loses listeners and map. `life`, `stale` and the field `by` are
history; `stale` holds the pods deleted while a pass of the scheduler or the kubelet
had them in its hands (`InHand`), until it lets go of them: a status decided for the
earlier pod may then reach its successor, which is the exception of
`PhaseMovesForward`. Specs, labels and the order in which a list is worked through are
abstracted: nothing checked depends on them.

### ServingPods

What the kubelet promises to those who route traffic, with nothing of phases, lists
and status writes: a pod gets a listener at a port of its own (`Listen`), is published
at the port it listens at (`Report`), ceases to be published (`Withdraw`), loses its
listener only when it is not published (`CloseListeners`) or with the kubelet
(`Restart`). PodLifecycle implements it (`ImplementsServing`: `pods` is the port of
each Running row, `listening` the map `stubServers`), and ServiceRouting is built on
its actions.

### ReplicaSetControl (`MCReplicaSetControl`, `ReplicaSetControlProofs`)

`rs` is the ReplicaSet row, `phase` and `older` the pods and the order of their
`created_at` (the list order that decides who is deleted), `ctl` the pass of each
controller instance, `apply` an `UpsertReplicaSet` between its two statements.
`CreatePod` reads the time before its INSERT, so `CreateStamp` and `CreateInsert`
are two steps and a younger pod may appear first. A random name that is taken
makes the create an update (`CreateCollides`). A failing `ListReplicaSets` changes
nothing, a failing `ListPods` ends the pass (`ListPodsFails`). Users and failing pods are
disturbances, bounded in number; `disturbed` is a history variable saying
whether a pass now under way was overtaken by one. Negative replica counts, which
`handleRS` does not refuse and on which `alive[desired:]` panics, are outside the
model.

### ServiceRouting (`MCServiceRouting`, `RoutingProofs`)

Composes four stores of one fact, the address of a pod. `pods` holds the port in
each Running pod's status and `listening` what is really there: the variables of
ServingPods, whose actions are the steps of the pods here (`ListenerOpens`, `PodRuns`,
`PodDeleted`, `ListenersClose`, `KubeletRestart`). `ctl` holds the lists of
a pass of the Service controller, `endpoints` the table, `entries` the proxy's
listeners with their backends, `conn` a connection. `ListServices`, `ListPods` and
one `UpsertEndpoints` per listed Service are the steps of `reconcileAll`; `SyncList`, one `SyncService` per listed Service and
`SyncRemove` those of the proxy's `sync`; every call has its failing variant.
`DeleteService` is two statements of which the second may fail unnoticed.
`Accept` and `Dial` are apart, because pods come and go between the choice of a
backend and the connection to it. `AddrsOf` says which addresses a Service may be
given: its own by default, any of the pool with `-cluster-ip-loopback-cidr`.
A freed port is given out again, as `net.Listen` on port 0 does. `stranded` is
history: the pods Running since before the last restart of the kubelet. The initial
states are those of a cluster into which a proxy and the controllers are started:
some Services exist, some pods are Running and served.

### Autoscaling (`MCAutoscaling`, `AutoscalingProofs`)

Composes the autoscaler, the Deployment controller and users around one
Deployment: `dep`, `rs` and `hpa` are rows, `posts` the `POST /deployments`
requests between the two statements of `UpsertDeployment` (one per caller),
`auto` the passes of the autoscalers, `deploy` the pass of the Deployment
controller, `hpaApply` an `UpsertHPA` between its statements. Only the age of
`LastScaleTime` matters, and only up to the cooldown, so times are ages that
`Tick` advances. The CPU average is a value of `Loads`, or 0 when there are no
metrics. `Desired` is the formula with the ceiling written in integers. The upsert
of the ReplicaSet is one step here: its race is the subject of
ReplicaSetControl. `sinceScale` and `statusLost` are history.

### Lease

What LeaderElection promises, with nothing of how: a replica is granted the lease
up to some time, nobody else is before that time has passed, and a grant is never
shortened. `LeaderElection!Granted` is the refinement mapping: the row is a grant
up to `renew_time` plus the stored TTL, and a replica that believes it leads relies
on the grant it last obtained.

### PolicyRouting (`MCPolicyRouting`, `RoutingProofs`)

Extends ServiceRouting by what policies add to the proxy: the table `policies`,
the caches `known` of policies and pods, refreshed in that order between the list
of Services and the work on them (`RefreshPolicies`, `RefreshPods`, and
`RefreshFails`, which keeps the old ones), and a `verdict` between the choice of a
backend and the dial. The caller is known by its source port only (`AcceptFrom`),
looked up in the cached pods, the first with that port; which that is when several
have it is left open, so `Decisions` is a set. `Evaluate` is the evaluator. Every step that is not
about policies is a step of ServiceRouting with the new variables unchanged.

### ClusterIPs (`MCClusterIPs`, `ClusterIPsProofs`)

`services` holds the address of each Service row, `cursor` the byte of each
replica's allocator, `req` the POST of each client: whether the Service exists,
which addresses are taken, the allocation, whether it exists, the write. `Tried(n)`
is the cursor after each round of the loop of `alloc` and `Search` the loop, with
`Modulus` for 256 and `Tries` for 250. `names` is the map of
`mk-coredns-mini`, and `Answer` the lookup. It lowers the case of the name asked for
(`Lower`), whose key keeps it, and gives up unless two parts are left of it: a Service
with a capital letter has no answer, or that of another Service, and one with a dot
(`Dotted`) none, which `NamesFollowServices` says. In the instance the second Service's
name is the first's with capitals; no name has a dot, as there the answer is `NoIP` by
definition. `raced`, `reborn` and `refusals` are history.

### AccessControl and Admission, composed by PodRequests (`MCPodRequests`, `PodRequestsProofs`)

AccessControl is the guard, a statement at a time: `Authenticate`,
`ListRoleBindings` of a scope, one `GetRole` per binding that is about the user,
`NextScope`; every read has its failing variant with what the code makes of it
(401, 500, a missing role). `Administer` are the POSTs of users, roles and bindings.
Admission is `Review`: one list, then one call per webhook (`CallAnswered` or
`CallFails`); what is left to call is a set of webhooks with their places in the list,
and `Before` says whose turn it is: the mutating ones first, then the validating ones,
each in the order listed. Pods are what the repository's webhooks tell
apart: a label, the request for a sidecar, the containers and their limits.
PodRequests is `POST /pods`: the guard, the body, the review, the write, with
administration and registration at any moment. `seen`, `lasting` and `demands` are
history: what has been there at some time, or all the time, since the request
began. `call.missed` holds the bindings whose role could not be read; only they are
excused. `lasting` holds a binding together with its role. A binding alone would not do:
moved from one granting role to another, it grants the request at every moment, and
yet the request is denied when the first role, the one that was listed, loses its rule
before `GetRole` reads it. The proof of `DeniedWithoutGrant` fails at that step for
bindings alone, and TLC confirms the behaviour with three changes.

### CustomResources (`MCCustomResources`, `ExtensionProofs`)

`crds` and `rows` are the tables, `post` a POST between the lookup of its CRD and
the write, `purges` the DELETEs of a CRD between their two statements, `op` the pass
of the operator's Manager, which first asks for the CRD by name and then for the
resources at its path. `Resolves` is the lookup by plural, any row of several. The
DELETE of a resource is one step, although the Authorizer is asked between its lookup
and its statement.

### Federation (`MCFederation`, `ExtensionProofs`)

`clusters` and `fd` are rows, `apply` an `UpsertFederatedDeployment` between its
statements, `pass` the pass of each controller instance: list, probe and write the
status of one cluster after the other, list the FederatedDeployment, push to the
targets that answered the probe, write the counts. `health` says how a member
behaves: up, down, refusing the POST, or hanging on it (the client that pushes has
no timeout, the one that probes has). `deployed` is what the members hold.

### How they fit together

A deposed leader's controllers go on to the end of their pass (LeaderElection), so
two instances of a controller can be at work at once, which is why
ReplicaSetControl, ServiceRouting and Federation take a set of `Controllers`.
PodLifecycle implements ServingPods, on which ServiceRouting builds: a pod a running
kubelet reported is served at the published port, and a restart of the kubelet ends
this. So what is proved of ServiceRouting assumes of pods only what is proved of
PodLifecycle. PolicyRouting contains ServiceRouting, and PodRequests contains
AccessControl and Admission. ReplicaSetControl takes kubelets as `PodRuns` and
`PodFails`; Autoscaling takes the ReplicaSet controller as `ReplicaSetReports`;
ServiceRouting takes addresses as given, ClusterIPs allocates them.

## 3. Runs

| Run | Instance | Shows |
|---|---|---|
| `lease` | 2 replicas, TTLs of 0.5 s and 1.5 s stored as 0 and 1 s, clock to 1.5 s, crashes, restarts and hanging calls, fair | at most one leader within its stored TTL; no controller generation without a cancel function; a deposed leader's controllers stop; an expired lease is taken; `LeaderElection` implements `Lease` |
| `pods` | 2 names, 2 ports, a kubelet restart, fair | Running pods are served where they say; `PodLifecycle` implements `ServingPods`; statuses only move forward, of re-created pods too; every pod settles |
| `rs_one_controller` | 0 to 2 replicas, 3 names, a disturbance, fair | count and status converge for good |
| `rs_two_controllers` | 2 instances, 1 or 2 replicas, a disturbance | two instances together never delete a pod that is needed and overshoot at most twofold |
| `routing_policies` | 1 Service, 2 pods, one of them selected, one policy of two rules that comes or goes, a disturbance, fair | the pod dialled while it is Running is the one reached, and selected; in the end exactly the allowed connections are accepted |
| `routing_liveness` | 1 Service, 2 controllers, 2 pods on one port that changes hands, 2 disturbances, a kubelet restart, fair | the pod dialled while it is Running is the one reached; misrouted connections come to an end; listeners follow the Services and backends the pods; endpoints become live |
| `autoscaling` | 1 autoscaler, bounds 0 (that is, 1) to 2, 3 replicas applied, loads 25 and 100 at target 50, 2 disturbances, fair | what is written is within the bounds listed and never zero; the cooldown is kept while its record is not lost; the count ends within the bounds; the ReplicaSet follows |
| `autoscaling_lost_update` (violation) | 2 templates | the autoscaler overwrites more than the replica count |
| `cluster_ips` | 2 Services whose names differ in case, 2 replicas, 2 clients, a pool of 3 of which a search tries 2, 4 requests, fair | addresses are distinct unless allocations overlapped, a list failed or a user chose one; each is the next free one; a failed search is followed by one that finds; a Service keeps its address; DNS follows |
| `federation` | 2 controllers, 2 members, 2 templates, 2 disturbances, fair | no status claims more clusters in sync than it counts; the template reaches every selected cluster that takes it; counts and Ready become true |
| `pod_requests` | 1 user, 2 roles, 2 bindings, 3 of 4 webhooks, 2 changes | decisions rest on grants held during the request; admitted pods meet the demands of the webhooks, with one sidecar and no more |
| `custom_resources` | 2 CRDs, 3 definitions (two share the plural), 2 resources, 4 changes, fair | no orphans, no losses, conformance, the operator sees everything |

Every property of a passing run is broken by the mutant `PROJECT.json` names for
it. The violation is a disagreement between the code and its comment; `findings`
quotes both sides.

### Known limits of the code

What the models allow and the properties therefore except, or are silent about:

- A deposed leader reconciles beside the new one until its next successful attempt
  and to the end of its pass (`apiserver/main.go:184`), although the comment at
  76-78 calls the other replica hot-standby.
- `UpsertReplicaSet` and `UpsertHPA` write back a status read earlier
  (`store.go:333`, `store.go:1114`): one written in between is lost until the next
  pass, and a lost `LastScaleTime` defeats the cooldown once, which is why
  `CooldownKept` carries `~statusLost`.
- The Deployment controller compares replica counts only (`deployment.go:98`): a new
  template waits for a change of the count.
- `DeleteService` ignores the error of its second statement (`store.go:602`).
- A freed port given to another pod sends a Service's connections there until the
  address has followed the pod through endpoints and backends: `RunningPodIsReached`
  says nothing of a pod that is not Running at the port dialled, and `MisroutingEnds`
  that this comes to an end.
- After a kubelet restart the pods it had reported stay Running and their endpoints
  dead (`kubelet/main.go:24`), or their port is another pod's: the exception of
  `RunningPodIsReached`, `MisroutingEnds` and `EndpointsBecomeLive`. Policies then judge
  callers by whichever pod with that port is listed first (`netpol.go:123`), for which
  reason `routing_policies` has no restart.
- A listener is kept for a Service created again with another cluster IP
  (`kube-proxy/main.go:109`).
- Two overlapping allocations may give one address (`apiserver/main.go:507`), and a
  search may miss the last free addresses once (`:41`).
- A member that hangs on a push holds up the whole federation pass
  (`federation.go:98`): the hypothesis of the three properties of Federation. Such a loop,
  and that of an autoscaler whose metrics never arrive, outlives its leader's term.
- A Service with a capital letter or a dot in its name is not answered by DNS
  (`coredns-mini/main.go:66`).
- A POST under a CRD that is being deleted leaves an orphan, a CRD registered again
  during its deletion loses resources, and of two CRDs with one plural one may be
  unreachable (`apiserver/main.go:976`, `store.go:772`, `store.go:727`).

### Bounds and why they are enough

The interesting cases need two of something: two replicas for a takeover, two
pods for a port to change hands, two controllers for a double create; the runs
have them, and every order of their steps. Disturbances (what users, kubelets and
the load do) are bounded by one to four: one to bring the system out of balance or
to overtake a pass, two where a pod has to go and another to take its port, more
where a row has to be made first. Internal
steps are not bounded, so every sequence of failures and retries is covered. The
clock of LeaderElection stops at `MaxClock`, after both replicas can have taken
the lease from each other; in Autoscaling ages stop at the cooldown, after which
the code does not tell them apart. A Failed pod is never removed, so
ReplicaSetControl needs a name more than replicas for each that can fail. In
ClusterIPs the pool is larger than a search and at most twice as long, as 254 is to
250 (`TriesAssumption`); four requests fill it, free it and restart a replica.
PodRequests takes one request at a time, since requests share nothing but the tables,
and two changes are enough for a grant to move from one binding to another, or a
webhook to be replaced, under a request. Four changes register, fill, delete and
register a CRD again.
Deadlock is checked except in ReplicaSetControl, which rests when the ReplicaSet is
gone. All safety results are also proved, for every value of these bounds.

### Fairness

The poll loops (`Run` with a ticker, `for { ...; time.Sleep }`) go on for ever and
each call of a pass returns: weak fairness of each step, or of "succeeds or fails"
where it can fail (in ServiceRouting and PolicyRouting, of a loop's next step, whichever
it is). Failures are transient: a call that is made on every pass does
not fail every time, which is strong fairness of the succeeding step (of two Service
controllers, of either's). That
assumption leaves out a webhook that rejects every Deployment and a database that
never recovers. A call to a member that hangs is not fair, since nothing makes it
return: in Federation such a member is excluded by hypothesis, in LeaderElection a pass
ends or hangs. A
cancelled controller eventually takes the `stop` case, since Go's `select` chooses
among ready cases at random. PodRequests assumes no fairness. Nothing is assumed of users, crashes,
kubelet restarts or the load, nor, in ServiceRouting, that a pod is started or its
listener closed.

### Assumptions and abstractions

- One node, the stub runtime. Docker pods have no PodIP and never become
  endpoints.
- An HTTP call takes effect before its caller goes on, or not at all; it is not
  duplicated (the client does not retry).
- One clock: all processes run on one host.
- A POST carries no status, as `mkctl` sends it.
- Lists are sets except where their order decides something (the victims of a
  scale-down).
- A Service has one port and keeps its selector, a pod keeps its labels; a bind
  fails only when the address is taken; one connection at a time; round-robin is
  an arbitrary choice; in ServiceRouting alone a NetworkPolicy denial is a
  disconnect.
- NetworkPolicies are of one namespace, as the evaluator ignores namespaces; labels are
  sets; a pod has one container port.
- A role is named by kind and name together; a missing role is one without rules.
- One FederatedDeployment; a cluster keeps its server address.
- The conversion of the CPU average to an integer affects the reported status
  only and is left out.

## 4. Proofs

The modules `*Proofs` hold for every value of the constants allowed by the named
ASSUMEs, which TLC evaluates on every run. They are typings of the constants, and:
names like `NoPod` are no pods; `TriesAssumption`, a search is at least half as long as
the pool (250 of 254); `FiniteAssumption`, there are finitely many controllers and pods
(ReplicaSetControl counts them); `BindingRowsAssumption`, the subjects of a binding are
users or groups and its role is one; `RegistrationsAssumption` and
`InitialHooksAssumption`, webhooks have the fields of the API's type and no two share a
name at the start; `DefinitionsAssumption`, `RequestsAssumption`, `PodsAssumption` and
`TemplatesAssumption`, there is at least one of each; in Federation there are finitely many
members and at least one template and list of targets. `ExtensionProofs` extends both
CustomResources and Federation, which share no state; that is why the specification of
Federation is called `FedSpec`.

- **AtMostOneFreshLeader** is not inductive: nothing in it says that the `now` a
  holder is about to write is newer than the one in the row. `LeaseInv` adds
  `TimesInPast` (no stored or pending time is in the future),
  `HolderAttemptIsNewer` (an attempt in progress by the holder started after its
  last renewal) and `LeaderHadLease` (a replica that renewed within its TTL is the
  holder with that renew time). `RenewMonotone` and `NoOrphans` follow from the
  same invariant or a smaller one.
- **RunningPodIsServed** needs to know what the kubelet is about to report.
  `ServedInv` adds `PatchIsTrue` (a pending Running report names the port of the
  listener), `RunningWasSeen` (what became Running since the list is not reaped by
  it), `ListenersDistinct` and `WrittenInPast`. `PortsDistinct` is a consequence;
  `PhaseForward` needs `ListedPhaseIsCurrent` on top: a pod that was listed and not
  deleted in the lister's hands has not moved since, because only the lister moves it.
- **RunningPodIsReached** (`RunningReached`), for any ports and reused ones: `RoutingInv`.
  `PodsServed`: a pod that is Running, and not stranded, listens at its port, and no two
  pods listen at one; `CopiesSelected`: endpoints and backends name selected pods only;
  `DialsSelected`: so does the connection being dialled. Whoever listens at the port of a
  Running pod is then that pod.
- **LeaseRefinement**: `Spec => ImplementsLease`. With `LeaseInv` every step of
  LeaderElection is a step of Lease under the mapping or leaves its variables alone:
  `Acquire` is a `Grant`, since `MayTake` lets a stranger in only after the stored TTL
  and `RenewNeverGoesBack` keeps the end of a grant from moving back; losing or
  crashing is a `GiveUp`.
- **ServingRefinement**: `Spec => ImplementsServing`. Every step of PodLifecycle is a step of
  ServingPods or a stutter under the mapping. `ServedInv` is about the running kubelet only;
  what remains is that the rest cannot get in the way. `NotRunningYet`: a pod the kubelet is
  about to start or report is not Running, so a listener is opened and a report made only
  for a pod that is not published. `OldRunningUnserved`: a pod that an earlier kubelet
  reported Running has no listener, so that what `Reap` closes is never that of a published
  pod, however old its list.
- **PoliciesOnlyDeny**: `PolicySpec => Spec`. Each step of PolicyRouting is a step of
  ServiceRouting or a stutter there (`PolicyStep`), so every safety property of the
  proxy without policies holds with them: `RunningReachedUnderPolicies` is
  `RunningPodIsReached` again, from `RunningReached`.
- **VictimsAreNewestExtras** and **OvershootBounded**, for any number of controllers
  (`OnlyExtrasDeleted`, `OvershootBound`): `RSInv`. `OlderIsOrder` (created_at orders the
  pods there are), `InsertingOwned` (a pod between its time stamp and its row belongs to
  one instance), `ActingOnly` and `DesiredCurrent` (undisturbed, every pass works for the
  present spec.replicas) carry the two that matter: `VictimsHaveElders`, which says of
  everything still to be deleted, by anybody, that spec.replicas alive pods are older -
  deleting another victim keeps it, as that one is younger than enough of them; and
  `CreatesFit`: the pods alive and the creates still pending, of all instances together,
  fit the bound, though each instance counted only what it saw.
- **CooldownKept**, for a single autoscaler (`CooldownRespected`): `CooldownInv`.
  `ListedIsRecent` and `StoredIsRecent`: the `LastScaleTime` a pass has listed, and the one
  in the table unless a report is pending, are not before the last scaling;
  `DownAfterCooldown`: a POST that lowers the count was decided after the cooldown as
  listed; `NothingScaled`: without an HPA row nothing was scaled, so the first apply may
  start with an empty status. With two autoscalers it fails, as each reports on its own.
- **ScalesWithinBounds** (`BoundsKept`), for any number of autoscalers: `BoundsInv`.
  `RowsOrdered`: the bounds in the table, and those an apply is about to write, are in order,
  which the handler checks after it has replaced a missing minimum; `Bounded`: so are the
  ones a pass has listed, its minimum is positive, and a POST in progress is within them and
  belongs to the pass that waits for it. `DesiredWithin` is the clamp.
- **AllocIsNextFree** (`AllocCorrect`): `TriedIs` shows by induction what the loop of
  `alloc` makes of the cursor after each round, for every modulus, through the wrap at 256
  and the reset to 2: it walks around the pool. `SearchIs` then gives the first free
  address. **RetryFindsFree** (`RetryCovers`) adds `RefusalsBehind`: what a failed search
  went over lies behind the cursor, and `AroundCovers`: two searches cover the pool.
- **DistinctUnlessRaced** (`AddressesDistinct`) needs `FreshAddresses`: unless allocations
  raced, at most one POST may yet create a Service with an address of its own, and that
  address, or every address it may still choose, is unused. **AddressStable**
  (`AddressKept`) needs `UpdatingKeeps`: the address an UPDATE is about to write is the
  one in the row.
- **AllowedByGrant** and **DeniedWithoutGrant** (`GrantNeeded`, `GrantHonoured`):
  `AccessInv`. `TodoBound`: a role is looked at on behalf of a binding that was there and
  about this request; `PresentIsSeen`; `LastingAhead`: a lasting grant holds now and has not
  been passed over - it is still to be looked at, its scope still to be listed, or its role
  was missed. `SubjectsAgree` and
  `RulesAgree` relate the matching functions of the code to the ones the properties use.
- **AdmittedMeetsDemands** (`DemandsMet`): `AdmissionInv`. `DemandsAhead`: every demanded
  webhook is still to be called or satisfied, and a validating one that is satisfied has no
  mutating one after it; `PodGrown`: the pod under review is the one given, or that with a
  single sidecar added. `PatchedGrows` says no patch undoes an earlier one, `GrownSidecars`
  that any sidecar is then the right number of them, `RemoveAtIs` what deleting a row does.
- **NoOrphans**, **CreatedStays**, **ConformsToSchema** (`NothingOrphaned`, `NothingLost`,
  `StoredConforms`): `CRInv`. `PostKnown` and `PostCurrent`: a POST in progress writes under
  a CRD, and with a schema, that are there still, but for the races the properties except;
  `PurgedGone` and `AckedRegistered`: while a deletion goes on there is no CRD, and nothing
  of it that counts as created.
- **ReadyWithinClusters** (`FedReadyBounded`): `FedInv`. `PassSound`: a pass that pushes has
  counted each of its targets at most once, for what it has counted and what is left to
  push to are together no more than the targets; a probe in progress is of a member still
  to be done. `ApplySound`: a status that will be written back was a sound one. Both counts
  a pass writes come from the one list of its beginning, which is what makes it true.
- **Types**: `TypeCorrect` of every model, `FedTypeCorrect`, and `PolicyTypeCorrect`, which
  takes the part of ServiceRouting from `PoliciesOnlyDeny`. Some say more than types: that
  `Desired` is a natural number for every load and bound, that a webhook's name stays
  unique, that no count of a FederatedDeployment exceeds the number of members.

The type invariants, but for that of PodRequests, `RenewNeverGoesBack` and
`PublishedPortsDistinct` are left to the proofs; the runs do not repeat them.

Only model-checked: all liveness properties, since fairness and ENABLED are beyond the
proof system. Induction over data is possible only in the form for sets (`ClusterIPsProofs!Induction`),
which was enough for the one loop whose result matters.

## 5. Not modelled, and what could be added

- `mkctl` formats requests and prints tables; its requests are the user actions of
  the models.
- `internal/client` is request plumbing; its failures are the failing calls. Its
  load-balancing client picks an endpoint in turn and keeps no other state. Of it only
  `ListCustomResources`, which is two requests, is modelled.
- `mk-sidecar` copies bytes over mTLS and keeps certificates in files: I/O.
- The nodes API stores what no daemon reads.
- The docker runtime of the kubelet, and the sample arrays of metrics-server, which the
  autoscaler sees as an average or none.
- Admission of Deployments goes through the same `Review`; only pods are modelled.
- Garbage: Failed pods, pods of a deleted ReplicaSet, Deployments in members that are no
  longer selected stay, and no code or doc promises otherwise.

What could be added: of ClusterIPs, that a name in the cache was once the address of
that Service; several FederatedDeployments in one pass; and an abstract Service whose
routes are a set of served pods, for ServiceRouting to implement up to the staleness its
liveness properties bound.
