---------------------------- MODULE PolicyRouting ----------------------------
(***************************************************************************)
(* NetworkPolicy on the way from a Service to its pods: the policies table *)
(* with its API, the caches of policies and pods that mk-kube-proxy        *)
(* refreshes at the beginning of a sync, and the verdict between accepting *)
(* a connection and dialling its backend.  ServiceRouting is the system    *)
(* without it.                                                             *)
(*                                                                         *)
(* The proxy knows a caller by its source port only: the cached pod with   *)
(* that host port, if any.  It judges with lists of policies and of pods   *)
(* taken at different times, and a backend from a third.                   *)
(***************************************************************************)
EXTENDS ServiceRouting

CONSTANTS
    Policies,         \* names
    PolicySpecs,      \* [podSelector, ingress]: a set of [from, ports] rules
    NoPolicy,
    ContainerPort,    \* of each pod's first container
    MaxPolicyChanges  \* bound on writes of policies

ASSUME NoPolicyAssumption == NoPolicy \notin PolicySpecs
ASSUME MaxPolicyChangesAssumption == MaxPolicyChanges \in Nat

VARIABLES
    policies,      \* the table
    known,         \* the proxy's caches: policies, and pods with their ports
    refresh,       \* where the sync is with refreshing them
    verdict,       \* of the connection: source port, and whether it may dial
    policyChanges

xvars == <<policies, known, refresh, verdict, policyChanges>>

NoVerdict == [source |-> NoPort, allowed |-> FALSE]

PolicyTypeOK ==
    /\ TypeOK
    /\ policies \in [Policies -> PolicySpecs \cup {NoPolicy}]
    /\ known \in [policies : [Policies -> PolicySpecs \cup {NoPolicy}],
                  pods : [Pods -> Ports \cup {NoPort}]]
    /\ refresh \in {"policies", "pods", "done"}
    /\ verdict \in [source : Ports \cup {NoPort}, allowed : BOOLEAN]
    /\ policyChanges \in 0 .. MaxPolicyChanges

PolicyInit ==
    /\ Init
    /\ policies \in [Policies -> PolicySpecs \cup {NoPolicy}]
    /\ known = [policies |-> [n \in Policies |-> NoPolicy], pods |-> [p \in Pods |-> NoPort]]
    /\ refresh = "done"
    /\ verdict = NoVerdict
    /\ policyChanges = 0

-----------------------------------------------------------------------------
(* The evaluator. *)

\* LabelsMatch: an empty selector matches everything.
LabelsMatch(selector, labels) == selector \subseteq labels

PeerAllows(from, labels) == from = {} \/ \E peer \in from : LabelsMatch(peer, labels)

PortAllows(ports, port) == ports = {} \/ port \in ports

\* Evaluate, for a destination that was found.
Evaluate(pols, srcLabels, dst) ==
    LET selecting == {n \in Policies : /\ pols[n] # NoPolicy
                                       /\ LabelsMatch(pols[n].podSelector, Labels[dst])}
    IN \/ selecting = {}
       \/ \E n \in selecting : \E rule \in pols[n].ingress :
            /\ PeerAllows(rule.from, srcLabels)
            /\ PortAllows(rule.ports, ContainerPort[dst])

\* PodByHostPort: the first pod of the list with that host port gives the labels,
\* whichever it is; without one there are none.
SourceLabels(list, port) ==
    LET there == {p \in Pods : port # NoPort /\ list[p] = port}
    IN IF there = {} THEN {{}} ELSE {Labels[p] : p \in there}

-----------------------------------------------------------------------------
(* The policies API. *)

ChangePolicy ==
    /\ policyChanges < MaxPolicyChanges
    /\ policyChanges' = policyChanges + 1
    /\ UNCHANGED <<vars, known, refresh, verdict>>

UpsertNetworkPolicy(n, spec) ==
    /\ ChangePolicy
    /\ policies[n] # spec
    /\ policies' = [policies EXCEPT ![n] = spec]

DeleteNetworkPolicy(n) ==
    /\ ChangePolicy
    /\ policies[n] # NoPolicy
    /\ policies' = [policies EXCEPT ![n] = NoPolicy]

-----------------------------------------------------------------------------
(* mk-kube-proxy *)

\* Mutant: the caches are those of the start of the proxy.
BeginSync_NoRefresh ==
    /\ SyncList
    /\ UNCHANGED xvars

\* sync: the Services, then the policies, then the pods, then each Service.
BeginSync ==
    /\ SyncList
    /\ refresh' = "policies"
    /\ UNCHANGED <<policies, known, verdict, policyChanges>>

RefreshPolicies ==
    /\ refresh = "policies"
    /\ refresh' = "pods"
    /\ known' = [known EXCEPT !.policies = policies]
    /\ UNCHANGED <<vars, policies, verdict, policyChanges>>

RefreshPods ==
    /\ refresh = "pods"
    /\ refresh' = "done"
    /\ known' = [known EXCEPT !.pods = pods]
    /\ UNCHANGED <<vars, policies, verdict, policyChanges>>

\* A list fails: the cache stays as it is.
RefreshFails ==
    /\ refresh # "done"
    /\ refresh' = IF refresh = "policies" THEN "pods" ELSE "done"
    /\ UNCHANGED <<vars, policies, known, verdict, policyChanges>>

RestOfSync ==
    /\ refresh = "done"
    /\ SyncRemove \/ \E s \in Svcs : SyncService(s) \/ SyncServiceFails(s)
    /\ UNCHANGED xvars

\* handle: a backend is chosen for a caller with some source port ...
AcceptFrom(s, source) ==
    /\ Accept(s)
    /\ verdict' = [source |-> source, allowed |-> FALSE]
    /\ UNCHANGED <<policies, known, refresh, policyChanges>>

Judging == conn.svc # NoSvc /\ ~verdict.allowed /\ conn.reached = NoPod

\* The decisions the cached lists can lead to.
Decisions ==
    {Evaluate(known.policies, labels, conn.pod) : labels \in SourceLabels(known.pods, verdict.source)}

\* ... judged, after which the source is of no interest any more ...
Judge ==
    /\ Judging
    /\ TRUE \in Decisions
    /\ verdict' = [NoVerdict EXCEPT !.allowed = TRUE]
    /\ UNCHANGED <<vars, policies, known, refresh, policyChanges>>

\* ... and closed when it is denied.  findPodByName: a pod that is not in the
\* cache is denied; a pod that has no port there may also be in it, as one that
\* was created again and does not run yet.
Deny ==
    /\ Judging
    /\ FALSE \in Decisions \/ known.pods[conn.pod] = NoPort
    /\ Disconnect
    /\ verdict' = NoVerdict
    /\ UNCHANGED <<policies, known, refresh, policyChanges>>

\* An allowed connection is dialled; a connection that stands is not judged again.
DialAllowed ==
    /\ verdict.allowed
    /\ \E r \in Pods : Dial(r)
    /\ UNCHANGED xvars

Close ==
    /\ verdict.allowed
    /\ Disconnect
    /\ verdict' = NoVerdict
    /\ UNCHANGED <<policies, known, refresh, policyChanges>>

-----------------------------------------------------------------------------
\* What policies have no part in.
Others ==
    /\ \/ \E p \in Pods : ListenerOpens(p) \/ PodRuns(p) \/ PodDeleted(p)
       \/ ListenersClose \/ KubeletRestart
       \/ \E s \in Svcs :
            \/ CreateService(s) \/ DeleteServiceRow(s)
            \/ DeleteEndpointsRow(s) \/ DeleteEndpointsFails(s)
            \/ \E c \in Controllers : UpsertEndpoints(c, s) \/ UpsertEndpointsFails(c, s)
       \/ \E c \in Controllers :
            ListServices(c) \/ ListPods(c) \/ ListPodsFails(c) \/ EndPass(c)
    /\ UNCHANGED xvars

PolicyNext ==
    \/ \E n \in Policies :
        (\E spec \in PolicySpecs : UpsertNetworkPolicy(n, spec)) \/ DeleteNetworkPolicy(n)
    \/ BeginSync \/ RefreshPolicies \/ RefreshPods \/ RefreshFails \/ RestOfSync
    \/ \E s \in Svcs, source \in Ports \cup {NoPort} : AcceptFrom(s, source)
    \/ Judge \/ Deny \/ DialAllowed \/ Close
    \/ Others

PolicySpec == PolicyInit /\ [][PolicyNext]_<<vars, xvars>>

\* As in ServiceRouting; and a list that is tried on every sync does not fail
\* every time.
PolicyFairness ==
    /\ ControllerFairness
    /\ \A s \in Svcs : SF_vars(SyncService(s))
    /\ WF_<<vars, xvars>>(\/ BeginSync \/ RefreshPolicies \/ RefreshPods \/ RefreshFails
                          \/ RestOfSync)
    /\ SF_<<vars, xvars>>(RefreshPolicies) /\ SF_<<vars, xvars>>(RefreshPods)

PolicyFairSpec == PolicySpec /\ PolicyFairness

-----------------------------------------------------------------------------
\* "If none — allow. ... If at least one rule matches, allow.  Otherwise deny."
Rightful(source, dst) ==
    LET on == {policies[n] : n \in Policies} \ {NoPolicy}
        selecting == {pol \in on : \A l \in pol.podSelector : l \in Labels[dst]}
        rules == UNION {pol.ingress : pol \in selecting}
    IN selecting # {} =>
        \E rule \in rules :
            /\ rule.ports # {} => ContainerPort[dst] \in rule.ports
            /\ rule.from # {} =>
                \E peer \in rule.from :
                    \/ peer = {}
                    \/ \E p \in Pods : pods[p] = source /\ source # NoPort /\ peer \subseteq Labels[p]

(***************************************************************************)
(* Policies take effect: when policies, pods and Services have settled, a  *)
(* connection is accepted exactly if the policies in the table allow it    *)
(* for the pod behind its source port and the pod it is routed to, however *)
(* often the lists of the proxy fail and however old they were before.     *)
(***************************************************************************)
PoliciesTakeEffect ==
    <>[][ /\ Judging /\ verdict'.allowed => Rightful(verdict.source, conn.pod)
          /\ Judging /\ conn'.svc = NoSvc => ~Rightful(verdict.source, conn.pod)
        ]_<<conn, verdict>>

==============================================================================
