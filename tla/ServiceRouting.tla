--------------------------- MODULE ServiceRouting ---------------------------
(***************************************************************************)
(* From a Service to its pods: the services and endpoints tables, the      *)
(* Service controller that writes Endpoints, and mk-kube-proxy with its    *)
(* listeners and connections.                                              *)
(*                                                                         *)
(* An address travels a long way before a connection uses it: a pod's      *)
(* status, the controller's list of pods, the endpoints row, the proxy's   *)
(* backends, a dial.  Each hop is a copy taken at another time, and pods   *)
(* and Services come and go meanwhile.                                     *)
(*                                                                         *)
(* A Service has one port, and an IP stands for its ClusterIP:port.  Pods  *)
(* do what ServingPods allows, which PodLifecycle implements.  Changes made*)
(* by users and by the kubelet are disturbances, and their number is       *)
(* bounded.                                                                *)
(***************************************************************************)
EXTENDS Naturals

CONSTANTS
    Svcs, NoSvc,     \* Service names
    Pods, NoPod,
    Ports, NoPort,   \* bound: TCP ports the stub runtime can get
    IPs, NoIP,       \* ClusterIP:port addresses
    AddrsOf,         \* the addresses each Service can be given: one of its own
                     \* by default, any with -cluster-ip-loopback-cidr
    Labels,          \* labels of each pod
    Selector,        \* spec.selector of each Service
    Controllers,     \* instances of the Service controller
    MaxDisturbances, \* bound on creates, starts and deletes
    MaxRestarts      \* bound on kubelet restarts

ASSUME NoSvcAssumption == NoSvc \notin Svcs
ASSUME NoPodAssumption == NoPod \notin Pods
ASSUME NoPortAssumption == NoPort \notin Ports
ASSUME NoIPAssumption == NoIP \notin IPs
ASSUME AddrsOfAssumption == AddrsOf \in [Svcs -> SUBSET IPs]
ASSUME BoundsAssumption == MaxDisturbances \in Nat /\ MaxRestarts \in Nat

VARIABLES
    services,     \* cluster IP of each Service row, or NoIP
    endpoints,    \* addresses in each endpoints row; none is like no row
    deleting,     \* DeleteService between its two statements
    pods,         \* host port of each Running pod, or NoPort
    listening,    \* port of each pod's listener, or NoPort
    stranded,     \* history: pods Running since before the kubelet restarted
    ctl,          \* per controller: the pass in progress
    proxy,        \* the sync of the proxy in progress
    entries,      \* the proxy's listeners: bound address, backends
    conn,         \* a connection through the proxy
    disturbances, restarts

pvars == <<pods, listening, stranded>>
vars == <<services, endpoints, deleting, pvars, ctl, proxy, entries, conn,
          disturbances, restarts>>

\* What an EndpointAddress names: a pod and its port.
Addr == Pods \X Ports

NoEntry == [ip |-> NoIP, backends |-> {}]
NoConn == [svc |-> NoSvc, pod |-> NoPod, port |-> NoPort, reached |-> NoPod]
Resting == [at |-> "idle", svcs |-> {}, running |-> {}]
NoSync == [syncing |-> FALSE, ips |-> [s \in Svcs |-> NoIP], todo |-> {}]

TypeOK ==
    /\ services \in [Svcs -> IPs \cup {NoIP}]
    /\ endpoints \in [Svcs -> SUBSET Addr]
    /\ deleting \in SUBSET Svcs
    /\ pods \in [Pods -> Ports \cup {NoPort}]
    /\ listening \in [Pods -> Ports \cup {NoPort}]
    /\ stranded \in SUBSET Pods
    /\ ctl \in [Controllers -> [at : {"idle", "listing", "writing"},
                                svcs : SUBSET Svcs, running : SUBSET Addr]]
    /\ proxy \in [syncing : BOOLEAN, ips : [Svcs -> IPs \cup {NoIP}], todo : SUBSET Svcs]
    /\ entries \in [Svcs -> [ip : IPs \cup {NoIP}, backends : SUBSET Addr]]
    /\ conn \in [svc : Svcs \cup {NoSvc}, pod : Pods \cup {NoPod},
                 port : Ports \cup {NoPort}, reached : Pods \cup {NoPod}]
    /\ disturbances \in 0 .. MaxDisturbances
    /\ restarts \in 0 .. MaxRestarts

\* The controllers and the proxy start in a cluster that may have Services and
\* pods that run.
Init ==
    /\ services \in [Svcs -> IPs \cup {NoIP}]
    /\ \A s \in Svcs : services[s] \in AddrsOf[s] \cup {NoIP}
    /\ \A s, r \in Svcs : services[s] = services[r] => s = r \/ services[s] = NoIP
    /\ endpoints = [s \in Svcs |-> {}]
    /\ deleting = {}
    /\ pods \in [Pods -> Ports \cup {NoPort}]
    /\ \A p, r \in Pods : pods[p] = pods[r] => p = r \/ pods[p] = NoPort
    /\ listening = pods
    /\ stranded = {}
    /\ ctl = [c \in Controllers |-> Resting]
    /\ proxy = NoSync
    /\ entries = [s \in Svcs |-> NoEntry]
    /\ conn = NoConn
    /\ disturbances = 0
    /\ restarts = 0

-----------------------------------------------------------------------------
(* Pods, as the kubelet reports and serves them. *)

Serving == INSTANCE ServingPods

Disturb ==
    /\ disturbances < MaxDisturbances
    /\ disturbances' = disturbances + 1

\* The kubelet opens a listener for a pod it is starting: 127.0.0.1:0, any port
\* that nobody listens at, one that another pod had before included.
ListenerOpens(p) ==
    /\ Disturb
    /\ \E q \in Ports : Serving!Listen(p, q)
    /\ UNCHANGED <<services, endpoints, deleting, stranded, ctl, proxy, entries, conn, restarts>>

\* The pod is reported Running, at the port of the listener the kubelet has for
\* its name.
PodRuns(p) ==
    /\ Serving!Report(p)
    /\ UNCHANGED <<services, endpoints, deleting, stranded, ctl, proxy, entries, conn,
                   disturbances, restarts>>

\* The pod is deleted; its listener is not closed yet.
PodDeleted(p) ==
    /\ Disturb
    /\ Serving!Withdraw(p)
    /\ stranded' = stranded \ {p}
    /\ UNCHANGED <<services, endpoints, deleting, ctl, proxy, entries, conn, restarts>>

\* The kubelet closes listeners of pods that are gone.
ListenersClose ==
    /\ \E S \in SUBSET {p \in Pods : listening[p] # NoPort} :
        S # {} /\ Serving!CloseListeners(S)
    /\ UNCHANGED <<services, endpoints, deleting, stranded, ctl, proxy, entries, conn,
                   disturbances, restarts>>

\* The kubelet process restarts: its listeners die, the pods stay Running.
KubeletRestart ==
    /\ restarts < MaxRestarts
    /\ restarts' = restarts + 1
    /\ Serving!Restart
    /\ stranded' = {p \in Pods : pods[p] # NoPort}
    /\ UNCHANGED <<services, endpoints, deleting, ctl, proxy, entries, conn,
                   disturbances>>

-----------------------------------------------------------------------------
(* The Services API. *)

\* POST /services of a new Service: it gets a cluster IP and a row.  A POST of
\* an existing one keeps both.
CreateService(s) ==
    /\ Disturb
    /\ services[s] = NoIP
    /\ \E ip \in AddrsOf[s] :
        /\ \A r \in Svcs : services[r] # ip
        /\ services' = [services EXCEPT ![s] = ip]
    /\ UNCHANGED <<endpoints, deleting, pvars, ctl, proxy, entries, conn, restarts>>

\* DeleteService, first statement.
DeleteServiceRow(s) ==
    /\ Disturb
    /\ services[s] # NoIP
    /\ s \notin deleting
    /\ services' = [services EXCEPT ![s] = NoIP]
    /\ deleting' = deleting \cup {s}
    /\ UNCHANGED <<endpoints, pvars, ctl, proxy, entries, conn, restarts>>

\* The second statement.
DeleteEndpointsRow(s) ==
    /\ s \in deleting
    /\ deleting' = deleting \ {s}
    /\ endpoints' = [endpoints EXCEPT ![s] = {}]
    /\ UNCHANGED <<services, pvars, ctl, proxy, entries, conn, disturbances, restarts>>

\* It fails, or its process dies before it: the error is ignored.
DeleteEndpointsFails(s) ==
    /\ s \in deleting
    /\ deleting' = deleting \ {s}
    /\ UNCHANGED <<services, endpoints, pvars, ctl, proxy, entries, conn, disturbances,
                   restarts>>

-----------------------------------------------------------------------------
(* The Service controller. *)

\* Every key and value of the selector is on the pod; an empty selector selects
\* nothing.
SelectorMatches(s, p) == Selector[s] # {} /\ Selector[s] \subseteq Labels[p]

\* The Running pods with their ports.
Running == {a \in Addr : pods[a[1]] = a[2]}

\* Mutant: the selector is not applied.
Selected_All(s, addrs) == addrs

\* Those of them a Service selects.
Selected(s, addrs) == {a \in addrs : SelectorMatches(s, a[1])}

\* reconcileAll: ListServices ...
ListServices(c) ==
    /\ ctl[c].at = "idle"
    /\ ctl' = [ctl EXCEPT ![c] = [at |-> "listing", running |-> {},
                                  svcs |-> {s \in Svcs : services[s] # NoIP}]]
    /\ UNCHANGED <<services, endpoints, deleting, pvars, proxy, entries, conn,
                   disturbances, restarts>>

\* ... and ListPods.
ListPods(c) ==
    /\ ctl[c].at = "listing"
    /\ ctl' = [ctl EXCEPT ![c].at = "writing", ![c].running = Running]
    /\ UNCHANGED <<services, endpoints, deleting, pvars, proxy, entries, conn,
                   disturbances, restarts>>

\* ListPods fails: the pass is over.
ListPodsFails(c) ==
    /\ ctl[c].at = "listing"
    /\ ctl' = [ctl EXCEPT ![c] = Resting]
    /\ UNCHANGED <<services, endpoints, deleting, pvars, proxy, entries, conn,
                   disturbances, restarts>>

\* Mutant: no endpoints are written for a Service that selects no Running pod.
UpsertEndpoints_SkipsEmpty(c, s) ==
    /\ ctl[c].at = "writing"
    /\ s \in ctl[c].svcs
    /\ endpoints' = IF Selected(s, ctl[c].running) = {} THEN endpoints
                    ELSE [endpoints EXCEPT ![s] = Selected(s, ctl[c].running)]
    /\ ctl' = [ctl EXCEPT ![c].svcs = @ \ {s}]
    /\ UNCHANGED <<services, deleting, pvars, proxy, entries, conn, disturbances, restarts>>

\* reconcileOne: the endpoints row is written, whether or not the Service is
\* still there.
UpsertEndpoints(c, s) ==
    /\ ctl[c].at = "writing"
    /\ s \in ctl[c].svcs
    /\ endpoints' = [endpoints EXCEPT ![s] = Selected(s, ctl[c].running)]
    /\ ctl' = [ctl EXCEPT ![c].svcs = @ \ {s}]
    /\ UNCHANGED <<services, deleting, pvars, proxy, entries, conn, disturbances, restarts>>

\* The write fails: logged, next Service.
UpsertEndpointsFails(c, s) ==
    /\ ctl[c].at = "writing"
    /\ s \in ctl[c].svcs
    /\ ctl' = [ctl EXCEPT ![c].svcs = @ \ {s}]
    /\ UNCHANGED <<services, endpoints, deleting, pvars, proxy, entries, conn,
                   disturbances, restarts>>

\* The pass is over.
EndPass(c) ==
    /\ ctl[c].at = "writing"
    /\ ctl[c].svcs = {}
    /\ ctl' = [ctl EXCEPT ![c] = Resting]
    /\ UNCHANGED <<services, endpoints, deleting, pvars, proxy, entries, conn,
                   disturbances, restarts>>

-----------------------------------------------------------------------------
(* mk-kube-proxy, sync. *)

SyncList ==
    /\ ~proxy.syncing
    /\ proxy' = [syncing |-> TRUE, ips |-> services,
                 todo |-> {s \in Svcs : services[s] # NoIP}]
    /\ UNCHANGED <<services, endpoints, deleting, pvars, ctl, entries, conn,
                   disturbances, restarts>>

\* Mutant: a listener that exists keeps its first backends.
Route_OnlyNew(s, eps) ==
    entries' = IF entries[s].ip = NoIP
               THEN [entries EXCEPT ![s] = [ip |-> proxy.ips[s], backends |-> eps]]
               ELSE entries

\* A listener that exists, at whatever address, gets the backends; a new one is
\* bound to the listed address unless another listener is.
Route(s, eps) ==
    LET bound == entries[s].ip # NoIP
        taken == \E r \in Svcs : entries[r].ip = proxy.ips[s]
    IN entries' = [entries EXCEPT ![s] =
                    IF bound THEN [@ EXCEPT !.backends = eps]
                    ELSE IF taken THEN @
                    ELSE [ip |-> proxy.ips[s], backends |-> eps]]

\* GetEndpoints and the listener of one listed Service.
SyncService(s) ==
    /\ s \in proxy.todo
    /\ Route(s, endpoints[s])
    /\ proxy' = [proxy EXCEPT !.todo = @ \ {s}]
    /\ UNCHANGED <<services, endpoints, deleting, pvars, ctl, conn, disturbances, restarts>>

\* GetEndpoints fails, for whatever reason: treated as empty.
SyncServiceFails(s) ==
    /\ s \in proxy.todo
    /\ Route(s, {})
    /\ proxy' = [proxy EXCEPT !.todo = @ \ {s}]
    /\ UNCHANGED <<services, endpoints, deleting, pvars, ctl, conn, disturbances, restarts>>

\* Listeners of Services that were not listed are closed; the sync is over.
SyncRemove ==
    /\ proxy.syncing
    /\ proxy.todo = {}
    /\ entries' = [s \in Svcs |-> IF proxy.ips[s] = NoIP THEN NoEntry ELSE entries[s]]
    /\ proxy' = NoSync
    /\ UNCHANGED <<services, endpoints, deleting, pvars, ctl, conn, disturbances, restarts>>

-----------------------------------------------------------------------------
(* Connections: acceptLoop and handle. *)

\* A connection is accepted and a backend chosen.
Accept(s) ==
    /\ conn.svc = NoSvc
    /\ entries[s].ip # NoIP
    /\ \E a \in entries[s].backends :
        conn' = [svc |-> s, pod |-> a[1], port |-> a[2], reached |-> NoPod]
    /\ UNCHANGED <<services, endpoints, deleting, pvars, ctl, proxy, entries,
                   disturbances, restarts>>

\* The dial reaches whichever pod listens at the port now; from then on that pod
\* is all there is to the connection.
Dial(r) ==
    /\ conn.svc # NoSvc
    /\ conn.reached = NoPod
    /\ listening[r] = conn.port
    /\ conn' = [NoConn EXCEPT !.svc = conn.svc, !.reached = r]
    /\ UNCHANGED <<services, endpoints, deleting, pvars, ctl, proxy, entries,
                   disturbances, restarts>>

\* The connection ends: copied to its end, refused by the backend, timed out
\* or denied by a NetworkPolicy.
Disconnect ==
    /\ conn.svc # NoSvc
    /\ conn' = NoConn
    /\ UNCHANGED <<services, endpoints, deleting, pvars, ctl, proxy, entries,
                   disturbances, restarts>>

-----------------------------------------------------------------------------
Next ==
    \/ \E p \in Pods : ListenerOpens(p) \/ PodRuns(p) \/ PodDeleted(p) \/ Dial(p)
    \/ ListenersClose \/ KubeletRestart
    \/ \E s \in Svcs :
        \/ CreateService(s) \/ DeleteServiceRow(s)
        \/ DeleteEndpointsRow(s) \/ DeleteEndpointsFails(s)
        \/ SyncService(s) \/ SyncServiceFails(s) \/ Accept(s)
        \/ \E c \in Controllers : UpsertEndpoints(c, s) \/ UpsertEndpointsFails(c, s)
    \/ \E c \in Controllers :
        ListServices(c) \/ ListPods(c) \/ ListPodsFails(c) \/ EndPass(c)
    \/ SyncList \/ SyncRemove \/ Disconnect

Spec == Init /\ [][Next]_vars

\* The Run loop of the controllers goes on for ever, handlers finish, and a call
\* repeated on every pass does not fail every time: not in every instance.
ControllerFairness ==
    /\ SF_vars(\E c \in Controllers : ListPods(c))
    /\ \A s \in Svcs :
        /\ SF_vars(\E c \in Controllers : UpsertEndpoints(c, s))
        /\ WF_vars(DeleteEndpointsRow(s) \/ DeleteEndpointsFails(s))
    /\ \A c \in Controllers :
        WF_vars(\/ ListServices(c) \/ ListPods(c) \/ ListPodsFails(c) \/ EndPass(c)
                \/ \E s \in Svcs : UpsertEndpoints(c, s) \/ UpsertEndpointsFails(c, s))

\* So does the loop of the proxy.
Fairness ==
    /\ ControllerFairness
    /\ WF_vars(\/ SyncList \/ SyncRemove
               \/ \E s \in Svcs : SyncService(s) \/ SyncServiceFails(s))
    /\ \A s \in Svcs : SF_vars(SyncService(s))

FairSpec == Spec /\ Fairness

-----------------------------------------------------------------------------
\* The dial of the connection gets through.
Reaching == conn.reached = NoPod /\ conn'.reached # NoPod

(***************************************************************************)
(* The dial of handle: a pod that is Running at the port of the chosen     *)
(* backend is the pod that is reached, and the Service selects it, however *)
(* often that port changed hands since stubRun got it, and although the    *)
(* address was copied four times on its way.  Only a pod left without a    *)
(* listener by a kubelet restart has no such claim to its port.            *)
(***************************************************************************)
RunningPodIsReached ==
    [][ Reaching /\ pods[conn.pod] = conn.port /\ conn.pod \notin stranded
            => conn'.reached = conn.pod /\ SelectorMatches(conn.svc, conn.pod) ]_vars

(***************************************************************************)
(* Ports of deleted pods are given to new ones, and a connection may then  *)
(* reach a pod that was never meant.  That ends: when pods stop coming and *)
(* going, every connection that gets through reaches the pod it was routed *)
(* to, unless that pod is one a kubelet restart left without a listener.   *)
(***************************************************************************)
MisroutingEnds ==
    <>[][ Reaching => conn'.reached = conn.pod \/ conn.pod \in stranded ]_conn

(***************************************************************************)
(* Traffic follows the pods: whatever happened and however many calls      *)
(* fail, the proxy again and again has a listener for every Service, with  *)
(* the Running pods the Service selects as its backends, and none for a    *)
(* Service that is gone.                                                   *)
(***************************************************************************)
RoutesFollowPods ==
    \A s \in Svcs :
        []<>(IF services[s] = NoIP THEN entries[s].ip = NoIP
             ELSE /\ entries[s].ip # NoIP
                  /\ entries[s].backends = Selected(s, Running))

(***************************************************************************)
(* Endpoints become live: when pods stop coming and going, every address   *)
(* in the endpoints of a Service is one its pod listens at, what the       *)
(* kubelet started after a restart included.  The exception are the pods   *)
(* Running across the restart: they stay Running and listed, with nobody   *)
(* at their ports, or with another pod.                                    *)
(***************************************************************************)
EndpointsBecomeLive ==
    \A s \in Svcs :
        <>[](services[s] # NoIP =>
                \A a \in endpoints[s] :
                    \/ listening[a[1]] = a[2]
                    \/ a[1] \in stranded /\ pods[a[1]] = a[2])

=============================================================================
