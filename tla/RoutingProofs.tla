---------------------------- MODULE RoutingProofs ----------------------------
(***************************************************************************)
(* Proofs about ServiceRouting, for any sets of Services, pods, ports and  *)
(* controller instances and any labels, selectors and bounds; and about    *)
(* PolicyRouting: policies only take connections away, it implements       *)
(* ServiceRouting with the same variables and inherits what is proved of   *)
(* it.                                                                     *)
(***************************************************************************)
EXTENDS PolicyRouting, TLAPS

\* What routing needs of ServingPods: a pod that is Running, and was not when the
\* kubelet last restarted, listens at its port, and nobody else does.
PodsServed ==
    /\ \A p \in Pods : pods[p] # NoPort /\ p \notin stranded => listening[p] = pods[p]
    /\ \A p, r \in Pods : listening[p] = listening[r] => p = r \/ listening[p] = NoPort

\* On the way from the controller's list to the proxy only selected pods are left.
CopiesSelected ==
    /\ \A s \in Svcs : \A a \in endpoints[s] : SelectorMatches(s, a[1])
    /\ \A s \in Svcs : \A a \in entries[s].backends : SelectorMatches(s, a[1])

\* A connection that was accepted dials a selected pod.
DialsSelected ==
    conn.svc # NoSvc /\ conn.reached = NoPod =>
        /\ conn.svc \in Svcs /\ conn.pod \in Pods /\ conn.port \in Ports
        /\ SelectorMatches(conn.svc, conn.pod)

RoutingInv == TypeOK /\ PodsServed /\ CopiesSelected /\ DialsSelected

-----------------------------------------------------------------------------
\* The records of an idle controller, an idle proxy, no listener, no
\* connection.
LEMMA EmptyRecords ==
    /\ Resting \in [at : {"idle", "listing", "writing"}, svcs : SUBSET Svcs,
                    running : SUBSET Addr]
    /\ Resting.running = {}
    /\ NoSync \in [syncing : BOOLEAN, ips : [Svcs -> IPs \cup {NoIP}], todo : SUBSET Svcs]
    /\ NoEntry \in [ip : IPs \cup {NoIP}, backends : SUBSET Addr]
    /\ NoEntry.backends = {}
    /\ NoConn \in [svc : Svcs \cup {NoSvc}, pod : Pods \cup {NoPod},
                   port : Ports \cup {NoPort}, reached : Pods \cup {NoPod}]
    /\ NoConn.svc = NoSvc /\ NoConn.reached = NoPod
BY DEF Resting, NoSync, NoEntry, NoConn

\* Route gives one listener the endpoints it was called with, or leaves it.
LEMMA RouteEffect ==
    ASSUME TypeOK, NEW s \in Svcs, NEW eps \in SUBSET Addr, Route(s, eps)
    PROVE  /\ entries' \in [Svcs -> [ip : IPs \cup {NoIP}, backends : SUBSET Addr]]
           /\ \A r \in Svcs : \/ entries'[r].backends = entries[r].backends
                              \/ r = s /\ entries'[r].backends = eps
<1> DEFINE E == [ip : IPs \cup {NoIP}, backends : SUBSET Addr]
           bound == entries[s].ip # NoIP
           taken == \E r \in Svcs : entries[r].ip = proxy.ips[s]
           new == IF bound THEN [entries[s] EXCEPT !.backends = eps]
                  ELSE IF taken THEN entries[s]
                  ELSE [ip |-> proxy.ips[s], backends |-> eps]
<1>1. entries \in [Svcs -> E] /\ proxy.ips[s] \in IPs \cup {NoIP}
    BY DEF TypeOK
<1>2. entries' = [entries EXCEPT ![s] = new]
    BY <1>1 DEF Route
<1>3. new \in E /\ (new.backends = entries[s].backends \/ new.backends = eps)
    <2> HIDE DEF bound, taken
    <2> QED BY <1>1
<1> HIDE DEF new, E
<1>4. entries' \in [Svcs -> E]
    BY <1>1, <1>2, <1>3
<1>5. \A r \in Svcs : entries'[r] = IF r = s THEN new ELSE entries[r]
    BY <1>1, <1>2
<1> QED BY <1>3, <1>4, <1>5 DEF E

-----------------------------------------------------------------------------
\* Every step keeps the variables in their types.
LEMMA TypeInductive == TypeOK /\ [Next]_vars => TypeOK'
<1> SUFFICES ASSUME TypeOK, [Next]_vars PROVE TypeOK'
    OBVIOUS
<1> USE EmptyRecords, BoundsAssumption
<1>1. ASSUME NEW p \in Pods, ListenerOpens(p) PROVE TypeOK'
    <2>1. PICK q \in Ports : Serving!Listen(p, q)
        BY <1>1 DEF ListenerOpens
    <2>3. disturbances' \in 0 .. MaxDisturbances
        BY <1>1 DEF ListenerOpens, Disturb, TypeOK
    <2> QED BY <1>1, <2>1, <2>3 DEF ListenerOpens, Serving!Listen, TypeOK
<1>2. ASSUME NEW p \in Pods, PodRuns(p) PROVE TypeOK'
    BY <1>2 DEF PodRuns, Serving!Report, TypeOK
<1>3. ASSUME NEW p \in Pods, PodDeleted(p) PROVE TypeOK'
    BY <1>3 DEF PodDeleted, Serving!Withdraw, Disturb, TypeOK
<1>20. ASSUME ListenersClose PROVE TypeOK'
    BY <1>20 DEF ListenersClose, Serving!CloseListeners, TypeOK
<1>4. ASSUME NEW p \in Pods, Dial(p) PROVE TypeOK'
    <2>1. conn' \in [svc : Svcs \cup {NoSvc}, pod : Pods \cup {NoPod},
                     port : Ports \cup {NoPort}, reached : Pods \cup {NoPod}]
        BY <1>4 DEF Dial, TypeOK
    <2> QED BY <1>4, <2>1 DEF Dial, pvars, TypeOK
<1>5. ASSUME KubeletRestart PROVE TypeOK'
    BY <1>5 DEF KubeletRestart, Serving!Restart, TypeOK
<1>6. ASSUME NEW s \in Svcs, CreateService(s) PROVE TypeOK'
    <2>1. PICK ip \in AddrsOf[s] : services' = [services EXCEPT ![s] = ip]
        BY <1>6 DEF CreateService
    <2>2. ip \in IPs
        BY <2>1, AddrsOfAssumption
    <2>3. disturbances' \in 0 .. MaxDisturbances
        BY <1>6 DEF CreateService, Disturb, TypeOK
    <2>4. services' \in [Svcs -> IPs \cup {NoIP}]
        BY <2>1, <2>2 DEF TypeOK
    <2> QED BY <1>6, <2>3, <2>4 DEF CreateService, pvars, TypeOK
<1>7. ASSUME NEW s \in Svcs, DeleteServiceRow(s) PROVE TypeOK'
    BY <1>7 DEF DeleteServiceRow, Disturb, pvars, TypeOK
<1>8. ASSUME NEW s \in Svcs, DeleteEndpointsRow(s) \/ DeleteEndpointsFails(s) PROVE TypeOK'
    <2>1. endpoints' \in [Svcs -> SUBSET Addr]
        <3>1. endpoints' = endpoints \/ endpoints' = [endpoints EXCEPT ![s] = {}]
            BY <1>8 DEF DeleteEndpointsRow, DeleteEndpointsFails
        <3>2. endpoints \in [Svcs -> SUBSET Addr]
            BY DEF TypeOK
        <3> QED BY <3>1, <3>2
    <2>2. deleting' \in SUBSET Svcs
        BY <1>8 DEF DeleteEndpointsRow, DeleteEndpointsFails, TypeOK
    <2>3. UNCHANGED <<services, pvars, ctl, proxy, entries, conn, disturbances, restarts>>
        BY <1>8 DEF DeleteEndpointsRow, DeleteEndpointsFails
    <2> QED BY <2>1, <2>2, <2>3 DEF pvars, TypeOK
<1>9. ASSUME NEW s \in Svcs, SyncService(s) PROVE TypeOK'
    <2>1. endpoints[s] \in SUBSET Addr
        BY DEF TypeOK
    <2> QED BY <1>9, <2>1, RouteEffect DEF SyncService, pvars, TypeOK
<1>10. ASSUME NEW s \in Svcs, SyncServiceFails(s) PROVE TypeOK'
    BY <1>10, RouteEffect DEF SyncServiceFails, pvars, TypeOK
<1>11. ASSUME NEW s \in Svcs, Accept(s) PROVE TypeOK'
    <2>1. PICK a \in entries[s].backends :
            conn' = [svc |-> s, pod |-> a[1], port |-> a[2], reached |-> NoPod]
        BY <1>11 DEF Accept
    <2>2. a[1] \in Pods /\ a[2] \in Ports
        BY <2>1 DEF TypeOK, Addr
    <2> QED BY <1>11, <2>1, <2>2 DEF Accept, pvars, TypeOK
<1>12. ASSUME NEW c \in Controllers, NEW s \in Svcs, UpsertEndpoints(c, s) PROVE TypeOK'
    <2>1. Selected(s, ctl[c].running) \in SUBSET Addr
        BY DEF Selected, TypeOK
    <2> QED BY <1>12, <2>1 DEF UpsertEndpoints, pvars, TypeOK
<1>13. ASSUME NEW c \in Controllers, NEW s \in Svcs, UpsertEndpointsFails(c, s) PROVE TypeOK'
    BY <1>13 DEF UpsertEndpointsFails, pvars, TypeOK
<1>14. ASSUME NEW c \in Controllers, ListServices(c) \/ EndPass(c) \/ ListPodsFails(c) PROVE TypeOK'
    <2> DEFINE S == {s \in Svcs : services[s] # NoIP}
               listed == [at |-> "listing", running |-> {}, svcs |-> S]
    <2>1. listed \in [at : {"idle", "listing", "writing"}, svcs : SUBSET Svcs,
                     running : SUBSET Addr]
        <3>1. S \in SUBSET Svcs
            OBVIOUS
        <3> HIDE DEF S
        <3> QED BY <3>1
    <2>2. ctl' = [ctl EXCEPT ![c] = listed] \/ ctl' = [ctl EXCEPT ![c] = Resting]
        BY <1>14 DEF ListServices, EndPass, ListPodsFails
    <2> HIDE DEF listed
    <2>3. ctl' \in [Controllers -> [at : {"idle", "listing", "writing"}, svcs : SUBSET Svcs,
                                   running : SUBSET Addr]]
        BY <2>1, <2>2 DEF TypeOK
    <2> QED BY <1>14, <2>3 DEF ListServices, EndPass, ListPodsFails, pvars, TypeOK
<1>15. ASSUME NEW c \in Controllers, ListPods(c) PROVE TypeOK'
    <2>1. Running \in SUBSET Addr
        BY DEF Running
    <2>2. ctl' \in [Controllers -> [at : {"idle", "listing", "writing"}, svcs : SUBSET Svcs,
                                   running : SUBSET Addr]]
        <3> HIDE DEF Running
        <3> QED BY <1>15, <2>1 DEF ListPods, TypeOK
    <2> QED BY <1>15, <2>2 DEF ListPods, pvars, TypeOK
<1>16. ASSUME SyncList PROVE TypeOK'
    BY <1>16 DEF SyncList, pvars, TypeOK
<1>17. ASSUME SyncRemove PROVE TypeOK'
    BY <1>17 DEF SyncRemove, pvars, TypeOK
<1>18. ASSUME Disconnect PROVE TypeOK'
    BY <1>18 DEF Disconnect, pvars, TypeOK
<1>19. CASE UNCHANGED vars
    BY <1>19 DEF vars, pvars, TypeOK
<1> QED BY <1>1, <1>2, <1>3, <1>4, <1>5, <1>6, <1>7, <1>8, <1>9, <1>10, <1>11, <1>12,
           <1>13, <1>14, <1>15, <1>16, <1>17, <1>18, <1>19, <1>20 DEF Next

\* The initial state has its types, and nothing has been copied yet.
LEMMA InitInv == Init => RoutingInv
<1> SUFFICES ASSUME Init PROVE RoutingInv
    OBVIOUS
<1>1. TypeOK
    <2>1. /\ services \in [Svcs -> IPs \cup {NoIP}]
          /\ endpoints \in [Svcs -> SUBSET Addr]
          /\ entries \in [Svcs -> [ip : IPs \cup {NoIP}, backends : SUBSET Addr]]
        BY EmptyRecords DEF Init
    <2>2. /\ pods \in [Pods -> Ports \cup {NoPort}]
          /\ listening \in [Pods -> Ports \cup {NoPort}]
          /\ stranded \in SUBSET Pods
        BY DEF Init
    <2>3. ctl \in [Controllers -> [at : {"idle", "listing", "writing"}, svcs : SUBSET Svcs,
                                  running : SUBSET Addr]]
        BY EmptyRecords DEF Init
    <2>4. /\ proxy \in [syncing : BOOLEAN, ips : [Svcs -> IPs \cup {NoIP}], todo : SUBSET Svcs]
          /\ conn \in [svc : Svcs \cup {NoSvc}, pod : Pods \cup {NoPod},
                       port : Ports \cup {NoPort}, reached : Pods \cup {NoPod}]
        BY EmptyRecords DEF Init
    <2>5. deleting \in SUBSET Svcs /\ disturbances = 0 /\ restarts = 0
        BY DEF Init
    <2> QED BY <2>1, <2>2, <2>3, <2>4, <2>5, BoundsAssumption DEF TypeOK
<1>2. PodsServed /\ CopiesSelected
    BY EmptyRecords DEF Init, PodsServed, CopiesSelected
<1>3. DialsSelected
    <2>1. conn = NoConn
        BY DEF Init
    <2> QED BY <2>1, EmptyRecords DEF DialsSelected
<1> QED BY <1>1, <1>2, <1>3 DEF RoutingInv

-----------------------------------------------------------------------------
\* The kubelet and the users keep Running pods with their listeners: a port that
\* is given out again is nobody's.
LEMMA ServedStep ==
    ASSUME RoutingInv, [Next]_vars
    PROVE  PodsServed'
<1>0. /\ pods \in [Pods -> Ports \cup {NoPort}] /\ listening \in [Pods -> Ports \cup {NoPort}]
      /\ PodsServed
    BY DEF RoutingInv, TypeOK
<1>1. ASSUME NEW p \in Pods, ListenerOpens(p) PROVE PodsServed'
    <2>1. PICK q \in Ports : Serving!Listen(p, q)
        BY <1>1 DEF ListenerOpens
    <2>2. /\ pods[p] = NoPort /\ pods' = pods /\ stranded' = stranded
          /\ \A r \in Pods : listening'[r] = IF r = p THEN q ELSE listening[r]
          /\ \A r \in Pods : listening[r] # q
        BY <1>0, <1>1, <2>1 DEF ListenerOpens, Serving!Listen
    <2> QED BY <1>0, <2>2 DEF PodsServed
<1>2. ASSUME NEW p \in Pods, PodRuns(p) PROVE PodsServed'
    BY <1>0, <1>2 DEF PodRuns, Serving!Report, PodsServed
<1>3. ASSUME NEW p \in Pods, PodDeleted(p) PROVE PodsServed'
    BY <1>0, <1>3 DEF PodDeleted, Serving!Withdraw, PodsServed
<1>4. ASSUME ListenersClose PROVE PodsServed'
    <2>1. PICK S \in SUBSET Pods : Serving!CloseListeners(S)
        BY <1>4 DEF ListenersClose
    <2>2. stranded' = stranded
        BY <1>4 DEF ListenersClose
    <2>3. /\ pods' = pods
          /\ \A r \in Pods : listening'[r] # listening[r] =>
                                pods[r] = NoPort /\ listening'[r] = NoPort
        BY <2>1 DEF Serving!CloseListeners
    <2> QED BY <1>0, <2>2, <2>3 DEF PodsServed
<1>5. ASSUME KubeletRestart PROVE PodsServed'
    BY <1>0, <1>5 DEF KubeletRestart, Serving!Restart, PodsServed
<1>6. CASE UNCHANGED pvars
    BY <1>0, <1>6 DEF pvars, PodsServed
<1>7. CASE \/ \E r \in Pods : Dial(r)
           \/ \E s \in Svcs : Accept(s) \/ CreateService(s) \/ DeleteServiceRow(s)
                            \/ DeleteEndpointsRow(s) \/ DeleteEndpointsFails(s)
                            \/ SyncService(s) \/ SyncServiceFails(s)
           \/ SyncList \/ SyncRemove \/ Disconnect \/ UNCHANGED vars
    <2>1. UNCHANGED pvars
        BY <1>7 DEF vars, Dial, Accept, CreateService, DeleteServiceRow, DeleteEndpointsRow,
                    DeleteEndpointsFails, SyncService, SyncServiceFails, SyncList, SyncRemove,
                    Disconnect
    <2> QED BY <1>6, <2>1
<1>8. ASSUME NEW c \in Controllers,
             \/ \E s \in Svcs : UpsertEndpoints(c, s) \/ UpsertEndpointsFails(c, s)
             \/ ListServices(c) \/ ListPods(c) \/ ListPodsFails(c) \/ EndPass(c)
      PROVE  PodsServed'
    <2>1. UNCHANGED pvars
        BY <1>8 DEF UpsertEndpoints, UpsertEndpointsFails, ListServices, ListPods,
                    ListPodsFails, EndPass
    <2> QED BY <1>6, <2>1
<1> QED BY <1>1, <1>2, <1>3, <1>4, <1>5, <1>7, <1>8 DEF Next

\* reconcileOne writes selected pods only, and sync copies what it wrote.
LEMMA CopiesStep ==
    ASSUME RoutingInv, [Next]_vars
    PROVE  CopiesSelected'
<1>0. /\ endpoints \in [Svcs -> SUBSET Addr] /\ TypeOK /\ CopiesSelected
      /\ entries \in [Svcs -> [ip : IPs \cup {NoIP}, backends : SUBSET Addr]]
    BY DEF RoutingInv, TypeOK
<1>1. ASSUME NEW c \in Controllers, NEW s \in Svcs, UpsertEndpoints(c, s) PROVE CopiesSelected'
    <2>1. /\ \A r \in Svcs : endpoints'[r] = IF r = s THEN Selected(s, ctl[c].running)
                                              ELSE endpoints[r]
          /\ entries' = entries
        BY <1>0, <1>1 DEF UpsertEndpoints
    <2>2. \A a \in Selected(s, ctl[c].running) : SelectorMatches(s, a[1])
        BY DEF Selected
    <2> QED BY <1>0, <2>1, <2>2 DEF CopiesSelected, SelectorMatches
<1>2. ASSUME NEW s \in Svcs, DeleteEndpointsRow(s) PROVE CopiesSelected'
    BY <1>0, <1>2 DEF DeleteEndpointsRow, CopiesSelected, SelectorMatches
<1>3. ASSUME NEW s \in Svcs, SyncService(s) \/ SyncServiceFails(s) PROVE CopiesSelected'
    <2>1. PICK eps \in {{}, endpoints[s]} : Route(s, eps)
        BY <1>3 DEF SyncService, SyncServiceFails
    <2>2. eps \in SUBSET Addr /\ \A a \in eps : SelectorMatches(s, a[1])
        BY <1>0, <2>1 DEF CopiesSelected
    <2>3. \A r \in Svcs : \/ entries'[r].backends = entries[r].backends
                          \/ r = s /\ entries'[r].backends = eps
        BY <1>0, <2>1, <2>2, RouteEffect
    <2>4. endpoints' = endpoints
        BY <1>3 DEF SyncService, SyncServiceFails
    <2> QED BY <1>0, <2>2, <2>3, <2>4 DEF CopiesSelected, SelectorMatches
<1>4. ASSUME SyncRemove PROVE CopiesSelected'
    <2>1. /\ endpoints' = endpoints
          /\ \A r \in Svcs : entries'[r].backends \subseteq entries[r].backends
        BY <1>0, <1>4, EmptyRecords DEF SyncRemove
    <2> QED BY <1>0, <2>1 DEF CopiesSelected, SelectorMatches
<1>5. CASE UNCHANGED <<endpoints, entries>>
    BY <1>0, <1>5 DEF CopiesSelected, SelectorMatches
<1>6. CASE \/ \E p \in Pods : ListenerOpens(p) \/ PodRuns(p) \/ PodDeleted(p) \/ Dial(p)
           \/ ListenersClose \/ KubeletRestart
           \/ \E s \in Svcs : Accept(s) \/ CreateService(s) \/ DeleteServiceRow(s)
                            \/ DeleteEndpointsFails(s)
           \/ SyncList \/ Disconnect \/ UNCHANGED vars
    <2>1. UNCHANGED <<endpoints, entries>>
        BY <1>6 DEF vars, ListenerOpens, PodRuns, PodDeleted, ListenersClose, KubeletRestart,
                    Dial, Accept, CreateService, DeleteServiceRow, DeleteEndpointsFails,
                    SyncList, Disconnect
    <2> QED BY <1>5, <2>1
<1>7. ASSUME NEW c \in Controllers,
             \/ \E s \in Svcs : UpsertEndpointsFails(c, s)
             \/ ListServices(c) \/ ListPods(c) \/ ListPodsFails(c) \/ EndPass(c)
      PROVE  CopiesSelected'
    <2>1. UNCHANGED <<endpoints, entries>>
        BY <1>7 DEF UpsertEndpointsFails, ListServices, ListPods, ListPodsFails, EndPass
    <2> QED BY <1>5, <2>1
<1> QED BY <1>1, <1>2, <1>3, <1>4, <1>6, <1>7 DEF Next

\* Only the dial of handle makes a connection reach a pod.
LEMMA OnlyDialReaches ==
    ASSUME TypeOK, [Next]_vars
    PROVE  \/ \E r \in Pods : Dial(r)
           \/ \E s \in Svcs : Accept(s)
           \/ conn' = NoConn
           \/ conn' = conn
BY DEF Next, vars, ListenerOpens, PodRuns, PodDeleted, ListenersClose, KubeletRestart,
       CreateService, DeleteServiceRow, DeleteEndpointsRow, DeleteEndpointsFails, SyncService,
       SyncServiceFails, UpsertEndpoints, UpsertEndpointsFails, ListServices, ListPods,
       ListPodsFails, EndPass, SyncList, SyncRemove, Disconnect

\* A backend is one of the selected pods the proxy has.
LEMMA AcceptsSelected ==
    ASSUME RoutingInv, NEW s \in Svcs, Accept(s)
    PROVE  conn'.reached = NoPod /\ DialsSelected'
<1>1. PICK a \in entries[s].backends :
        conn' = [svc |-> s, pod |-> a[1], port |-> a[2], reached |-> NoPod]
    BY DEF Accept
<1>2. a[1] \in Pods /\ a[2] \in Ports /\ SelectorMatches(s, a[1])
    BY <1>1 DEF RoutingInv, TypeOK, Addr, CopiesSelected
<1> QED BY <1>1, <1>2 DEF DialsSelected, SelectorMatches

\* A dial that gets through is over.
LEMMA DialReaches ==
    ASSUME NEW r \in Pods, Dial(r)
    PROVE  conn'.reached = r
BY DEF Dial, NoConn

\* Every step keeps Running pods with their listeners and the copies selected.
LEMMA RoutingInductive == RoutingInv /\ [Next]_vars => RoutingInv'
<1> SUFFICES ASSUME RoutingInv, [Next]_vars PROVE RoutingInv'
    OBVIOUS
<1>1. TypeOK' /\ PodsServed' /\ CopiesSelected'
    BY TypeInductive, ServedStep, CopiesStep DEF RoutingInv
<1>2. DialsSelected'
    <2>1. CASE \E r \in Pods : Dial(r)
        BY <2>1, DialReaches, NoPodAssumption DEF DialsSelected
    <2>2. CASE \E s \in Svcs : Accept(s)
        BY <2>2, AcceptsSelected
    <2>3. CASE conn' = NoConn
        BY <2>3, EmptyRecords DEF DialsSelected
    <2>4. CASE conn' = conn
        BY <2>4 DEF RoutingInv, DialsSelected, SelectorMatches
    <2> QED BY <2>1, <2>2, <2>3, <2>4, OnlyDialReaches DEF RoutingInv
<1> QED BY <1>1, <1>2 DEF RoutingInv

\* A dial that reaches a pod, to a pod that is Running at the port and not left
\* without a listener, reaches that pod.
LEMMA ReachesTheRunningPod ==
    ASSUME RoutingInv, [Next]_vars, Reaching, pods[conn.pod] = conn.port,
           conn.pod \notin stranded
    PROVE  conn'.reached = conn.pod /\ SelectorMatches(conn.svc, conn.pod)
<1>1. PICK r \in Pods : Dial(r)
    BY OnlyDialReaches, AcceptsSelected, EmptyRecords DEF RoutingInv, Reaching
<1>2. /\ conn.pod \in Pods /\ conn.port \in Ports
      /\ SelectorMatches(conn.svc, conn.pod)
    BY <1>1 DEF Dial, RoutingInv, DialsSelected
<1>3. listening[conn.pod] = conn.port
    BY <1>2, NoPortAssumption DEF RoutingInv, PodsServed
<1>4. r = conn.pod
    BY <1>1, <1>2, <1>3, NoPortAssumption DEF Dial, RoutingInv, PodsServed
<1> QED BY <1>1, <1>2, <1>4, DialReaches

(***************************************************************************)
(* A connection routed to a pod that is Running reaches that pod, and its  *)
(* Service selects it: with any reuse of ports by the system, and any      *)
(* interleaving of the controllers, the proxy, the kubelet and the users.  *)
(***************************************************************************)
THEOREM RunningReached == Spec => RunningPodIsReached
<1>1. RoutingInv /\ [Next]_vars =>
        [ Reaching /\ pods[conn.pod] = conn.port /\ conn.pod \notin stranded
            => conn'.reached = conn.pod /\ SelectorMatches(conn.svc, conn.pod) ]_vars
    BY ReachesTheRunningPod
<1> QED BY InitInv, RoutingInductive, <1>1, PTL DEF Spec, RunningPodIsReached

(***************************************************************************)
(* Type correctness: every handler, pass and sync keeps the tables, the    *)
(* listeners and the proxy's entries within their types.                   *)
(***************************************************************************)
THEOREM TypeCorrect == Spec => []TypeOK
<1>1. Init => TypeOK
    BY InitInv DEF RoutingInv
<1> QED BY <1>1, TypeInductive, PTL DEF Spec

-----------------------------------------------------------------------------
(* With NetworkPolicies. *)

\* Whatever the proxy does once it refreshes and judges is a step of
\* ServiceRouting or leaves its state alone.
LEMMA PolicyStep == [PolicyNext]_<<vars, xvars>> => [Next]_vars
<1> SUFFICES ASSUME [PolicyNext]_<<vars, xvars>> PROVE [Next]_vars
    OBVIOUS
<1>1. CASE \E n \in Policies :
            (\E spec \in PolicySpecs : UpsertNetworkPolicy(n, spec)) \/ DeleteNetworkPolicy(n)
    <2> UNCHANGED vars
        BY <1>1 DEF UpsertNetworkPolicy, DeleteNetworkPolicy, ChangePolicy
    <2> QED OBVIOUS
<1>2. CASE BeginSync
    BY <1>2 DEF BeginSync, Next
<1>3. CASE RefreshPolicies \/ RefreshPods \/ RefreshFails \/ Judge
    <2> UNCHANGED vars
        BY <1>3 DEF RefreshPolicies, RefreshPods, RefreshFails, Judge
    <2> QED OBVIOUS
<1>4. CASE RestOfSync
    BY <1>4 DEF RestOfSync, Next
<1>5. CASE \E s \in Svcs, source \in Ports \cup {NoPort} : AcceptFrom(s, source)
    BY <1>5 DEF AcceptFrom, Next
<1>6. CASE Deny \/ Close
    BY <1>6 DEF Deny, Close, Next
<1>7. CASE DialAllowed
    BY <1>7 DEF DialAllowed, Next
<1>8. CASE Others
    BY <1>8 DEF Others, Next
<1>9. CASE UNCHANGED <<vars, xvars>>
    BY <1>9
<1> QED BY <1>1, <1>2, <1>3, <1>4, <1>5, <1>6, <1>7, <1>8, <1>9 DEF PolicyNext

\* mk-kube-proxy with NetworkPolicies does nothing it does not do without: sync
\* and handle, with their caches and the verdict, implement ServiceRouting.
THEOREM PoliciesOnlyDeny == PolicySpec => Spec
<1>1. PolicyInit => Init
    BY DEF PolicyInit
<1> QED BY <1>1, PolicyStep, PTL DEF PolicySpec, Spec

\* With policies too, a connection routed to a Running pod reaches it: neither the
\* refreshing of the caches nor the time the verdict takes gives its port away.
THEOREM RunningReachedUnderPolicies == PolicySpec => RunningPodIsReached
<1>1. Spec => RunningPodIsReached
    BY RunningReached
<1> QED BY <1>1, PoliciesOnlyDeny, PTL

-----------------------------------------------------------------------------
\* Every step keeps the policies, the caches and the verdict in their types.
LEMMA PolicyTypeInductive ==
    PolicyTypeOK /\ TypeOK' /\ [PolicyNext]_<<vars, xvars>> => PolicyTypeOK'
<1> SUFFICES ASSUME PolicyTypeOK, TypeOK', [PolicyNext]_<<vars, xvars>>
             PROVE  PolicyTypeOK'
    OBVIOUS
<1> USE MaxPolicyChangesAssumption DEF PolicyTypeOK
<1>1. ASSUME NEW n \in Policies, NEW spec \in PolicySpecs, UpsertNetworkPolicy(n, spec)
      PROVE  PolicyTypeOK'
    BY <1>1 DEF UpsertNetworkPolicy, ChangePolicy
<1>2. ASSUME NEW n \in Policies, DeleteNetworkPolicy(n)
      PROVE  PolicyTypeOK'
    BY <1>2 DEF DeleteNetworkPolicy, ChangePolicy
<1>3. CASE BeginSync
    BY <1>3 DEF BeginSync
<1>4. CASE RefreshPolicies
    BY <1>4 DEF RefreshPolicies
<1>5. CASE RefreshPods
    BY <1>5 DEF RefreshPods, TypeOK
<1>6. CASE RefreshFails
    BY <1>6 DEF RefreshFails
<1>7. CASE RestOfSync \/ DialAllowed \/ Others \/ UNCHANGED <<vars, xvars>>
    <2> UNCHANGED xvars
        BY <1>7 DEF RestOfSync, DialAllowed, Others
    <2> QED BY DEF xvars
<1>8. ASSUME NEW s \in Svcs, NEW source \in Ports \cup {NoPort}, AcceptFrom(s, source)
      PROVE  PolicyTypeOK'
    BY <1>8 DEF AcceptFrom
<1>9. CASE Judge
    BY <1>9 DEF Judge, NoVerdict
<1>10. CASE Deny \/ Close
    <2>1. verdict' = NoVerdict /\ UNCHANGED <<policies, known, refresh, policyChanges>>
        BY <1>10 DEF Deny, Close
    <2> QED BY <2>1 DEF NoVerdict
<1> QED BY <1>1, <1>2, <1>3, <1>4, <1>5, <1>6, <1>7, <1>8, <1>9, <1>10 DEF PolicyNext

\* The table of policies, the proxy's caches of policies and pods, and the
\* verdict keep their types, and so does all of ServiceRouting's state: what is
\* cached is always a list the store could have returned.
THEOREM PolicyTypeCorrect == PolicySpec => []PolicyTypeOK
<1>1. PolicySpec => []TypeOK
    BY PoliciesOnlyDeny, TypeCorrect, PTL
<1>2. PolicyInit /\ TypeOK => PolicyTypeOK
    BY MaxPolicyChangesAssumption DEF PolicyInit, PolicyTypeOK, NoVerdict
<1> QED BY <1>1, <1>2, PolicyTypeInductive, PTL DEF PolicySpec
==============================================================================
