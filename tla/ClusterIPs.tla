----------------------------- MODULE ClusterIPs -----------------------------
(***************************************************************************)
(* Cluster IPs: clusterIPAlloc, the POST and DELETE handlers of Services   *)
(* with Store.UpsertService and ListClusterIPs under them, on several      *)
(* apiserver replicas that share the database, and the name cache of       *)
(* mk-coredns-mini.                                                        *)
(*                                                                         *)
(* A POST is up to five database statements with the allocator's mutex     *)
(* held for none of them: whether the Service exists, which addresses are  *)
(* taken, the allocation, whether the Service exists, the write.  The      *)
(* cursor of the allocator is per process and starts afresh with it.       *)
(***************************************************************************)
EXTENDS Integers, FiniteSets

CONSTANTS
    Svcs,
    Servers,     \* apiserver replicas
    Clients,     \* each has at most one POST under way
    NoSvc, NoServer, NoIP,
    UseLoop,     \* -cluster-ip-loopback-cidr: a pool instead of 127.0.0.1
    Modulus,     \* values of the cursor: 256 in the code
    Tries,       \* length of the search: 250 in the code
    Wanted,      \* spec.clusterIP a user may ask for
    Lower,       \* the Service whose name is that of this one in lower case
    Dotted,      \* Services with a dot in the name or the namespace
    MaxRequests  \* bound on POSTs, deletes and restarts

ASSUME NoIPAssumption == NoIP \notin Nat /\ NoSvc \notin Svcs /\ NoServer \notin Servers
ASSUME ModulusAssumption == Modulus \in Nat /\ Modulus > 2
ASSUME TriesAssumption == Tries \in 1 .. Modulus - 2 /\ 2 * Tries >= Modulus - 2
ASSUME WantedAssumption == Wanted \subseteq (2 .. Modulus - 1)
ASSUME UseLoopAssumption == UseLoop \in BOOLEAN
ASSUME NamesAssumption == Lower \in [Svcs -> Svcs \cup {NoSvc}] /\ Dotted \subseteq Svcs
ASSUME MaxRequestsAssumption == MaxRequests \in Nat

VARIABLES
    services,  \* cluster IP of each Service row, or NoIP
    cursor,    \* alloc.next of each replica
    req,       \* the POST of each client
    names,     \* the services map of coredns-mini
    requests,  \* POSTs, deletes and restarts so far
    refusals,  \* history: addresses free when a replica's latest search failed
    raced,     \* history: two allocations overlapped, a list failed, or a user
               \* chose the address
    reborn     \* history: Services deleted while a POST of theirs was under way

vars == <<services, cursor, req, names, requests, refusals, raced, reborn>>

\* The last byte of the addresses of the pool, and the one address without it.
Pool == 2 .. Modulus - 1
Loopback == 1
Addrs == Pool \cup {Loopback}

None == [s \in Svcs |-> NoIP]
NoReq == [at |-> "idle", srv |-> NoServer, svc |-> NoSvc, ip |-> NoIP, taken |-> {}]

TypeOK ==
    /\ services \in [Svcs -> Addrs \cup {NoIP}]
    /\ cursor \in [Servers -> 0 .. Modulus - 1]
    /\ req \in [Clients ->
            [at : {"idle", "listing", "allocating", "upserting", "inserting", "updating"},
             srv : Servers \cup {NoServer}, svc : Svcs \cup {NoSvc},
             ip : Addrs \cup {NoIP}, taken : SUBSET Addrs]]
    /\ names \in [Svcs -> Addrs \cup {NoIP}]
    /\ requests \in 0 .. MaxRequests
    /\ refusals \in [Servers -> SUBSET Pool]
    /\ raced \in BOOLEAN
    /\ reborn \in SUBSET Svcs

Init ==
    /\ services = None
    /\ cursor = [v \in Servers |-> 1]
    /\ req = [c \in Clients |-> NoReq]
    /\ names = None
    /\ requests = 0
    /\ refusals = [v \in Servers |-> {}]
    /\ raced = FALSE
    /\ reborn = {}

-----------------------------------------------------------------------------
(* clusterIPAlloc.alloc *)

\* Mutant: the cursor wraps to 0, and the reset is forgotten.
Advance_NoReset(n) == (n + 1) % Modulus

\* next++, and 2 for what is below it.
Advance(n) == LET m == (n + 1) % Modulus IN IF m < 2 THEN 2 ELSE m

\* The values next takes in the loop, from n on.
Tried(n) ==
    LET tried[k \in 0 .. Tries] == IF k = 0 THEN n ELSE Advance(tried[k - 1])
    IN tried

\* Mutant: the cursor stays where a failed search began.
Search_StaysPut(n, taken) ==
    LET tried == Tried(n)
        free == {k \in 1 .. Tries : tried[k] \notin taken}
        first == CHOOSE k \in free : \A j \in free : k <= j
    IN IF free = {} THEN [ip |-> NoIP, next |-> n]
       ELSE [ip |-> tried[first], next |-> tried[first]]

\* Mutant: what is taken is not looked at.
Search_Blind(n, taken) == [ip |-> Advance(n), next |-> Advance(n)]

\* The loop over at most Tries addresses, from cursor value n.
Search(n, taken) ==
    LET tried == Tried(n)
        free == {k \in 1 .. Tries : tried[k] \notin taken}
        first == CHOOSE k \in free : \A j \in free : k <= j
    IN IF free = {} THEN [ip |-> NoIP, next |-> tried[Tries]]
       ELSE [ip |-> tried[first], next |-> tried[first]]

-----------------------------------------------------------------------------
(* POST /services *)

Request == requests < MaxRequests /\ requests' = requests + 1

\* Somebody else is between its list of taken addresses and its write.
Overlaps(c) ==
    \E d \in Clients \ {c} : req[d].at \in {"allocating", "upserting", "inserting", "updating"}

\* The handler after it has looked for the Service and found `existing`.
Decide(c, v, s, want, existing) ==
    LET at == IF existing = NoIP /\ want = NoIP THEN "listing" ELSE "upserting"
        ip == IF existing # NoIP THEN existing ELSE want
    IN /\ req' = [req EXCEPT ![c] = [at |-> at, srv |-> v, svc |-> s, ip |-> ip, taken |-> {}]]
       /\ raced' = (raced \/ want # NoIP)

\* The request arrives; GetService tells whether the Service exists.
Post(c, v, s, want) ==
    /\ Request
    /\ req[c].at = "idle"
    /\ Decide(c, v, s, want, services[s])
    /\ UNCHANGED <<services, cursor, names, refusals, reborn>>

\* GetService fails: any error is taken for a new Service.
PostReadFails(c, v, s, want) ==
    /\ Request
    /\ req[c].at = "idle"
    /\ Decide(c, v, s, want, NoIP)
    /\ UNCHANGED <<services, cursor, names, refusals, reborn>>

\* ListClusterIPs.
ListTaken(c) ==
    /\ req[c].at = "listing"
    /\ req' = [req EXCEPT ![c].at = "allocating",
                          ![c].taken = {services[s] : s \in Svcs} \ {NoIP}]
    /\ raced' = (raced \/ Overlaps(c))
    /\ UNCHANGED <<services, cursor, names, requests, refusals, reborn>>

\* It fails: the error is dropped and nothing is taken for taken.
ListTakenFails(c) ==
    /\ req[c].at = "listing"
    /\ req' = [req EXCEPT ![c].at = "allocating"]
    /\ raced' = TRUE
    /\ UNCHANGED <<services, cursor, names, requests, refusals, reborn>>

\* alloc; without an address the request is answered 500.
Allocate(c) ==
    LET v == req[c].srv
        found == Search(cursor[v], req[c].taken)
        ip == IF UseLoop THEN found.ip ELSE Loopback
    IN /\ req[c].at = "allocating"
       /\ cursor' = IF UseLoop THEN [cursor EXCEPT ![v] = found.next] ELSE cursor
       /\ req' = [req EXCEPT ![c] = IF ip = NoIP THEN NoReq
                                    ELSE [@ EXCEPT !.at = "upserting", !.ip = ip, !.taken = {}]]
       /\ refusals' = [refusals EXCEPT ![v] = IF ip = NoIP THEN Pool \ req[c].taken ELSE {}]
       /\ UNCHANGED <<services, names, requests, raced, reborn>>

\* Mutant: the address of the existing row is not kept.
UpsertRead_TakesNew(c) ==
    /\ req[c].at = "upserting"
    /\ req' = [req EXCEPT ![c].at = IF services[req[c].svc] # NoIP THEN "updating" ELSE "inserting"]
    /\ UNCHANGED <<services, cursor, names, requests, refusals, raced, reborn>>

\* UpsertService looks again: the address of a row that exists is kept.
UpsertRead(c) ==
    LET existing == services[req[c].svc]
    IN /\ req[c].at = "upserting"
       /\ req' = [req EXCEPT ![c] =
                    IF existing # NoIP THEN [@ EXCEPT !.at = "updating", !.ip = existing]
                    ELSE [@ EXCEPT !.at = "inserting"]]
       /\ UNCHANGED <<services, cursor, names, requests, refusals, raced, reborn>>

\* INSERT: refused by the primary key when the Service has come to exist.
Insert(c) ==
    LET s == req[c].svc
    IN /\ req[c].at = "inserting"
       /\ services' = IF services[s] = NoIP THEN [services EXCEPT ![s] = req[c].ip] ELSE services
       /\ req' = [req EXCEPT ![c] = NoReq]
       /\ UNCHANGED <<cursor, names, requests, refusals, raced, reborn>>

\* UPDATE by name, address included: nothing when the Service is gone.
Update(c) ==
    LET s == req[c].svc
    IN /\ req[c].at = "updating"
       /\ services' = IF services[s] # NoIP THEN [services EXCEPT ![s] = req[c].ip] ELSE services
       /\ req' = [req EXCEPT ![c] = NoReq]
       /\ UNCHANGED <<cursor, names, requests, refusals, raced, reborn>>

\* A statement of UpsertService fails: answered 500.
UpsertFails(c) ==
    /\ req[c].at \in {"upserting", "inserting", "updating"}
    /\ req' = [req EXCEPT ![c] = NoReq]
    /\ UNCHANGED <<services, cursor, names, requests, refusals, raced, reborn>>

\* DELETE /services/s.
Delete(s) ==
    /\ Request
    /\ services[s] # NoIP
    /\ services' = [services EXCEPT ![s] = NoIP]
    /\ reborn' = IF \E c \in Clients : req[c].svc = s THEN reborn \cup {s} ELSE reborn
    /\ UNCHANGED <<cursor, req, names, refusals, raced>>

\* A replica restarts: its requests die and its cursor begins at 1.
ServerRestart(v) ==
    /\ Request
    /\ cursor' = [cursor EXCEPT ![v] = 1]
    /\ req' = [c \in Clients |-> IF req[c].srv = v THEN NoReq ELSE req[c]]
    /\ refusals' = [refusals EXCEPT ![v] = {}]
    /\ UNCHANGED <<services, names, raced, reborn>>

-----------------------------------------------------------------------------
(* mk-coredns-mini *)

\* Mutant: names are only ever added.
Refresh_KeepsOld ==
    /\ names' = [s \in Svcs |-> IF services[s] = NoIP THEN names[s] ELSE services[s]]
    /\ UNCHANGED <<services, cursor, req, requests, refusals, raced, reborn>>

\* refresh: ListServices, and cache.set replaces the whole map.  (A map set some
\* time after its list is as stale as one set at once and read later.)
Refresh ==
    /\ names' = services
    /\ UNCHANGED <<services, cursor, req, requests, refusals, raced, reborn>>

\* What a query for <service>.<namespace>.svc.cluster.local is answered: nothing
\* unless two parts are left without the suffix; and the name is looked up in
\* lower case, in a map whose keys keep their case, so that another Service may be
\* found or none.
Answer(s) == IF s \in Dotted \/ Lower[s] = NoSvc THEN NoIP ELSE names[Lower[s]]

-----------------------------------------------------------------------------
Next ==
    \/ \E c \in Clients :
        \/ \E v \in Servers, s \in Svcs, want \in Wanted \cup {NoIP} :
            Post(c, v, s, want) \/ PostReadFails(c, v, s, want)
        \/ ListTaken(c) \/ ListTakenFails(c) \/ Allocate(c)
        \/ UpsertRead(c) \/ Insert(c) \/ Update(c) \/ UpsertFails(c)
    \/ \E s \in Svcs : Delete(s)
    \/ \E v \in Servers : ServerRestart(v)
    \/ Refresh

Spec == Init /\ [][Next]_vars

\* Handlers finish; refreshLoop goes on for ever (a list that fails leaves the
\* map as it is and is tried again).
Fairness ==
    /\ WF_vars(Refresh)
    /\ \A c \in Clients :
        WF_vars(ListTaken(c) \/ Allocate(c) \/ UpsertRead(c) \/ Insert(c) \/ Update(c))

FairSpec == Spec /\ Fairness

-----------------------------------------------------------------------------
\* The address of the pool that is k further than cursor value n, counting
\* around the pool.
Around(n, k) == 2 + ((n - 2 + k) % Cardinality(Pool))

(***************************************************************************)
(* alloc against its reference definition, for every cursor the replicas   *)
(* come to have and every set of taken addresses: it returns the nearest   *)
(* free address of the pool in cyclic order after the last one tried, if   *)
(* that is within the number of tries, at the wrap of the byte too.        *)
(***************************************************************************)
AllocIsNextFree ==
    \A v \in Servers, taken \in SUBSET Pool :
        LET n == cursor[v]
            near == {k \in 1 .. Tries : Around(n, k) \notin taken}
        IN IF near = {} THEN Search(n, taken).ip = NoIP
           ELSE \E k \in near : /\ \A j \in near : k <= j
                                /\ Search(n, taken).ip = Around(n, k)

(***************************************************************************)
(* "cluster IP pool exhausted" is true in the end: the search covers only  *)
(* part of the pool, but it goes on where the last one stopped, so a       *)
(* replica that refuses twice in a row has passed no address that was free *)
(* both times.                                                             *)
(***************************************************************************)
RetryFindsFree ==
    [][\A c \in Clients :
        LET v == req[c].srv
        IN req[c].at = "allocating" /\ req'[c].at = "idle"
            => refusals[v] \cap refusals'[v] = {}]_vars

(***************************************************************************)
(* Requests that do not overlap between the list of taken addresses and    *)
(* the write get Services distinct addresses, over any number of replicas  *)
(* with cursors of their own, deletes, wraps of the cursor and restarts.   *)
(***************************************************************************)
DistinctUnlessRaced ==
    UseLoop /\ ~raced /\ reborn = {} =>
        \A s, t \in Svcs : s # t /\ services[s] # NoIP => services[s] # services[t]

(***************************************************************************)
(* The cluster IP is stable: however POSTs of one Service overlap, on one  *)
(* replica or on two, and whatever they ask for, the address of a Service  *)
(* that exists does not change, unless it was deleted under a POST.        *)
(***************************************************************************)
AddressStable ==
    [][\A s \in Svcs : services[s] # NoIP /\ services'[s] # NoIP /\ s \notin reborn
            => services'[s] = services[s]]_vars

(***************************************************************************)
(* The names resolve: coredns-mini comes to answer for every Service it    *)
(* can be asked for, one without a capital letter or a dot in its name,    *)
(* with its cluster IP, and no longer answers for Services that are gone.  *)
(* A query for any other name gets no address, or the one its lower-case   *)
(* namesake has by then.                                                   *)
(***************************************************************************)
NamesFollowServices ==
    <>[](\A s \in Svcs :
            IF Lower[s] = s /\ s \notin Dotted
            THEN Answer(s) = services[s]
            ELSE Answer(s) \in {NoIP} \cup {services[t] : t \in {Lower[s]} \cap Svcs})

=============================================================================
