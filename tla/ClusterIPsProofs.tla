-------------------------- MODULE ClusterIPsProofs --------------------------
(***************************************************************************)
(* Proofs about ClusterIPs, for any number of Services, apiserver replicas,*)
(* clients and addresses, and for any length of the search the code could  *)
(* have been given.                                                        *)
(***************************************************************************)
EXTENDS ClusterIPs, FiniteSetTheorems, WellFoundedInduction, TLAPS

\* The search never leaves the cursor at 0.
CursorPositive == cursor \in [Servers -> 1 .. Modulus - 1]

RequestsPlaced ==
    \A c \in Clients : req[c].at # "idle" => req[c].svc \in Svcs /\ req[c].srv \in Servers

\* An UPDATE that is about to be made writes the address the row has, unless the
\* Service was deleted under it.
UpdatingKeeps ==
    \A c \in Clients : req[c].at = "updating" /\ req[c].svc \notin reborn
        => req[c].ip # NoIP /\ services[req[c].svc] = req[c].ip

InUse == {services[s] : s \in Svcs} \ {NoIP}

\* The POSTs that may yet create a Service with an address of their own.
MayCreate(c) ==
    /\ req[c].at \in {"allocating", "upserting", "inserting", "updating"}
    /\ services[req[c].svc] = NoIP

\* Where nobody raced there is one of them at most, its list is current and its
\* address is nobody's.
FreshAddresses ==
    UseLoop /\ ~raced /\ reborn = {} => \A c \in Clients : MayCreate(c) =>
        /\ req[c].at = "allocating" => InUse \subseteq req[c].taken
        /\ req[c].at \in {"upserting", "inserting"} => req[c].ip \notin InUse
        /\ \A d \in Clients \ {c} : ~MayCreate(d)

\* The addresses a failed search went over are behind the cursor, and none of
\* them was free.
RefusalsBehind ==
    \A v \in Servers : refusals[v] # {} =>
        \A j \in 1 .. Tries : Around(cursor[v], j - Tries) \notin refusals[v]

IPInv ==
    /\ TypeOK /\ CursorPositive /\ RequestsPlaced /\ UpdatingKeeps
    /\ DistinctUnlessRaced /\ FreshAddresses /\ RefusalsBehind


-----------------------------------------------------------------------------
(* Induction, in the form of a set that is closed under successor. *)

\* A set of naturals has a least element.
LEMMA Least ==
    ASSUME NEW T, T \subseteq Nat, T # {}
    PROVE  \E m \in T : \A k \in T : m <= k
<1> DEFINE R == {ss \in Nat \X Nat : ss[1] < ss[2]}
<1>1. IsWellFoundedOn(R, Nat)
    BY NatLessThanWellFounded, Zenon DEF OpToRel
<1>2. \A x, y \in Nat : x < y => <<x, y>> \in R
    OBVIOUS
<1> HIDE DEF R
<1>3. PICK x \in T : \A y \in T : ~ (<<y, x>> \in R)
    BY <1>1, WFMin
<1>4. ASSUME NEW k \in T PROVE x <= k
    <2>1. x \in Nat /\ k \in Nat
        OBVIOUS
    <2>2. ~ (k < x)
        BY <1>2, <1>3, <2>1
    <2> QED BY <2>1, <2>2
<1> QED BY <1>4

LEMMA Induction ==
    ASSUME NEW T, 0 \in T, \A n \in Nat : n \in T => n + 1 \in T
    PROVE  \A n \in Nat : n \in T
<1> SUFFICES ASSUME Nat \ T # {} PROVE FALSE
    OBVIOUS
<1>1. PICK m \in Nat \ T : \A k \in Nat \ T : m <= k
    BY Least
<1>2. m # 0 /\ m - 1 \in Nat /\ m = (m - 1) + 1
    BY <1>1
<1>3. m - 1 \in T
    BY <1>1, <1>2
<1> QED BY <1>2, <1>3

-----------------------------------------------------------------------------
(* Remainders. *)

\* What makes r the remainder of a.
LEMMA ModUnique ==
    ASSUME NEW m \in Nat, m > 0, NEW a \in Int, NEW q \in Int, NEW r \in 0 .. m - 1,
           a = m * q + r
    PROVE  a % m = r
OBVIOUS

LEMMA DivMod ==
    ASSUME NEW m \in Nat, m > 0, NEW a \in Int
    PROVE  a % m \in 0 .. m - 1 /\ \E q \in Int : a = m * q + (a % m)
<1>1. a % m \in 0 .. m - 1
    OBVIOUS
<1>2. a \div m \in Int /\ a = m * (a \div m) + (a % m)
    OBVIOUS
<1> QED BY <1>1, <1>2

\* A remainder taken before an addition makes no difference.
LEMMA ModAdd ==
    ASSUME NEW m \in Nat, m > 0, NEW a \in Int, NEW b \in Int
    PROVE  ((a % m) + b) % m = (a + b) % m
<1>1. PICK q \in Int : a = m * q + (a % m)
    BY DivMod
<1> DEFINE r == a % m
<1>2. r \in 0 .. m - 1 /\ a = m * q + r
    BY <1>1, DivMod
<1> HIDE DEF r
<1>3. r + b \in Int
    BY <1>2
<1> DEFINE t == (r + b) % m
<1>4. PICK p \in Int : r + b = m * p + t
    BY <1>3, DivMod
<1>5. t \in 0 .. m - 1
    BY <1>3, DivMod
<1> HIDE DEF t
<1>6. a + b = m * (q + p) + t
    <2>1. m * (q + p) = m * q + m * p /\ m * q \in Int /\ m * p \in Int
        OBVIOUS
    <2> QED BY <1>2, <1>4, <1>5, <2>1
<1>7. (a + b) % m = t
    <2>1. a + b \in Int /\ q + p \in Int
        OBVIOUS
    <2> QED BY <1>5, <1>6, <2>1, ModUnique
<1> QED BY <1>7 DEF t, r

LEMMA ModNext ==
    ASSUME NEW m \in Nat, m > 0, NEW a \in Int
    PROVE  (a + 1) % m = IF a % m = m - 1 THEN 0 ELSE (a % m) + 1
<1> DEFINE r == a % m
<1>1. r \in 0 .. m - 1
    BY DivMod
<1>2. (a + 1) % m = (r + 1) % m
    BY ModAdd
<1> HIDE DEF r
<1>3. (r + 1) % m = IF r = m - 1 THEN 0 ELSE r + 1
    <2>1. CASE r = m - 1
        <3>1. r + 1 = m * 1 + 0 /\ 0 \in 0 .. m - 1
            BY <1>1, <2>1
        <3>2. (r + 1) % m = 0
            BY <1>1, <3>1, ModUnique
        <3> QED BY <2>1, <3>2
    <2>2. CASE r # m - 1
        <3>1. r + 1 = m * 0 + (r + 1) /\ r + 1 \in 0 .. m - 1
            BY <1>1, <2>2
        <3>2. (r + 1) % m = r + 1
            BY <1>1, <3>1, ModUnique
        <3> QED BY <2>2, <3>2
    <2> QED BY <2>1, <2>2
<1> QED BY <1>2, <1>3 DEF r

-----------------------------------------------------------------------------
(* The search. *)

LEMMA PoolSize == Cardinality(Pool) = Modulus - 2 /\ Modulus - 2 \in Nat /\ Modulus - 2 > 0
<1>1. 2 \in Int /\ Modulus - 1 \in Int /\ Modulus > 2 /\ Modulus \in Nat
    BY ModulusAssumption
<1>2. Cardinality(2 .. Modulus - 1) = IF 2 > Modulus - 1 THEN 0 ELSE (Modulus - 1) - 2 + 1
    BY <1>1, FS_Interval
<1> QED BY <1>1, <1>2 DEF Pool

LEMMA AdvanceIs ==
    ASSUME NEW n \in 1 .. Modulus - 1
    PROVE  Advance(n) = IF n = Modulus - 1 THEN 2 ELSE n + 1
<1>1. (n + 1) % Modulus = IF n = Modulus - 1 THEN 0 ELSE n + 1
    BY ModulusAssumption
<1> QED BY <1>1 DEF Advance

LEMMA AroundIs ==
    ASSUME NEW n \in 1 .. Modulus - 1, NEW k \in Int
    PROVE  /\ Around(n, k) \in Pool
           /\ Around(n, k + 1) = Advance(Around(n, k))
           /\ Around(n, 1) = Advance(n)
<1> DEFINE m == Modulus - 2
           a == n - 2 + k
<1>1. m \in Nat /\ m > 0 /\ a \in Int /\ n - 2 \in Int /\ Modulus \in Nat /\ Modulus > 2
    BY PoolSize, ModulusAssumption
<1>2. /\ Around(n, k) = 2 + (a % m)
      /\ Around(n, k + 1) = 2 + ((a + 1) % m)
      /\ Around(n, 1) = 2 + ((n - 2 + 1) % m)
    <2>1. n - 2 + (k + 1) = a + 1
        BY <1>1
    <2> HIDE DEF a
    <2> QED BY <2>1, PoolSize DEF Around, a
<1>3. a % m \in 0 .. m - 1
    BY <1>1, DivMod
<1>4. (a + 1) % m = IF a % m = m - 1 THEN 0 ELSE (a % m) + 1
    BY <1>1, ModNext
<1> DEFINE r == a % m
<1>5. r \in 0 .. m - 1 /\ Around(n, k) = 2 + r
      /\ Around(n, k + 1) = 2 + (IF r = m - 1 THEN 0 ELSE r + 1)
    BY <1>2, <1>3, <1>4
<1> HIDE DEF r, a
<1>6. Around(n, k) \in Pool
    BY <1>1, <1>5 DEF Pool
<1>7. Around(n, k + 1) = Advance(Around(n, k))
    <2>1. Around(n, k) \in 1 .. Modulus - 1
        BY <1>1, <1>6 DEF Pool
    <2> QED BY <1>1, <1>5, <2>1, AdvanceIs
<1>8. Around(n, 1) = Advance(n)
    <2>1. CASE n = 1
        <3>1. n - 2 + 1 = m * 0 + 0 /\ 0 \in 0 .. m - 1 /\ 0 \in Int
            BY <1>1, <2>1
        <3>2. (n - 2 + 1) % m = 0
            BY <1>1, <3>1, ModUnique
        <3>3. Advance(n) = 2
            BY <1>1, <2>1, AdvanceIs
        <3> QED BY <1>2, <3>2, <3>3
    <2>2. CASE n # 1
        <3>1. n - 2 = m * 0 + (n - 2) /\ n - 2 \in 0 .. m - 1
            BY <1>1, <2>2
        <3>2. (n - 2) % m = n - 2
            BY <1>1, <3>1, ModUnique
        <3>3. (n - 2 + 1) % m = IF n - 2 = m - 1 THEN 0 ELSE n - 2 + 1
            BY <1>1, <3>2, ModNext
        <3>4. Advance(n) = IF n = Modulus - 1 THEN 2 ELSE n + 1
            BY AdvanceIs
        <3> QED BY <1>1, <1>2, <3>3, <3>4
    <2> QED BY <2>1, <2>2
<1> QED BY <1>6, <1>7, <1>8

\* The loop goes around the pool.
LEMMA TriedIs ==
    ASSUME NEW n \in 1 .. Modulus - 1
    PROVE  Tried(n) = [k \in 0 .. Tries |-> IF k = 0 THEN n ELSE Around(n, k)]
<1> DEFINE Loop(f) == f = [k \in 0 .. Tries |-> IF k = 0 THEN n ELSE Advance(f[k - 1])]
           W == [k \in 0 .. Tries |-> IF k = 0 THEN n ELSE Around(n, k)]
<1>1. Tried(n) = CHOOSE f : Loop(f)
    BY DEF Tried
<1>2. Loop(W)
    <2>1. ASSUME NEW k \in 0 .. Tries, k # 0
          PROVE  Around(n, k) = Advance(W[k - 1])
        <3>1. k - 1 \in 0 .. Tries /\ k - 1 \in Int /\ k = (k - 1) + 1
            BY <2>1, TriesAssumption
        <3>2. CASE k - 1 = 0
            BY <3>1, <3>2, AroundIs
        <3>3. CASE k - 1 # 0
            BY <3>1, <3>3, AroundIs
        <3> QED BY <3>2, <3>3
    <2> QED BY <2>1
<1>3. ASSUME NEW f, Loop(f) PROVE f = W
    <2> DEFINE T == {k \in Nat : k \in 0 .. Tries => f[k] = W[k]}
    <2> HIDE DEF W
    <2>1. Loop(f) /\ Loop(W)
        BY <1>2, <1>3
    <2>2. 0 \in T
        BY <2>1, TriesAssumption
    <2>3. ASSUME NEW k \in Nat, k \in T PROVE k + 1 \in T
        <3>1. k + 1 \in 0 .. Tries => k \in 0 .. Tries /\ (k + 1) - 1 = k /\ k + 1 # 0
            BY TriesAssumption
        <3>2. k \in 0 .. Tries => f[k] = W[k]
            BY <2>3
        <3>3. k + 1 \in 0 .. Tries => f[k + 1] = Advance(f[k]) /\ W[k + 1] = Advance(W[k])
            BY <2>1, <3>1
        <3> QED BY <3>1, <3>2, <3>3
    <2>4. \A k \in Nat : k \in T
        <3> HIDE DEF T
        <3> QED BY <2>2, <2>3, Induction
    <2>5. \A k \in 0 .. Tries : f[k] = W[k]
        BY <2>4, TriesAssumption
    <2> QED BY <2>1, <2>5
<1> HIDE DEF Loop, W
<1>4. Tried(n) = W
    BY <1>1, <1>2, <1>3
<1> QED BY <1>4 DEF W


\* alloc, by its reference definition.
LEMMA SearchIs ==
    ASSUME NEW n \in 1 .. Modulus - 1, NEW taken,
           NEW near, near = {k \in 1 .. Tries : Around(n, k) \notin taken}
    PROVE  IF near = {} THEN Search(n, taken) = [ip |-> NoIP, next |-> Around(n, Tries)]
           ELSE \E k \in near :
                /\ \A j \in near : k <= j
                /\ Search(n, taken) = [ip |-> Around(n, k), next |-> Around(n, k)]
<1> DEFINE tried == Tried(n)
           free == {k \in 1 .. Tries : tried[k] \notin taken}
           first == CHOOSE k \in free : \A j \in free : k <= j
<1>1. Tries \in Nat /\ Tries >= 1
    BY TriesAssumption
<1>2. \A k \in 1 .. Tries : tried[k] = Around(n, k)
    BY <1>1, TriedIs
<1>3. Search(n, taken) = IF free = {} THEN [ip |-> NoIP, next |-> tried[Tries]]
                         ELSE [ip |-> tried[first], next |-> tried[first]]
    BY DEF Search
<1> HIDE DEF tried
<1>4. free = near
    BY <1>2
<1>5. CASE near = {}
    <2>1. tried[Tries] = Around(n, Tries)
        BY <1>1, <1>2
    <2> QED BY <1>3, <1>4, <1>5, <2>1
<1>6. CASE near # {}
    <2>1. near \subseteq Nat
        BY <1>1
    <2>2. first \in near /\ \A j \in near : first <= j
        <3>1. \E k \in free : \A j \in free : k <= j
            BY <1>4, <1>6, <2>1, Least
        <3> QED BY <1>4, <3>1
    <2>3. tried[first] = Around(n, first)
        BY <1>2, <2>2
    <2> HIDE DEF first, free
    <2> QED BY <1>3, <1>4, <1>6, <2>2, <2>3
<1> QED BY <1>5, <1>6

\* What it returns and where it leaves the cursor.
LEMMA SearchReturns ==
    ASSUME NEW n \in 1 .. Modulus - 1, NEW taken
    PROVE  LET found == Search(n, taken)
           IN /\ found.next \in Pool
              /\ found.ip = NoIP => /\ found.next = Around(n, Tries)
                                    /\ \A k \in 1 .. Tries : Around(n, k) \in taken
              /\ found.ip # NoIP => found.ip \in Pool /\ found.ip \notin taken
<1> DEFINE near == {k \in 1 .. Tries : Around(n, k) \notin taken}
<1>1. IF near = {} THEN Search(n, taken) = [ip |-> NoIP, next |-> Around(n, Tries)]
      ELSE \E k \in near :
            /\ \A j \in near : k <= j
            /\ Search(n, taken) = [ip |-> Around(n, k), next |-> Around(n, k)]
    BY SearchIs
<1>2. \A k \in 1 .. Tries : Around(n, k) \in Pool /\ Around(n, k) # NoIP
    <2>1. \A k \in 1 .. Tries : k \in Int
        OBVIOUS
    <2>2. NoIP \notin Pool
        BY NoIPAssumption, ModulusAssumption DEF Pool
    <2> QED BY <2>1, <2>2, AroundIs
<1>3. Tries \in 1 .. Tries
    BY TriesAssumption
<1> QED BY <1>1, <1>2, <1>3

-----------------------------------------------------------------------------
(* Types and requests. *)

LEMMA NoReqIs ==
    /\ NoReq \in [at : {"idle", "listing", "allocating", "upserting", "inserting", "updating"},
                  srv : Servers \cup {NoServer}, svc : Svcs \cup {NoSvc},
                  ip : Addrs \cup {NoIP}, taken : SUBSET Addrs]
    /\ NoReq.at = "idle"
    /\ NoIP \notin Addrs /\ Loopback \in Addrs /\ Loopback # NoIP /\ Pool \subseteq Addrs
BY NoIPAssumption, ModulusAssumption DEF NoReq, Addrs, Pool, Loopback

\* An allocation: the address it found, if it did, and what it leaves.
LEMMA AllocateDoes ==
    ASSUME TypeOK, CursorPositive, RequestsPlaced, NEW c \in Clients, Allocate(c)
    PROVE  LET v == req[c].srv
               found == Search(cursor[v], req[c].taken)
           IN /\ v \in Servers /\ cursor[v] \in 1 .. Modulus - 1
              /\ found.next \in Pool
              /\ UNCHANGED <<services, names, requests, raced, reborn>>
              /\ \/ /\ ~UseLoop
                    /\ cursor' = cursor
                    /\ req' = [req EXCEPT ![c] =
                                [req[c] EXCEPT !.at = "upserting", !.ip = Loopback, !.taken = {}]]
                    /\ refusals' = [refusals EXCEPT ![v] = {}]
                 \/ /\ UseLoop /\ found.ip \in Pool /\ found.ip \notin req[c].taken
                    /\ cursor' = [cursor EXCEPT ![v] = found.next]
                    /\ req' = [req EXCEPT ![c] =
                                [req[c] EXCEPT !.at = "upserting", !.ip = found.ip, !.taken = {}]]
                    /\ refusals' = [refusals EXCEPT ![v] = {}]
                 \/ /\ UseLoop /\ found.next = Around(cursor[v], Tries)
                    /\ \A k \in 1 .. Tries : Around(cursor[v], k) \in req[c].taken
                    /\ cursor' = [cursor EXCEPT ![v] = found.next]
                    /\ req' = [req EXCEPT ![c] = NoReq]
                    /\ refusals' = [refusals EXCEPT ![v] = Pool \ req[c].taken]
<1> DEFINE v == req[c].srv
           found == Search(cursor[v], req[c].taken)
           ip == IF UseLoop THEN found.ip ELSE Loopback
<1>1. v \in Servers /\ cursor[v] \in 1 .. Modulus - 1
    BY DEF Allocate, RequestsPlaced, CursorPositive
<1>2. /\ found.next \in Pool
      /\ found.ip = NoIP => /\ found.next = Around(cursor[v], Tries)
                            /\ \A k \in 1 .. Tries : Around(cursor[v], k) \in req[c].taken
      /\ found.ip # NoIP => found.ip \in Pool /\ found.ip \notin req[c].taken
    BY <1>1, SearchReturns
<1>3. /\ cursor' = IF UseLoop THEN [cursor EXCEPT ![v] = found.next] ELSE cursor
      /\ req' = [req EXCEPT ![c] = IF ip = NoIP THEN NoReq
                        ELSE [req[c] EXCEPT !.at = "upserting", !.ip = ip, !.taken = {}]]
      /\ refusals' = [refusals EXCEPT ![v] = IF ip = NoIP THEN Pool \ req[c].taken ELSE {}]
      /\ UNCHANGED <<services, names, requests, raced, reborn>>
    BY DEF Allocate
<1> HIDE DEF found, v
<1>4. CASE ~UseLoop
    BY <1>1, <1>2, <1>3, <1>4, NoReqIs DEF v, found
<1>5. CASE UseLoop /\ found.ip # NoIP
    BY <1>1, <1>2, <1>3, <1>5 DEF v, found
<1>6. CASE UseLoop /\ found.ip = NoIP
    BY <1>1, <1>2, <1>3, <1>6 DEF v, found
<1> QED BY <1>4, <1>5, <1>6

LEMMA TypeInductive ==
    TypeOK /\ CursorPositive /\ RequestsPlaced /\ [Next]_vars
        => TypeOK' /\ CursorPositive' /\ RequestsPlaced'
<1> DEFINE Goal == TypeOK' /\ CursorPositive' /\ RequestsPlaced'
           Reqs == [at : {"idle", "listing", "allocating", "upserting", "inserting", "updating"},
                    srv : Servers \cup {NoServer}, svc : Svcs \cup {NoSvc},
                    ip : Addrs \cup {NoIP}, taken : SUBSET Addrs]
<1> SUFFICES ASSUME TypeOK, CursorPositive, RequestsPlaced, [Next]_vars PROVE Goal
    OBVIOUS
\* A step that changes one request.
<1>1. ASSUME NEW c \in Clients, NEW r \in Reqs, r.at = "idle" \/ (r.svc \in Svcs /\ r.srv \in Servers),
             req' = [req EXCEPT ![c] = r]
      PROVE  req' \in [Clients -> Reqs] /\ RequestsPlaced'
    <2>1. req' \in [Clients -> Reqs]
        BY <1>1 DEF TypeOK
    <2>2. \A d \in Clients : req'[d] = IF d = c THEN r ELSE req[d]
        BY <1>1 DEF TypeOK
    <2> HIDE DEF Reqs
    <2> QED BY <1>1, <2>1, <2>2 DEF RequestsPlaced
<1>2. ASSUME services' \in [Svcs -> Addrs \cup {NoIP}], cursor' \in [Servers -> 1 .. Modulus - 1],
             req' \in [Clients -> Reqs], names' \in [Svcs -> Addrs \cup {NoIP}],
             requests' \in 0 .. MaxRequests, refusals' \in [Servers -> SUBSET Pool],
             raced' \in BOOLEAN, reborn' \in SUBSET Svcs
      PROVE  TypeOK' /\ CursorPositive'
    BY <1>2, ModulusAssumption DEF TypeOK, CursorPositive
<1>3. /\ services \in [Svcs -> Addrs \cup {NoIP}] /\ cursor \in [Servers -> 1 .. Modulus - 1]
      /\ req \in [Clients -> Reqs] /\ names \in [Svcs -> Addrs \cup {NoIP}]
      /\ requests \in 0 .. MaxRequests /\ refusals \in [Servers -> SUBSET Pool]
      /\ raced \in BOOLEAN /\ reborn \in SUBSET Svcs
    BY DEF TypeOK, CursorPositive
<1>4. Request => requests' \in 0 .. MaxRequests
    BY <1>3, MaxRequestsAssumption DEF Request
<1>5. ASSUME NEW c \in Clients, NEW v \in Servers, NEW s \in Svcs, NEW want \in Wanted \cup {NoIP},
             Post(c, v, s, want) \/ PostReadFails(c, v, s, want)
      PROVE  Goal
    <2>1. PICK existing \in Addrs \cup {NoIP} : Decide(c, v, s, want, existing)
        BY <1>3, <1>5 DEF Post, PostReadFails
    <2> DEFINE at == IF existing = NoIP /\ want = NoIP THEN "listing" ELSE "upserting"
               ip == IF existing # NoIP THEN existing ELSE want
               r == [at |-> at, srv |-> v, svc |-> s, ip |-> ip, taken |-> {}]
    <2>2. req' = [req EXCEPT ![c] = r] /\ raced' = (raced \/ want # NoIP)
        BY <2>1 DEF Decide
    <2>3. ip \in Addrs \cup {NoIP}
        BY WantedAssumption DEF Addrs, Pool
    <2>4. r \in Reqs /\ r.svc \in Svcs /\ r.srv \in Servers
        BY <2>3
    <2>5. req' \in [Clients -> Reqs] /\ RequestsPlaced'
        <3> HIDE DEF r, Reqs
        <3> QED BY <1>1, <2>2, <2>4
    <2>6. raced' \in BOOLEAN
        BY <2>2, Zenon
    <2>7. UNCHANGED <<services, cursor, names, refusals, reborn>> /\ Request
        BY <1>5 DEF Post, PostReadFails
    <2> HIDE DEF Reqs
    <2> QED BY <1>2, <1>3, <1>4, <2>5, <2>6, <2>7
<1>6. ASSUME NEW c \in Clients, ListTaken(c) \/ ListTakenFails(c) PROVE Goal
    <2> DEFINE got == IF ListTaken(c) THEN InUse ELSE req[c].taken
               r == [req[c] EXCEPT !.at = "allocating", !.taken = got]
    <2>1. req' = [req EXCEPT ![c] = r] /\ req[c].at = "listing"
          /\ UNCHANGED <<services, cursor, names, requests, refusals, reborn>>
        <3>1. CASE ListTaken(c)
            BY <3>1 DEF ListTaken, InUse
        <3>2. CASE ~ListTaken(c)
            BY <1>3, <1>6, <3>2 DEF ListTakenFails
        <3> QED BY <3>1, <3>2
    <2>2. got \in SUBSET Addrs
        BY <1>3 DEF InUse
    <2> HIDE DEF got
    <2>3. req[c].svc \in Svcs /\ req[c].srv \in Servers
        BY <2>1 DEF RequestsPlaced
    <2>4. r \in Reqs /\ r.svc \in Svcs /\ r.srv \in Servers
        BY <1>3, <2>2, <2>3
    <2>5. req' \in [Clients -> Reqs] /\ RequestsPlaced'
        <3> HIDE DEF r, Reqs
        <3> QED BY <1>1, <2>1, <2>4
    <2>6. raced' = TRUE \/ raced' = (raced \/ Overlaps(c))
        BY <1>6 DEF ListTaken, ListTakenFails
    <2>7. raced' \in BOOLEAN
        BY <2>6, Zenon
    <2> HIDE DEF Reqs
    <2> QED BY <1>2, <1>3, <2>1, <2>5, <2>7
<1>7. ASSUME NEW c \in Clients, Allocate(c) PROVE Goal
    <2> DEFINE v == req[c].srv
               found == Search(cursor[v], req[c].taken)
    <2>1. /\ v \in Servers /\ found.next \in Pool
          /\ UNCHANGED <<services, names, requests, raced, reborn>>
          /\ cursor' = cursor \/ cursor' = [cursor EXCEPT ![v] = found.next]
          /\ refusals' = [refusals EXCEPT ![v] = {}]
             \/ refusals' = [refusals EXCEPT ![v] = Pool \ req[c].taken]
          /\ \/ req' = [req EXCEPT ![c] = NoReq]
             \/ \E ip \in Addrs : req' = [req EXCEPT ![c] =
                    [req[c] EXCEPT !.at = "upserting", !.ip = ip, !.taken = {}]]
        BY <1>7, AllocateDoes, NoReqIs
    <2> HIDE DEF found, v
    <2>2. cursor' \in [Servers -> 1 .. Modulus - 1]
        <3> DEFINE next == found.next
        <3>1. next \in 1 .. Modulus - 1
            <4>1. \A x \in Pool : x \in 1 .. Modulus - 1
                BY ModulusAssumption DEF Pool
            <4> QED BY <2>1, <4>1
        <3> HIDE DEF next
        <3>2. CASE cursor' = cursor
            BY <1>3, <3>2
        <3>3. CASE cursor' = [cursor EXCEPT ![v] = next]
            BY <1>3, <2>1, <3>1, <3>3
        <3> QED BY <2>1, <3>2, <3>3 DEF next
    <2>3. refusals' \in [Servers -> SUBSET Pool]
        BY <1>3, <2>1
    <2>4. req[c].svc \in Svcs /\ req[c].srv \in Servers
        BY <1>7 DEF RequestsPlaced, Allocate
    <2>5. req' \in [Clients -> Reqs] /\ RequestsPlaced'
        <3>1. CASE req' = [req EXCEPT ![c] = NoReq]
            BY <1>1, <3>1, NoReqIs
        <3>2. ASSUME NEW ip \in Addrs, req' = [req EXCEPT ![c] =
                    [req[c] EXCEPT !.at = "upserting", !.ip = ip, !.taken = {}]]
              PROVE  req' \in [Clients -> Reqs] /\ RequestsPlaced'
            <4> DEFINE r == [req[c] EXCEPT !.at = "upserting", !.ip = ip, !.taken = {}]
            <4>1. r \in Reqs /\ r.svc \in Svcs /\ r.srv \in Servers
                BY <1>3, <2>4
            <4> HIDE DEF r, Reqs
            <4> QED BY <1>1, <3>2, <4>1 DEF r
        <3> QED BY <2>1, <3>1, <3>2
    <2> HIDE DEF Reqs
    <2> QED BY <1>2, <1>3, <2>1, <2>2, <2>3, <2>5
<1>8. ASSUME NEW c \in Clients, UpsertRead(c) PROVE Goal
    <2> DEFINE existing == services[req[c].svc]
               r == IF existing # NoIP THEN [req[c] EXCEPT !.at = "updating", !.ip = existing]
                    ELSE [req[c] EXCEPT !.at = "inserting"]
    <2>1. req' = [req EXCEPT ![c] = r] /\ req[c].at = "upserting"
          /\ UNCHANGED <<services, cursor, names, requests, refusals, raced, reborn>>
        BY <1>8 DEF UpsertRead
    <2>2. req[c].svc \in Svcs /\ req[c].srv \in Servers
        BY <2>1 DEF RequestsPlaced
    <2>3. existing \in Addrs \cup {NoIP}
        BY <1>3, <2>2
    <2> HIDE DEF existing
    <2>4. r \in Reqs /\ r.svc \in Svcs /\ r.srv \in Servers
        BY <1>3, <2>2, <2>3
    <2> HIDE DEF r, Reqs
    <2> QED BY <1>1, <1>2, <1>3, <2>1, <2>4
<1>9. ASSUME NEW c \in Clients, Insert(c) \/ Update(c) \/ UpsertFails(c) PROVE Goal
    <2>1. req' = [req EXCEPT ![c] = NoReq]
          /\ UNCHANGED <<cursor, names, requests, refusals, raced, reborn>>
        BY <1>9 DEF Insert, Update, UpsertFails
    <2>2. services' \in [Svcs -> Addrs \cup {NoIP}]
        BY <1>3, <1>9 DEF Insert, Update, UpsertFails
    <2>3. req' \in [Clients -> Reqs] /\ RequestsPlaced'
        BY <1>1, <2>1, NoReqIs
    <2> HIDE DEF Reqs
    <2> QED BY <1>2, <1>3, <2>1, <2>2, <2>3
<1>10. ASSUME NEW s \in Svcs, Delete(s) PROVE Goal
    <2>1. services' = [services EXCEPT ![s] = NoIP] /\ reborn' \subseteq reborn \cup {s}
        BY <1>10 DEF Delete
    <2>2. UNCHANGED <<cursor, req, names, refusals, raced>> /\ Request
        BY <1>10 DEF Delete
    <2>3. services' \in [Svcs -> Addrs \cup {NoIP}] /\ reborn' \in SUBSET Svcs
        BY <1>3, <2>1
    <2> HIDE DEF Reqs
    <2> QED BY <1>2, <1>3, <1>4, <2>2, <2>3 DEF RequestsPlaced
<1>11. ASSUME NEW v \in Servers, ServerRestart(v) PROVE Goal
    <2>1. UNCHANGED <<services, names, raced, reborn>> /\ Request
          /\ req' = [c \in Clients |-> IF req[c].srv = v THEN NoReq ELSE req[c]]
          /\ cursor' = [cursor EXCEPT ![v] = 1] /\ refusals' = [refusals EXCEPT ![v] = {}]
        BY <1>11 DEF ServerRestart
    <2>2. cursor' \in [Servers -> 1 .. Modulus - 1] /\ refusals' \in [Servers -> SUBSET Pool]
        BY <1>3, <2>1, ModulusAssumption
    <2>3. req' \in [Clients -> Reqs] /\ RequestsPlaced'
        <3> HIDE DEF Reqs
        <3>1. NoReq \in Reqs /\ NoReq.at = "idle"
            BY NoReqIs DEF Reqs
        <3> QED BY <1>3, <2>1, <3>1 DEF RequestsPlaced
    <2> HIDE DEF Reqs
    <2> QED BY <1>2, <1>3, <1>4, <2>1, <2>2, <2>3
<1>12. CASE Refresh
    <2> HIDE DEF Reqs
    <2> QED BY <1>2, <1>3, <1>12 DEF Refresh, RequestsPlaced
<1>13. CASE UNCHANGED vars
    <2> HIDE DEF Reqs
    <2> QED BY <1>2, <1>3, <1>13 DEF vars, RequestsPlaced
<1> QED BY <1>5, <1>6, <1>7, <1>8, <1>9, <1>10, <1>11, <1>12, <1>13 DEF Next

-----------------------------------------------------------------------------
(* The address of a row that exists. *)

LEMMA UpdatingInductive ==
    TypeOK /\ RequestsPlaced /\ CursorPositive /\ UpdatingKeeps /\ [Next]_vars
        => /\ UpdatingKeeps'
           /\ \A s \in Svcs : services[s] # NoIP /\ services'[s] # NoIP /\ s \notin reborn
                => services'[s] = services[s]
<1> DEFINE Stable == \A s \in Svcs : services[s] # NoIP /\ services'[s] # NoIP /\ s \notin reborn
                        => services'[s] = services[s]
           Goal == UpdatingKeeps' /\ Stable
<1> SUFFICES ASSUME TypeOK, RequestsPlaced, CursorPositive, UpdatingKeeps, [Next]_vars PROVE Goal
    OBVIOUS
<1>1. ASSUME UNCHANGED <<services, reborn>>,
             \A d \in Clients : req'[d] = req[d] \/ req'[d].at # "updating"
      PROVE  Goal
    BY <1>1 DEF UpdatingKeeps
<1>2. ASSUME NEW c \in Clients,
             \/ \E v \in Servers, s \in Svcs, want \in Wanted \cup {NoIP} :
                    Post(c, v, s, want) \/ PostReadFails(c, v, s, want)
             \/ ListTaken(c) \/ ListTakenFails(c)
      PROVE  Goal
    <2>1. UNCHANGED <<services, reborn>>
        BY <1>2 DEF Post, PostReadFails, ListTaken, ListTakenFails
    <2>2. \A d \in Clients : req'[d] = req[d] \/ req'[d].at # "updating"
        BY <1>2 DEF TypeOK, Post, PostReadFails, Decide, ListTaken, ListTakenFails
    <2> QED BY <1>1, <2>1, <2>2
<1>3. ASSUME NEW c \in Clients, Allocate(c) PROVE Goal
    <2>1. UNCHANGED <<services, reborn>>
        BY <1>3 DEF Allocate
    <2>2. \A d \in Clients : req'[d] = req[d] \/ req'[d].at # "updating"
        <3>1. \/ req' = [req EXCEPT ![c] = NoReq]
              \/ \E ip \in Addrs : req' = [req EXCEPT ![c] =
                    [req[c] EXCEPT !.at = "upserting", !.ip = ip, !.taken = {}]]
            BY <1>3, AllocateDoes, NoReqIs
        <3>2. CASE req' = [req EXCEPT ![c] = NoReq]
            BY <3>2, NoReqIs DEF TypeOK
        <3>3. ASSUME NEW ip \in Addrs, req' = [req EXCEPT ![c] =
                    [req[c] EXCEPT !.at = "upserting", !.ip = ip, !.taken = {}]]
              PROVE  \A d \in Clients : req'[d] = req[d] \/ req'[d].at # "updating"
            BY <3>3 DEF TypeOK
        <3> QED BY <3>1, <3>2, <3>3
    <2> QED BY <1>1, <2>1, <2>2
<1>4. ASSUME NEW c \in Clients, UpsertRead(c) PROVE Goal
    <2> DEFINE existing == services[req[c].svc]
    <2>1. /\ UNCHANGED <<services, reborn>> /\ req'[c].svc = req[c].svc
          /\ req'[c].at = "updating" => existing # NoIP /\ req'[c].ip = existing
          /\ \A d \in Clients \ {c} : req'[d] = req[d]
        BY <1>4 DEF UpsertRead, TypeOK
    <2> QED BY <2>1 DEF UpdatingKeeps
<1>5. ASSUME NEW c \in Clients, Insert(c) \/ Update(c) \/ UpsertFails(c) PROVE Goal
    <2> DEFINE s == req[c].svc
    <2>1. /\ reborn' = reborn /\ req' = [req EXCEPT ![c] = NoReq]
          /\ req[c].at \in {"upserting", "inserting", "updating"}
        BY <1>5 DEF Insert, Update, UpsertFails
    <2>2. s \in Svcs
        BY <2>1 DEF RequestsPlaced
    <2>3. \A d \in Clients : req'[d] = req[d] \/ req'[d].at # "updating"
        BY <2>1, NoReqIs DEF TypeOK
    <2>4. \A x \in Svcs : services[x] # NoIP /\ x \notin reborn => services'[x] = services[x]
        <3>1. CASE services' = services
            BY <3>1
        <3>2. CASE services' # services
            <4>1. \/ services[s] = NoIP /\ services' = [services EXCEPT ![s] = req[c].ip]
                  \/ req[c].at = "updating" /\ services' = [services EXCEPT ![s] = req[c].ip]
                BY <1>5, <3>2 DEF Insert, Update, UpsertFails
            <4>2. ASSUME NEW x \in Svcs, services[x] # NoIP, x \notin reborn
                  PROVE  services'[x] = services[x]
                <5>1. CASE x = s
                    BY <2>2, <4>1, <4>2, <5>1 DEF UpdatingKeeps, TypeOK
                <5>2. CASE x # s
                    BY <2>2, <4>1, <4>2, <5>2 DEF TypeOK
                <5> QED BY <5>1, <5>2
            <4> QED BY <4>2
        <3> QED BY <3>1, <3>2
    <2>5. UpdatingKeeps'
        <3>1. ASSUME NEW d \in Clients, req'[d].at = "updating", req'[d].svc \notin reborn
              PROVE  req'[d].ip # NoIP /\ services'[req'[d].svc] = req'[d].ip
            <4>1. req'[d] = req[d]
                BY <2>3, <3>1
            <4>2. /\ req[d].svc \in Svcs /\ req[d].svc \notin reborn
                  /\ req[d].ip # NoIP /\ services[req[d].svc] = req[d].ip
                BY <3>1, <4>1 DEF RequestsPlaced, UpdatingKeeps
            <4>3. services'[req[d].svc] = services[req[d].svc]
                BY <2>4, <4>2
            <4> QED BY <4>1, <4>2, <4>3
        <3> QED BY <2>1, <3>1 DEF UpdatingKeeps
    <2> QED BY <2>4, <2>5
<1>6. ASSUME NEW s \in Svcs, Delete(s) PROVE Goal
    <2>1. req' = req /\ services' = [services EXCEPT ![s] = NoIP] /\ reborn \subseteq reborn'
          /\ ((\E c \in Clients : req[c].svc = s) => s \in reborn')
        BY <1>6 DEF Delete
    <2>2. \A x \in Svcs : services'[x] = IF x = s THEN NoIP ELSE services[x]
        BY <2>1 DEF TypeOK
    <2> QED BY <2>1, <2>2 DEF UpdatingKeeps, RequestsPlaced
<1>7. ASSUME NEW v \in Servers, ServerRestart(v) PROVE Goal
    <2>1. UNCHANGED <<services, reborn>>
          /\ req' = [c \in Clients |-> IF req[c].srv = v THEN NoReq ELSE req[c]]
        BY <1>7 DEF ServerRestart
    <2>2. \A d \in Clients : req'[d] = req[d] \/ req'[d].at # "updating"
        BY <2>1, NoReqIs
    <2> QED BY <1>1, <2>1, <2>2
<1>8. CASE Refresh \/ UNCHANGED vars
    <2>1. UNCHANGED <<services, reborn, req>>
        BY <1>8 DEF Refresh, vars
    <2> QED BY <1>1, <2>1
<1> QED BY <1>2, <1>3, <1>4, <1>5, <1>6, <1>7, <1>8 DEF Next

-----------------------------------------------------------------------------
(* Distinct addresses. *)

LEMMA FreshInductive == IPInv /\ [Next]_vars => DistinctUnlessRaced' /\ FreshAddresses'
<1> DEFINE Distinct == \A s, t \in Svcs : s # t /\ services[s] # NoIP => services[s] # services[t]
           Fresh == \A c \in Clients : MayCreate(c) =>
                        /\ req[c].at = "allocating" => InUse \subseteq req[c].taken
                        /\ req[c].at \in {"upserting", "inserting"} => req[c].ip \notin InUse
                        /\ \A d \in Clients \ {c} : ~MayCreate(d)
           Goal == Distinct' /\ Fresh'
<1> SUFFICES ASSUME IPInv, [Next]_vars, UseLoop, ~raced', reborn' = {} PROVE Goal
    BY DEF DistinctUnlessRaced, FreshAddresses
<1>1. TypeOK /\ CursorPositive /\ RequestsPlaced /\ UpdatingKeeps
    BY DEF IPInv
<1>2. ~raced /\ reborn = {}
    <2>1. CASE \E c \in Clients, v \in Servers, s \in Svcs, want \in Wanted \cup {NoIP} :
                    Post(c, v, s, want) \/ PostReadFails(c, v, s, want)
        BY <2>1 DEF Post, PostReadFails, Decide
    <2>2. CASE \E c \in Clients : ListTaken(c) \/ ListTakenFails(c)
        BY <2>2 DEF ListTaken, ListTakenFails
    <2>3. CASE \E s \in Svcs : Delete(s)
        BY <2>3 DEF Delete
    <2>4. CASE \/ \E c \in Clients : Allocate(c) \/ UpsertRead(c) \/ Insert(c) \/ Update(c)
                                     \/ UpsertFails(c)
               \/ \E v \in Servers : ServerRestart(v)
               \/ Refresh \/ UNCHANGED vars
        <3>1. UNCHANGED <<raced, reborn>>
            BY <2>4 DEF Allocate, UpsertRead, Insert, Update, UpsertFails, ServerRestart,
                Refresh, vars
        <3> QED BY <3>1
    <2> QED BY <2>1, <2>2, <2>3, <2>4 DEF Next
<1>3. Distinct /\ Fresh
    BY <1>2 DEF IPInv, DistinctUnlessRaced, FreshAddresses
\* Steps that leave the rows alone, and make no request one that may create.
<1>4. ASSUME services' = services, \A d \in Clients : req'[d] = req[d] \/ ~MayCreate(d)'
      PROVE  Goal
    <2>1. InUse' = InUse
        BY <1>4 DEF InUse
    <2>2. \A d \in Clients : MayCreate(d)' => MayCreate(d) /\ req'[d] = req[d]
        BY <1>4 DEF MayCreate
    <2>3. Fresh'
        BY <1>3, <2>1, <2>2
    <2> QED BY <1>3, <1>4, <2>3
<1>5. ASSUME NEW c \in Clients, NEW v \in Servers, NEW s \in Svcs, NEW want \in Wanted \cup {NoIP},
             Post(c, v, s, want) \/ PostReadFails(c, v, s, want)
      PROVE  Goal
    <2>1. services' = services /\ \A d \in Clients \ {c} : req'[d] = req[d]
        BY <1>1, <1>5 DEF Post, PostReadFails, Decide, TypeOK
    <2>2. want = NoIP
        BY <1>5 DEF Post, PostReadFails, Decide
    <2>3. req'[c].svc = s /\ (req'[c].at = "listing" \/ services[s] # NoIP)
        BY <1>1, <1>5, <2>2 DEF Post, PostReadFails, Decide, TypeOK
    <2>4. ~MayCreate(c)'
        BY <2>1, <2>3 DEF MayCreate
    <2> QED BY <1>4, <2>1, <2>4
<1>6. ASSUME NEW c \in Clients, ListTaken(c) \/ ListTakenFails(c) PROVE Goal
    <2>1. services' = services /\ ListTaken(c) /\ ~Overlaps(c)
        BY <1>6 DEF ListTaken, ListTakenFails
    <2>2. /\ req'[c].at = "allocating" /\ req'[c].taken = InUse
          /\ \A d \in Clients \ {c} : req'[d] = req[d]
        BY <1>1, <2>1 DEF ListTaken, TypeOK, InUse
    <2>3. \A d \in Clients \ {c} : ~MayCreate(d)'
        BY <2>1, <2>2 DEF Overlaps, MayCreate
    <2>4. InUse' = InUse
        BY <2>1 DEF InUse
    <2> QED BY <1>3, <2>1, <2>2, <2>3, <2>4
<1>7. ASSUME NEW c \in Clients, Allocate(c) PROVE Goal
    <2>1. services' = services /\ req[c].at = "allocating"
        BY <1>7 DEF Allocate
    <2>2. \/ req' = [req EXCEPT ![c] = NoReq]
          \/ \E ip \in Pool : ip \notin req[c].taken /\ req' = [req EXCEPT ![c] =
                    [req[c] EXCEPT !.at = "upserting", !.ip = ip, !.taken = {}]]
        BY <1>1, <1>7, AllocateDoes
    <2>3. CASE req' = [req EXCEPT ![c] = NoReq]
        BY <1>1, <1>4, <2>1, <2>3, NoReqIs DEF TypeOK, MayCreate
    <2>4. ASSUME NEW ip \in Pool, ip \notin req[c].taken,
                 req' = [req EXCEPT ![c] =
                    [req[c] EXCEPT !.at = "upserting", !.ip = ip, !.taken = {}]]
          PROVE  Goal
        <3>1. /\ req'[c].at = "upserting" /\ req'[c].ip = ip /\ req'[c].svc = req[c].svc
              /\ \A d \in Clients \ {c} : req'[d] = req[d]
            BY <1>1, <2>4 DEF TypeOK
        <3>2. InUse' = InUse
            BY <2>1 DEF InUse
        <3>3. \A d \in Clients : MayCreate(d)' => MayCreate(d)
            BY <2>1, <3>1 DEF MayCreate
        <3>4. Fresh'
            BY <1>3, <2>1, <2>4, <3>1, <3>2, <3>3
        <3> QED BY <1>3, <2>1, <3>4
    <2> QED BY <2>2, <2>3, <2>4
<1>8. ASSUME NEW c \in Clients, UpsertRead(c) PROVE Goal
    <2>1. services' = services /\ req[c].at = "upserting"
        BY <1>8 DEF UpsertRead
    <2>2. /\ req'[c].svc = req[c].svc
          /\ IF services[req[c].svc] # NoIP THEN req'[c].at = "updating"
             ELSE req'[c].at = "inserting" /\ req'[c].ip = req[c].ip
          /\ \A d \in Clients \ {c} : req'[d] = req[d]
        BY <1>1, <1>8 DEF UpsertRead, TypeOK
    <2>3. InUse' = InUse
        BY <2>1 DEF InUse
    <2>4. \A d \in Clients : MayCreate(d)' => MayCreate(d)
        BY <2>1, <2>2 DEF MayCreate
    <2>5. MayCreate(c)' => req'[c].at = "inserting" /\ req'[c].ip = req[c].ip
        BY <2>1, <2>2 DEF MayCreate
    <2>6. Fresh'
        BY <1>3, <2>1, <2>2, <2>3, <2>4, <2>5
    <2> QED BY <1>3, <2>1, <2>6
<1>9. ASSUME NEW c \in Clients, Insert(c) \/ Update(c) \/ UpsertFails(c) PROVE Goal
    <2> DEFINE s == req[c].svc
    <2>1. req' = [req EXCEPT ![c] = NoReq] /\ req[c].at \in {"upserting", "inserting", "updating"}
        BY <1>9 DEF Insert, Update, UpsertFails
    <2>2. s \in Svcs /\ (\A d \in Clients \ {c} : req'[d] = req[d]) /\ ~MayCreate(c)'
        BY <1>1, <2>1, NoReqIs DEF RequestsPlaced, TypeOK, MayCreate
    <2>3. CASE services' = services
        BY <1>4, <2>2, <2>3
    <2>4. CASE services' # services
        <3>1. /\ req[c].at = "inserting" /\ services[s] = NoIP
              /\ services' = [services EXCEPT ![s] = req[c].ip]
            <4>1. CASE Insert(c)
                BY <2>4, <4>1 DEF Insert
            <4>2. CASE Update(c)
                <5>1. services[s] = req[c].ip /\ services' = [services EXCEPT ![s] = req[c].ip]
                    BY <1>1, <1>2, <2>4, <4>2 DEF Update, UpdatingKeeps
                <5> QED BY <1>1, <2>2, <2>4, <5>1 DEF TypeOK
            <4>3. CASE UpsertFails(c)
                BY <2>4, <4>3 DEF UpsertFails
            <4> QED BY <1>9, <4>1, <4>2, <4>3
        <3>2. \A x \in Svcs : services'[x] = IF x = s THEN req[c].ip ELSE services[x]
            BY <1>1, <2>2, <3>1 DEF TypeOK
        <3>3. MayCreate(c) /\ req[c].ip \notin InUse
            BY <1>3, <3>1 DEF MayCreate
        <3>4. \A d \in Clients : ~MayCreate(d)'
            <4>1. ASSUME NEW d \in Clients \ {c}, MayCreate(d)' PROVE FALSE
                <5>1. /\ req'[d] = req[d] /\ ~MayCreate(d)
                      /\ req[d].at \in {"allocating", "upserting", "inserting", "updating"}
                      /\ services'[req[d].svc] = NoIP
                    BY <1>3, <2>2, <3>3, <4>1 DEF MayCreate
                <5>2. req[d].svc \in Svcs /\ services[req[d].svc] # NoIP
                    BY <1>1, <5>1 DEF RequestsPlaced, MayCreate
                <5> QED BY <3>1, <3>2, <5>1, <5>2
            <4> QED BY <2>2, <4>1
        <3>5. Distinct'
            <4>1. \A x \in Svcs : services[x] # NoIP => services[x] # req[c].ip
                BY <3>3 DEF InUse
            <4> QED BY <1>3, <3>1, <3>2, <4>1
        <3> QED BY <3>4, <3>5
    <2> QED BY <2>3, <2>4
<1>10. ASSUME NEW s \in Svcs, Delete(s) PROVE Goal
    <2>1. req' = req /\ services' = [services EXCEPT ![s] = NoIP]
          /\ \A c \in Clients : req[c].svc # s
        BY <1>10 DEF Delete
    <2>2. \A x \in Svcs : services'[x] = IF x = s THEN NoIP ELSE services[x]
        BY <1>1, <2>1 DEF TypeOK
    <2>3. InUse' \subseteq InUse
        BY <2>2 DEF InUse
    <2>4. \A c \in Clients : MayCreate(c)' <=> MayCreate(c)
        BY <1>1, <2>1, <2>2 DEF MayCreate, RequestsPlaced
    <2>5. Fresh'
        BY <1>3, <2>1, <2>3, <2>4
    <2>6. Distinct'
        BY <1>3, <2>2
    <2> QED BY <2>5, <2>6
<1>11. ASSUME NEW v \in Servers, ServerRestart(v) PROVE Goal
    <2>1. services' = services
          /\ req' = [c \in Clients |-> IF req[c].srv = v THEN NoReq ELSE req[c]]
        BY <1>11 DEF ServerRestart
    <2>2. \A d \in Clients : req'[d] = req[d] \/ ~MayCreate(d)'
        BY <2>1, NoReqIs DEF MayCreate
    <2> QED BY <1>4, <2>1, <2>2
<1>12. CASE Refresh \/ UNCHANGED vars
    <2>1. UNCHANGED <<services, req>>
        BY <1>12 DEF Refresh, vars
    <2> QED BY <1>4, <2>1
<1> QED BY <1>5, <1>6, <1>7, <1>8, <1>9, <1>10, <1>11, <1>12 DEF Next

-----------------------------------------------------------------------------
(* Refusals. *)

\* From where a search of Tries addresses ended, its addresses are behind.
LEMMA AroundBack ==
    ASSUME NEW n \in 1 .. Modulus - 1, NEW j \in Int
    PROVE  Around(Around(n, Tries), j - Tries) = Around(n, j)
<1> DEFINE m == Modulus - 2
           a == n - 2 + Tries
           b == j - Tries
<1>1. m \in Nat /\ m > 0 /\ a \in Int /\ b \in Int /\ a + b = n - 2 + j
    BY PoolSize, ModulusAssumption, TriesAssumption
<1>2. Around(n, Tries) = 2 + (a % m) /\ Around(n, j) = 2 + ((n - 2 + j) % m)
    BY PoolSize DEF Around
<1>3. Around(Around(n, Tries), b) = 2 + (((Around(n, Tries) - 2) + b) % m)
    BY PoolSize DEF Around
<1> HIDE DEF a, b, m
<1>4. a % m \in Int
    BY <1>1, DivMod
<1>5. Around(n, Tries) - 2 = a % m
    BY <1>2, <1>4
<1>6. ((a % m) + b) % m = (n - 2 + j) % m
    BY <1>1, ModAdd
<1> QED BY <1>2, <1>3, <1>5, <1>6 DEF b

\* Two searches in a row go over the whole pool.
LEMMA AroundCovers ==
    ASSUME NEW n \in 1 .. Modulus - 1, NEW x \in Pool
    PROVE  \E j \in 1 .. Tries : x = Around(n, j) \/ x = Around(n, j - Tries)
<1> DEFINE m == Modulus - 2
           k == (x - n) % m
<1>1. /\ m \in Nat /\ m > 0 /\ x - n \in Int /\ n - 2 \in Int /\ x - 2 \in 0 .. m - 1
      /\ Tries \in Nat /\ Tries >= 1 /\ Tries <= m /\ 2 * Tries >= m
    BY PoolSize, ModulusAssumption, TriesAssumption DEF Pool
<1>2. \A i \in Int : Around(n, i) = 2 + ((n - 2 + i) % m)
    BY PoolSize DEF Around
<1>3. k \in 0 .. m - 1 /\ \E q \in Int : x - n = m * q + k
    BY <1>1, DivMod
<1> HIDE DEF m, k
<1>4. PICK q \in Int : x - n = m * q + k
    BY <1>3
<1>5. m * q \in Int /\ m * (-q) = -(m * q) /\ m * (-q - 1) = -(m * q) - m
    BY <1>1
<1>6. n - 2 + k = m * (-q) + (x - 2) /\ n - 2 + (k - m) = m * (-q - 1) + (x - 2)
    BY <1>1, <1>3, <1>4, <1>5 DEF Pool
<1>7. (n - 2 + k) % m = x - 2 /\ (n - 2 + (k - m)) % m = x - 2
    <2>1. -q \in Int /\ -q - 1 \in Int /\ n - 2 + k \in Int /\ n - 2 + (k - m) \in Int
        BY <1>1, <1>3
    <2> QED BY <1>1, <1>6, <2>1, ModUnique
<1>8. x = Around(n, k) /\ x = Around(n, k - m)
    <2>1. k \in Int /\ k - m \in Int
        BY <1>1, <1>3
    <2>2. x = 2 + (x - 2)
        BY <1>1 DEF Pool
    <2> QED BY <1>2, <1>7, <2>1, <2>2
<1>9. CASE k \in 1 .. Tries
    BY <1>8, <1>9
<1>10. CASE k = 0
    <2>1. Tries \in 1 .. Tries /\ Tries - Tries = k
        BY <1>1, <1>10
    <2> QED BY <1>8, <2>1
<1>11. CASE k > Tries
    <2>1. k - m + Tries \in 1 .. Tries /\ (k - m + Tries) - Tries = k - m
        BY <1>1, <1>3, <1>11
    <2> QED BY <1>8, <2>1
<1> QED BY <1>1, <1>3, <1>9, <1>10, <1>11

LEMMA BehindInductive ==
    TypeOK /\ CursorPositive /\ RequestsPlaced /\ RefusalsBehind /\ [Next]_vars
        => /\ RefusalsBehind'
           /\ \A c \in Clients : req[c].at = "allocating" /\ req'[c].at = "idle"
                => refusals[req[c].srv] \cap refusals'[req[c].srv] = {}
<1> DEFINE Retry == \A c \in Clients : req[c].at = "allocating" /\ req'[c].at = "idle"
                        => refusals[req[c].srv] \cap refusals'[req[c].srv] = {}
           Goal == RefusalsBehind' /\ Retry
<1> SUFFICES ASSUME TypeOK, CursorPositive, RequestsPlaced, RefusalsBehind, [Next]_vars
             PROVE  Goal
    OBVIOUS
<1>1. ASSUME NEW c \in Clients, Allocate(c) PROVE Goal
    <2> DEFINE v == req[c].srv
               n == cursor[v]
               found == Search(n, req[c].taken)
    <2>1. v \in Servers /\ n \in 1 .. Modulus - 1
        BY <1>1, AllocateDoes
    <2>2. \/ req'[c].at # "idle" /\ refusals' = [refusals EXCEPT ![v] = {}]
          \/ /\ \A k \in 1 .. Tries : Around(n, k) \in req[c].taken
             /\ cursor' = [cursor EXCEPT ![v] = Around(n, Tries)]
             /\ refusals' = [refusals EXCEPT ![v] = Pool \ req[c].taken]
        <3>1. \/ /\ \E ip \in Addrs : req' = [req EXCEPT ![c] =
                        [req[c] EXCEPT !.at = "upserting", !.ip = ip, !.taken = {}]]
                 /\ refusals' = [refusals EXCEPT ![v] = {}]
              \/ /\ \A k \in 1 .. Tries : Around(n, k) \in req[c].taken
                 /\ cursor' = [cursor EXCEPT ![v] = Around(n, Tries)]
                 /\ refusals' = [refusals EXCEPT ![v] = Pool \ req[c].taken]
            BY <1>1, AllocateDoes, NoReqIs
        <3>2. ASSUME NEW ip \in Addrs, req' = [req EXCEPT ![c] =
                        [req[c] EXCEPT !.at = "upserting", !.ip = ip, !.taken = {}]]
              PROVE  req'[c].at # "idle"
            BY <3>2 DEF TypeOK
        <3> QED BY <3>1, <3>2
    <2>3. /\ \A w \in Servers \ {v} : cursor'[w] = cursor[w] /\ refusals'[w] = refusals[w]
          /\ \A d \in Clients \ {c} : req'[d] = req[d]
        <3>1. /\ cursor' = IF UseLoop THEN [cursor EXCEPT ![v] = found.next] ELSE cursor
              /\ \E S : refusals' = [refusals EXCEPT ![v] = S]
              /\ \E r : req' = [req EXCEPT ![c] = r]
            BY <1>1 DEF Allocate
        <3> HIDE DEF found, v, n
        <3> QED BY <2>1, <3>1 DEF TypeOK
    <2>4. \A w \in Servers \ {v} : refusals'[w] # {} =>
                \A j \in 1 .. Tries : Around(cursor'[w], j - Tries) \notin refusals'[w]
        BY <2>3 DEF RefusalsBehind
    <2>5. CASE req'[c].at # "idle" /\ refusals' = [refusals EXCEPT ![v] = {}]
        <3>1. refusals'[v] = {}
            BY <2>1, <2>5 DEF TypeOK
        <3> HIDE DEF v
        <3> QED BY <2>3, <2>4, <2>5, <3>1 DEF RefusalsBehind
    <2>6. CASE /\ \A k \in 1 .. Tries : Around(n, k) \in req[c].taken
               /\ cursor' = [cursor EXCEPT ![v] = Around(n, Tries)]
               /\ refusals' = [refusals EXCEPT ![v] = Pool \ req[c].taken]
        <3>1. cursor'[v] = Around(n, Tries) /\ refusals'[v] = Pool \ req[c].taken
            BY <2>1, <2>6 DEF TypeOK
        <3>2. \A j \in 1 .. Tries : Around(cursor'[v], j - Tries) = Around(n, j)
            <4>1. \A j \in 1 .. Tries : j \in Int
                OBVIOUS
            <4> HIDE DEF n, v
            <4> QED BY <2>1, <3>1, <4>1, AroundBack
        <3>3. \A j \in 1 .. Tries : Around(cursor'[v], j - Tries) \notin refusals'[v]
            BY <2>6, <3>1, <3>2
        <3>4. refusals[v] \cap refusals'[v] = {}
            <4>1. ASSUME NEW x \in Pool, x \in refusals[v], x \notin req[c].taken PROVE FALSE
                <5>1. PICK j \in 1 .. Tries : x = Around(n, j) \/ x = Around(n, j - Tries)
                    BY <2>1, AroundCovers
                <5>2. x # Around(n, j)
                    BY <2>6, <4>1
                <5>3. x # Around(n, j - Tries)
                    BY <2>1, <4>1 DEF RefusalsBehind
                <5> QED BY <5>1, <5>2, <5>3
            <4> QED BY <3>1, <4>1
        <3>5. RefusalsBehind'
            <4> HIDE DEF v
            <4> QED BY <2>4, <3>3 DEF RefusalsBehind
        <3>6. Retry
            <4>1. ASSUME NEW d \in Clients, req[d].at = "allocating", req'[d].at = "idle" PROVE d = c
                BY <2>3, <4>1
            <4> QED BY <3>4, <4>1
        <3> QED BY <3>5, <3>6
    <2> QED BY <2>2, <2>5, <2>6
<1>2. ASSUME NEW v \in Servers, ServerRestart(v) PROVE Goal
    <2>1. /\ cursor' = [cursor EXCEPT ![v] = 1] /\ refusals' = [refusals EXCEPT ![v] = {}]
          /\ req' = [c \in Clients |-> IF req[c].srv = v THEN NoReq ELSE req[c]]
        BY <1>2 DEF ServerRestart
    <2>2. /\ refusals'[v] = {}
          /\ \A w \in Servers \ {v} : cursor'[w] = cursor[w] /\ refusals'[w] = refusals[w]
        BY <2>1 DEF TypeOK
    <2>3. \A c \in Clients : req[c].srv # v => req'[c] = req[c]
        BY <2>1
    <2> QED BY <2>2, <2>3 DEF RefusalsBehind
<1>3. ASSUME UNCHANGED <<cursor, refusals>>,
             \A c \in Clients : req[c].at = "allocating" => req'[c].at # "idle"
      PROVE  Goal
    BY <1>3 DEF RefusalsBehind
<1>4. ASSUME NEW c \in Clients,
             \/ \E v \in Servers, s \in Svcs, want \in Wanted \cup {NoIP} :
                    Post(c, v, s, want) \/ PostReadFails(c, v, s, want)
             \/ ListTaken(c) \/ ListTakenFails(c)
             \/ UpsertRead(c) \/ Insert(c) \/ Update(c) \/ UpsertFails(c)
      PROVE  Goal
    <2>1. UNCHANGED <<cursor, refusals>> /\ req[c].at # "allocating"
        BY <1>4 DEF Post, PostReadFails, ListTaken, ListTakenFails, UpsertRead, Insert, Update,
            UpsertFails
    <2>2. \A d \in Clients \ {c} : req'[d] = req[d]
        <3>1. \E r : req' = [req EXCEPT ![c] = r]
            BY <1>4 DEF Post, PostReadFails, Decide, ListTaken, ListTakenFails, UpsertRead, Insert,
                Update, UpsertFails
        <3> QED BY <3>1 DEF TypeOK
    <2> QED BY <1>3, <2>1, <2>2
<1>5. CASE (\E s \in Svcs : Delete(s)) \/ Refresh \/ UNCHANGED vars
    <2>1. UNCHANGED <<cursor, refusals, req>>
        BY <1>5 DEF Delete, Refresh, vars
    <2> QED BY <1>3, <2>1
<1> QED BY <1>1, <1>2, <1>4, <1>5 DEF Next

-----------------------------------------------------------------------------
LEMMA IPInit == Init => IPInv
<1> SUFFICES ASSUME Init PROVE IPInv
    OBVIOUS
<1>1. /\ services \in [Svcs -> Addrs \cup {NoIP}] /\ names \in [Svcs -> Addrs \cup {NoIP}]
      /\ requests \in 0 .. MaxRequests /\ refusals \in [Servers -> SUBSET Pool]
      /\ reborn \in SUBSET Svcs /\ \A s \in Svcs : services[s] = NoIP
    BY MaxRequestsAssumption DEF Init, None
<1>2. raced \in BOOLEAN
    BY Zenon DEF Init
<1>3. cursor \in [Servers -> 0 .. Modulus - 1] /\ CursorPositive
    BY ModulusAssumption DEF Init, CursorPositive
<1>4. \A c \in Clients : req[c] = NoReq
    BY DEF Init
<1>5. TypeOK
    BY <1>1, <1>2, <1>3, NoReqIs DEF Init, TypeOK
<1>6. RequestsPlaced /\ UpdatingKeeps /\ FreshAddresses
    BY <1>4, NoReqIs DEF RequestsPlaced, UpdatingKeeps, FreshAddresses, MayCreate
<1>7. DistinctUnlessRaced /\ RefusalsBehind
    BY <1>1 DEF Init, DistinctUnlessRaced, RefusalsBehind
<1> QED BY <1>3, <1>5, <1>6, <1>7 DEF IPInv

LEMMA IPInductive == IPInv /\ [Next]_vars => IPInv'
BY TypeInductive, UpdatingInductive, FreshInductive, BehindInductive DEF IPInv

(***************************************************************************)
(* The Services, the allocators' cursors and every POST under way keep     *)
(* their types: what is stored as a cluster IP is an address of the pool,  *)
(* and the cursor fits its byte.                                           *)
(***************************************************************************)
THEOREM TypeCorrect == Spec => []TypeOK
<1>1. IPInv => TypeOK
    BY DEF IPInv
<1> QED BY <1>1, IPInit, IPInductive, PTL DEF Spec

(***************************************************************************)
(* clusterIPAlloc.alloc meets its reference definition from every cursor a *)
(* replica can come to have, for every modulus and number of tries: the    *)
(* loop with its wrap and its reset to 2 walks around the pool, and stops  *)
(* at the nearest free address.                                            *)
(***************************************************************************)
THEOREM AllocCorrect == Spec => []AllocIsNextFree
<1>1. IPInv => AllocIsNextFree
    <2> SUFFICES ASSUME IPInv, NEW v \in Servers, NEW taken \in SUBSET Pool, NEW near,
                        near = {k \in 1 .. Tries : Around(cursor[v], k) \notin taken}
                 PROVE  IF near = {} THEN Search(cursor[v], taken).ip = NoIP
                        ELSE \E k \in near : /\ \A j \in near : k <= j
                                             /\ Search(cursor[v], taken).ip = Around(cursor[v], k)
        BY DEF AllocIsNextFree
    <2>1. cursor[v] \in 1 .. Modulus - 1
        BY DEF IPInv, CursorPositive
    <2>2. IF near = {} THEN Search(cursor[v], taken) = [ip |-> NoIP, next |-> Around(cursor[v], Tries)]
          ELSE \E k \in near :
            /\ \A j \in near : k <= j
            /\ Search(cursor[v], taken) = [ip |-> Around(cursor[v], k), next |-> Around(cursor[v], k)]
        BY <2>1, SearchIs
    <2>3. CASE near = {}
        BY <2>2, <2>3
    <2>4. CASE near # {}
        <3>1. PICK k \in near :
                /\ \A j \in near : k <= j
                /\ Search(cursor[v], taken) = [ip |-> Around(cursor[v], k), next |-> Around(cursor[v], k)]
            BY <2>2, <2>4
        <3>2. Search(cursor[v], taken).ip = Around(cursor[v], k)
            BY <3>1
        <3> QED BY <2>4, <3>1, <3>2
    <2> QED BY <2>3, <2>4
<1> QED BY <1>1, IPInit, IPInductive, PTL DEF Spec

(***************************************************************************)
(* POSTs of Services that do not overlap between their list of taken       *)
(* addresses and their write get distinct addresses, on any number of      *)
(* replicas.                                                               *)
(***************************************************************************)
THEOREM AddressesDistinct == Spec => []DistinctUnlessRaced
<1>1. IPInv => DistinctUnlessRaced
    BY DEF IPInv
<1> QED BY <1>1, IPInit, IPInductive, PTL DEF Spec

(***************************************************************************)
(* However POSTs of a Service overlap, UpsertService never changes the     *)
(* address of a row that exists, unless the Service was deleted meanwhile. *)
(***************************************************************************)
THEOREM AddressKept == Spec => AddressStable
<1> DEFINE Step == \A s \in Svcs : services[s] # NoIP /\ services'[s] # NoIP /\ s \notin reborn
                        => services'[s] = services[s]
<1>1. IPInv /\ [Next]_vars => [Step]_vars
    BY UpdatingInductive DEF IPInv
<1> QED BY <1>1, IPInit, IPInductive, PTL DEF Spec, AddressStable

(***************************************************************************)
(* A replica whose allocator refuses twice in a row has gone over the whole*)
(* pool: no address was free both times, for every pool and every length of*)
(* the search that is at least half of it.                                 *)
(***************************************************************************)
THEOREM RetryCovers == Spec => RetryFindsFree
<1> DEFINE Step == \A c \in Clients :
                LET v == req[c].srv
                IN req[c].at = "allocating" /\ req'[c].at = "idle"
                    => refusals[v] \cap refusals'[v] = {}
<1>1. IPInv /\ [Next]_vars => [Step]_vars
    BY BehindInductive DEF IPInv
<1> QED BY <1>1, IPInit, IPInductive, PTL DEF Spec, RetryFindsFree

=============================================================================
