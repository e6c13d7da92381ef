------------------------ MODULE LeaderElectionProofs ------------------------
(***************************************************************************)
(* Proofs about LeaderElection, for any number of replicas, any TTLs and   *)
(* any bound on the clock and on the generations.                          *)
(***************************************************************************)
EXTENDS LeaderElection, TLAPS

(***************************************************************************)
(* The strengthening AtMostOneFreshLeader needs.                           *)
(***************************************************************************)

\* No time in the system lies ahead of the clock; no row, no renewal.
TimesInPast ==
    /\ lease.renew <= clock
    /\ lease.holder = NoHolder => lease.renew = 0
    /\ \A r \in Replicas : attempt[r] <= clock

\* An attempt of the holder began after the renewal now in the row: a replica
\* makes one attempt at a time.
HolderAttemptIsNewer ==
    \A r \in Replicas :
        lease.holder = r /\ attempt[r] # Idle => attempt[r] >= lease.renew

\* A leader either still has the row it wrote last, or the row was taken after
\* that renewal had expired.
LeaderHadLease ==
    \A r \in Replicas : leading[r] =>
        \/ lease.holder = r /\ lease.renew = lastOK[r] /\ lease.ttl = StoredTTL(r)
        \/ lease.holder \in Replicas \ {r} /\ lease.renew > lastOK[r] + StoredTTL(r)

LeaseInv == TypeOK /\ TimesInPast /\ HolderAttemptIsNewer /\ LeaderHadLease

-----------------------------------------------------------------------------
\* The number of clock units TryAcquireLease stores is a natural number.
LEMMA StoredTTLType == \A r \in Replicas : StoredTTL(r) \in Nat
<1> SUFFICES ASSUME NEW r \in Replicas PROVE StoredTTL(r) \in Nat
    OBVIOUS
<1>1. TTL[r] \in Nat /\ Second \in Nat /\ Second > 0
    BY TTLAssumption, SecondAssumption
<1>2. TTL[r] \div Second \in Nat
    BY <1>1
<1>3. \A m, n \in Nat : m * n \in Nat
    OBVIOUS
<1> QED
    BY <1>1, <1>2, <1>3 DEF StoredTTL

\* A replica that comes to lead starts a generation that was not in use.
LEMMA StartLeadingStarts ==
    ASSUME NEW r \in Replicas, StartLeading(r)
    PROVE  \E g \in Gens :
            /\ ctrl[r][g] = "none" /\ g \notin hung[r]
            /\ leading' = [leading EXCEPT ![r] = TRUE]
            /\ cancelCtrl' = [cancelCtrl EXCEPT ![r] = g]
            /\ ctrl' = [ctrl EXCEPT ![r][g] = "spawned"]
            /\ cancelled' = [cancelled EXCEPT ![r] = @ \ {g}]
<1> DEFINE unused == {g \in Gens : ctrl[r][g] = "none" /\ g \notin hung[r]}
           new == CHOOSE g \in unused : TRUE
<1>1. new \in unused
    BY DEF StartLeading
<1>2. /\ leading' = [leading EXCEPT ![r] = TRUE]
      /\ cancelCtrl' = [cancelCtrl EXCEPT ![r] = new]
      /\ ctrl' = [ctrl EXCEPT ![r][new] = "spawned"]
      /\ cancelled' = [cancelled EXCEPT ![r] = @ \ {new}]
    BY DEF StartLeading
<1>3. new \in Gens /\ ctrl[r][new] = "none" /\ new \notin hung[r]
    <2> HIDE DEF new
    <2> QED BY <1>1
<1> HIDE DEF new, unused
<1> QED BY <1>2, <1>3

\* Every step of runLeaderElected, the controllers and the processes keeps the
\* variables in their types.
LEMMA TypeInductive == TypeOK /\ [Next]_vars => TypeOK'
<1> SUFFICES ASSUME TypeOK, [Next]_vars PROVE TypeOK'
    OBVIOUS
<1> USE DEF TypeOK, Idle, CtrlStates
<1>1. ASSUME Tick PROVE TypeOK'
    BY <1>1 DEF Tick
<1>2. ASSUME NEW r \in Replicas, Attempt(r) PROVE TypeOK'
    BY <1>2 DEF Attempt
<1>3. ASSUME NEW r \in Replicas, Acquire(r) PROVE TypeOK'
    <2>1. attempt[r] \in Nat
        BY <1>3 DEF Acquire
    <2>2. lease' \in [holder : Replicas \cup {NoHolder}, renew : Nat, ttl : Nat]
        BY <1>3, <2>1, StoredTTLType DEF Acquire, Written
    <2>3. attempt' \in [Replicas -> Nat \cup {Idle}] /\ lastOK' \in [Replicas -> Nat]
        BY <1>3, <2>1 DEF Acquire
    <2>4. CASE leading[r]
        BY <1>3, <2>2, <2>3, <2>4 DEF Acquire
    <2>5. CASE ~leading[r]
        <3>1. PICK g \in Gens :
                /\ leading' = [leading EXCEPT ![r] = TRUE]
                /\ cancelCtrl' = [cancelCtrl EXCEPT ![r] = g]
                /\ ctrl' = [ctrl EXCEPT ![r][g] = "spawned"]
                /\ cancelled' = [cancelled EXCEPT ![r] = @ \ {g}]
            BY <1>3, <2>5, StartLeadingStarts DEF Acquire
        <3>2. leading' \in [Replicas -> BOOLEAN] /\ cancelCtrl' \in [Replicas -> Gens \cup {NoGen}]
            BY <3>1
        <3>3. ctrl' \in [Replicas -> [Gens -> CtrlStates]] /\ cancelled' \in [Replicas -> SUBSET Gens]
            BY <3>1
        <3> QED BY <1>3, <2>2, <2>3, <3>2, <3>3 DEF Acquire
    <2> QED BY <2>4, <2>5
<1>4. ASSUME NEW r \in Replicas, Refused(r) PROVE TypeOK'
    <2>1. cancelCtrl[r] \in Gens \cup {NoGen}
        OBVIOUS
    <2>2. cancelled[r] \cup ({cancelCtrl[r]} \ {NoGen}) \in SUBSET Gens
        BY <2>1
    <2>3. CASE leading[r]
        <3> DEFINE C == cancelled[r] \cup ({cancelCtrl[r]} \ {NoGen})
        <3>1. leading' \in [Replicas -> BOOLEAN] /\ cancelled' = [cancelled EXCEPT ![r] = C]
            BY <1>4, <2>3 DEF Refused, StopLeading
        <3>2. C \in SUBSET Gens
            BY <2>2
        <3> HIDE DEF C
        <3>3. cancelled' \in [Replicas -> SUBSET Gens]
            BY <3>1, <3>2
        <3> QED BY <1>4, <3>1, <3>3 DEF Refused
    <2>4. CASE ~leading[r]
        BY <1>4, <2>4 DEF Refused
    <2> QED BY <2>3, <2>4
<1>5. ASSUME NEW r \in Replicas, AttemptError(r) PROVE TypeOK'
    BY <1>5 DEF AttemptError
<1>6. ASSUME NEW r \in Replicas, Crash(r) PROVE TypeOK'
    BY <1>6 DEF Crash, NoControllers
<1>7. ASSUME NEW r \in Replicas, Restart(r) PROVE TypeOK'
    BY <1>7 DEF Restart
<1>8. ASSUME NEW r \in Replicas, NEW g \in Gens, StartControllers(r, g) PROVE TypeOK'
    BY <1>8 DEF StartControllers
<1>9. ASSUME NEW r \in Replicas, NEW g \in Gens, BeginReconcile(r, g) PROVE TypeOK'
    BY <1>9 DEF BeginReconcile
<1>10. ASSUME NEW r \in Replicas, NEW g \in Gens, EndReconcile(r, g) PROVE TypeOK'
    BY <1>10 DEF EndReconcile
<1>11. ASSUME NEW r \in Replicas, NEW g \in Gens, StopControllers(r, g) PROVE TypeOK'
    BY <1>11 DEF StopControllers
<1>12. ASSUME NEW r \in Replicas, NEW g \in Gens, Hang(r, g) PROVE TypeOK'
    BY <1>12 DEF Hang
<1>13. CASE UNCHANGED vars
    BY <1>13 DEF vars
<1> QED
    BY <1>1, <1>2, <1>3, <1>4, <1>5, <1>6, <1>7, <1>8, <1>9, <1>10, <1>11, <1>12, <1>13
    DEF Next

\* The initial state satisfies the strengthened invariant.
LEMMA LeaseInit == Init => LeaseInv
<1> SUFFICES ASSUME Init PROVE LeaseInv
    OBVIOUS
<1>1. TypeOK
    BY DEF Init, TypeOK, Idle, CtrlStates, NoControllers
<1>2. TimesInPast /\ HolderAttemptIsNewer /\ LeaderHadLease
    BY DEF Init, TimesInPast, HolderAttemptIsNewer, LeaderHadLease, Idle
<1> QED BY <1>1, <1>2 DEF LeaseInv

\* Winning or renewing the lease keeps the strengthened invariant: the only
\* step that writes the row.
LEMMA AcquireKeepsLease ==
    ASSUME LeaseInv, NEW r \in Replicas, Acquire(r), TypeOK'
    PROVE  TimesInPast' /\ HolderAttemptIsNewer' /\ LeaderHadLease'
<1> USE DEF LeaseInv
<1>1. attempt[r] \in Nat /\ attempt[r] <= clock /\ clock \in Nat /\ lease.renew \in Nat
    BY DEF Acquire, TypeOK, TimesInPast
<1>2. /\ lease'.holder = r /\ lease'.renew = attempt[r] /\ lease'.ttl = StoredTTL(r)
      /\ clock' = clock
      /\ attempt' = [attempt EXCEPT ![r] = Idle]
      /\ lastOK' = [lastOK EXCEPT ![r] = attempt[r]]
    BY DEF Acquire, Written
<1>3. TimesInPast'
    BY <1>1, <1>2, NoHolderAssumption DEF TimesInPast, TypeOK, Idle
<1>4. HolderAttemptIsNewer'
    BY <1>2 DEF HolderAttemptIsNewer, TypeOK
<1>5. LeaderHadLease'
    <2> SUFFICES ASSUME NEW q \in Replicas, leading'[q]
                 PROVE  \/ /\ lease'.holder = q /\ lease'.renew = lastOK'[q]
                           /\ lease'.ttl = StoredTTL(q)
                        \/ /\ lease'.holder \in Replicas \ {q}
                           /\ lease'.renew > lastOK'[q] + StoredTTL(q)
        BY DEF LeaderHadLease
    <2>1. CASE q = r
        BY <1>2, <2>1 DEF TypeOK
    <2>2. CASE q # r
        <3>1. leading[q] /\ lastOK'[q] = lastOK[q]
            BY <1>2, <2>2, StartLeadingStarts DEF Acquire, TypeOK
        <3>2. lastOK[q] \in Nat /\ StoredTTL(q) \in Nat /\ lease.ttl \in Nat
            BY StoredTTLType DEF TypeOK
        <3>3. CASE lease.holder = q
            <4>1. lease.renew = lastOK[q] /\ lease.ttl = StoredTTL(q)
                BY <3>1, <3>3 DEF LeaderHadLease
            <4>2. Expired(r)
                BY <2>2, <3>3, NoHolderAssumption DEF Acquire, MayTake
            <4>3. attempt[r] > lastOK[q] + StoredTTL(q)
                BY <1>1, <3>2, <4>1, <4>2 DEF Expired
            <4> QED BY <1>2, <2>2, <3>1, <4>3
        <3>4. CASE lease.holder # q
            <4>1. lease.holder \in Replicas /\ lease.renew > lastOK[q] + StoredTTL(q)
                BY <3>1, <3>4 DEF LeaderHadLease
            <4>2. attempt[r] >= lease.renew
                <5>1. CASE lease.holder = r
                    BY <5>1 DEF HolderAttemptIsNewer, Acquire
                <5>2. CASE lease.holder # r
                    <6>1. Expired(r)
                        BY <4>1, <5>2, NoHolderAssumption DEF Acquire, MayTake
                    <6> QED BY <1>1, <3>2, <6>1 DEF Expired
                <5> QED BY <5>1, <5>2
            <4>3. attempt[r] > lastOK[q] + StoredTTL(q)
                BY <1>1, <3>2, <4>1, <4>2
            <4> QED BY <1>2, <2>2, <3>1, <4>3
        <3> QED BY <3>3, <3>4
    <2> QED BY <2>1, <2>2
<1> QED BY <1>3, <1>4, <1>5

\* Every step keeps the strengthened invariant.
LEMMA LeaseInductive == LeaseInv /\ [Next]_vars => LeaseInv'
<1> SUFFICES ASSUME LeaseInv, [Next]_vars PROVE LeaseInv'
    OBVIOUS
<1> DEFINE Rest == TimesInPast /\ HolderAttemptIsNewer /\ LeaderHadLease
<1>0. TypeOK /\ TypeOK'
    BY TypeInductive DEF LeaseInv
<1>1. ASSUME Tick PROVE Rest'
    BY <1>0, <1>1 DEF Tick, LeaseInv, TypeOK, TimesInPast, HolderAttemptIsNewer, LeaderHadLease, Idle
<1>2. ASSUME NEW r \in Replicas, Attempt(r) PROVE Rest'
    <2>1. TimesInPast' /\ HolderAttemptIsNewer'
        BY <1>0, <1>2 DEF Attempt, LeaseInv, TypeOK, TimesInPast, HolderAttemptIsNewer, Idle
    <2>2. LeaderHadLease'
        BY <1>2 DEF Attempt, LeaseInv, LeaderHadLease
    <2> QED BY <2>1, <2>2
<1>3. ASSUME NEW r \in Replicas, Acquire(r) PROVE Rest'
    BY <1>0, <1>3, AcquireKeepsLease
<1>4. ASSUME NEW r \in Replicas, Refused(r) PROVE Rest'
    <2>1. TimesInPast' /\ HolderAttemptIsNewer'
        BY <1>0, <1>4 DEF Refused, LeaseInv, TypeOK, TimesInPast, HolderAttemptIsNewer, Idle
    <2>2. \A q \in Replicas : leading'[q] => leading[q]
        BY <1>0, <1>4 DEF Refused, StopLeading, TypeOK
    <2>3. LeaderHadLease'
        BY <1>4, <2>2 DEF Refused, LeaseInv, LeaderHadLease
    <2> QED BY <2>1, <2>3
<1>5. ASSUME NEW r \in Replicas, AttemptError(r) PROVE Rest'
    <2>1. TimesInPast' /\ HolderAttemptIsNewer'
        BY <1>0, <1>5 DEF AttemptError, LeaseInv, TypeOK, TimesInPast, HolderAttemptIsNewer, Idle
    <2>2. LeaderHadLease'
        BY <1>5 DEF AttemptError, LeaseInv, LeaderHadLease
    <2> QED BY <2>1, <2>2
<1>6. ASSUME NEW r \in Replicas, Crash(r) PROVE Rest'
    <2>1. TimesInPast' /\ HolderAttemptIsNewer'
        BY <1>0, <1>6 DEF Crash, LeaseInv, TypeOK, TimesInPast, HolderAttemptIsNewer, Idle
    <2>2. \A q \in Replicas : leading'[q] => leading[q]
        BY <1>0, <1>6 DEF Crash, TypeOK
    <2>3. LeaderHadLease'
        BY <1>6, <2>2 DEF Crash, LeaseInv, LeaderHadLease
    <2> QED BY <2>1, <2>3
<1>7. CASE UNCHANGED <<clock, lease, attempt, leading, lastOK>>
    BY <1>0, <1>7 DEF LeaseInv, TimesInPast, HolderAttemptIsNewer, LeaderHadLease
<1> QED
    BY <1>0, <1>1, <1>2, <1>3, <1>4, <1>5, <1>6, <1>7
    DEF LeaseInv, Next, vars, Restart, StartControllers, BeginReconcile, EndReconcile, Hang, StopControllers

\* A leader that does not hold the lease has let its renewal expire, so two
\* fresh leaders would both hold it.
LEMMA LeaseInvSuffices == LeaseInv => AtMostOneFreshLeader
<1> SUFFICES ASSUME LeaseInv, NEW r \in Replicas, NEW q \in Replicas, Fresh(r), Fresh(q)
             PROVE  r = q
    BY DEF AtMostOneFreshLeader
<1>1. \A p \in {r, q} : lease.holder = p
    <2> SUFFICES ASSUME NEW p \in {r, q}, lease.holder # p PROVE FALSE
        OBVIOUS
    <2>1. lease.renew > lastOK[p] + StoredTTL(p) /\ lease.renew <= clock
        BY DEF LeaseInv, LeaderHadLease, TimesInPast, Fresh
    <2>2. clock - lastOK[p] <= StoredTTL(p)
        BY DEF Fresh
    <2>3. clock \in Nat /\ lease.renew \in Nat /\ lastOK[p] \in Nat /\ StoredTTL(p) \in Nat
        BY StoredTTLType DEF LeaseInv, TypeOK
    <2> QED BY <2>1, <2>2, <2>3
<1> QED BY <1>1

-----------------------------------------------------------------------------
(***************************************************************************)
(* Type correctness of the leader-election model.                          *)
(***************************************************************************)
THEOREM TypeCorrect == Spec => []TypeOK
<1>1. Init => TypeOK
    BY LeaseInit DEF LeaseInv
<1> QED BY <1>1, TypeInductive, PTL DEF Spec

(***************************************************************************)
(* Leader election is safe: at most one replica leads with a renewal no    *)
(* older than its TTL, whatever the delays, errors and crashes.            *)
(***************************************************************************)
THEOREM LeaseSafety == Spec => []AtMostOneFreshLeader
<1> QED BY LeaseInit, LeaseInductive, LeaseInvSuffices, PTL DEF Spec

(***************************************************************************)
(* renew_time never moves backwards, although TryAcquireLease writes a     *)
(* time it read before its transaction began.                              *)
(***************************************************************************)
THEOREM RenewMonotone == Spec => RenewNeverGoesBack
<1>1. LeaseInv /\ [Next]_vars => [lease'.renew >= lease.renew]_vars
    <2> SUFFICES ASSUME LeaseInv, Next PROVE lease'.renew >= lease.renew
        BY DEF vars
    <2>0. lease.renew \in Nat /\ lease.ttl \in Nat
        BY DEF LeaseInv, TypeOK
    <2>1. ASSUME NEW r \in Replicas, Acquire(r) PROVE lease'.renew >= lease.renew
        <3>1. lease'.renew = attempt[r] /\ attempt[r] \in Nat
            BY <2>1 DEF Acquire, Written, LeaseInv, TypeOK
        <3>2. CASE lease.holder = r
            BY <2>1, <3>1, <3>2 DEF LeaseInv, HolderAttemptIsNewer, Acquire
        <3>3. CASE Expired(r)
            BY <2>0, <3>1, <3>3 DEF Expired
        <3>4. CASE lease.holder = NoHolder
            BY <3>1, <3>4 DEF LeaseInv, TimesInPast
        <3> QED BY <2>1, <3>2, <3>3, <3>4 DEF Acquire, MayTake
    <2>2. CASE UNCHANGED lease
        BY <2>0, <2>2
    <2> QED BY <2>1, <2>2
        DEF Next, Tick, Attempt, Refused, AttemptError, Crash, Restart,
            StartControllers, BeginReconcile, EndReconcile, Hang, StopControllers
<1> QED BY <1>1, LeaseInit, LeaseInductive, PTL DEF Spec, RenewNeverGoesBack

(***************************************************************************)
(* No generation of controllers escapes cancelCtrl: runLeaderElected can   *)
(* always stop every controller it has started and not yet cancelled.      *)
(***************************************************************************)
THEOREM NoOrphans == Spec => []NoOrphanControllers
<1>1. Init => NoOrphanControllers
    BY DEF Init, NoOrphanControllers, NoControllers
<1>2. TypeOK /\ NoOrphanControllers /\ [Next]_vars => NoOrphanControllers'
    <2> SUFFICES ASSUME TypeOK, NoOrphanControllers, [Next]_vars
                 PROVE  NoOrphanControllers'
        OBVIOUS
    <2> USE DEF NoOrphanControllers, TypeOK
    <2>1. ASSUME NEW r \in Replicas, Acquire(r) PROVE NoOrphanControllers'
        <3>1. CASE leading[r]
            BY <2>1, <3>1 DEF Acquire
        <3>2. CASE ~leading[r]
            <4>1. PICK h \in Gens :
                    /\ leading' = [leading EXCEPT ![r] = TRUE]
                    /\ cancelCtrl' = [cancelCtrl EXCEPT ![r] = h]
                    /\ ctrl' = [ctrl EXCEPT ![r][h] = "spawned"]
                    /\ cancelled' = [cancelled EXCEPT ![r] = @ \ {h}]
                BY <2>1, <3>2, StartLeadingStarts DEF Acquire
            <4>2. ASSUME NEW q \in Replicas, NEW g \in Gens,
                         ctrl'[q][g] # "none" \/ g \in hung'[q], g \notin cancelled'[q]
                  PROVE  leading'[q] /\ cancelCtrl'[q] = g
                <5>0. hung' = hung
                    BY <2>1 DEF Acquire
                <5>1. CASE q # r
                    BY <4>1, <4>2, <5>0, <5>1
                <5>2. CASE q = r /\ g # h
                    BY <3>2, <4>1, <4>2, <5>0, <5>2
                <5>3. CASE q = r /\ g = h
                    BY <4>1, <5>3
                <5> QED BY <5>1, <5>2, <5>3
            <4> QED BY <4>2
        <3> QED BY <3>1, <3>2
    <2>2. ASSUME NEW r \in Replicas, Refused(r) PROVE NoOrphanControllers'
        <3>1. CASE leading[r]
            <4>1. /\ leading' = [leading EXCEPT ![r] = FALSE]
                  /\ cancelled' = [cancelled EXCEPT ![r] = @ \cup ({cancelCtrl[r]} \ {NoGen})]
                  /\ UNCHANGED <<cancelCtrl, ctrl, hung>>
                BY <2>2, <3>1 DEF Refused, StopLeading
            <4>2. ASSUME NEW q \in Replicas, NEW g \in Gens,
                         ctrl'[q][g] # "none" \/ g \in hung'[q], g \notin cancelled'[q]
                  PROVE  leading'[q] /\ cancelCtrl'[q] = g
                <5>1. CASE q # r
                    BY <4>1, <4>2, <5>1
                <5>2. CASE q = r
                    <6>1. cancelled'[r] = cancelled[r] \cup ({cancelCtrl[r]} \ {NoGen})
                        BY <4>1
                    <6>2. g \notin cancelled[r] /\ g # cancelCtrl[r]
                        BY <4>2, <5>2, <6>1, NoGenAssumption
                    <6> QED BY <4>1, <4>2, <5>2, <6>2
                <5> QED BY <5>1, <5>2
            <4> QED BY <4>2
        <3>2. CASE ~leading[r]
            BY <2>2, <3>2 DEF Refused
        <3> QED BY <3>1, <3>2
    <2>3. ASSUME NEW r \in Replicas, Crash(r) PROVE NoOrphanControllers'
        BY <2>3 DEF Crash, NoControllers
    <2>4. ASSUME NEW r \in Replicas, NEW g \in Gens,
                 StartControllers(r, g) \/ BeginReconcile(r, g)
                   \/ EndReconcile(r, g) \/ Hang(r, g) \/ StopControllers(r, g)
          PROVE  NoOrphanControllers'
        <3>1. /\ \A q \in Replicas, h \in Gens :
                    ctrl'[q][h] # "none" \/ h \in hung'[q] => ctrl[q][h] # "none" \/ h \in hung[q]
              /\ UNCHANGED <<leading, cancelCtrl, cancelled>>
            BY <2>4 DEF StartControllers, BeginReconcile, EndReconcile, Hang, StopControllers
        <3> QED BY <3>1
    <2>5. CASE UNCHANGED <<leading, cancelCtrl, ctrl, cancelled, hung>>
        BY <2>5
    <2> QED
        BY <2>1, <2>2, <2>3, <2>4, <2>5
        DEF Next, vars, Tick, Attempt, AttemptError, Restart
<1> QED BY <1>1, <1>2, TypeCorrect, PTL DEF Spec

\* The row's TTL is the one its holder stores: a replica's flag does not change.
RowTTL ==
    /\ lease.holder = NoHolder => lease.ttl = 0
    /\ \A r \in Replicas : lease.holder = r => lease.ttl = StoredTTL(r)

\* Only Acquire writes the row, with the holder's own TTL.
LEMMA RowTTLInductive == TypeOK /\ RowTTL /\ [Next]_vars => RowTTL'
<1> SUFFICES ASSUME TypeOK, RowTTL, [Next]_vars PROVE RowTTL'
    OBVIOUS
<1>1. ASSUME NEW r \in Replicas, Acquire(r) PROVE RowTTL'
    BY <1>1, NoHolderAssumption DEF Acquire, Written, RowTTL, StoredTTL
<1>2. CASE UNCHANGED lease
    BY <1>2 DEF RowTTL, StoredTTL
<1> QED BY <1>1, <1>2
    DEF Next, vars, Tick, Attempt, Refused, AttemptError, Crash, Restart,
        StartControllers, BeginReconcile, EndReconcile, Hang, StopControllers

\* A successful TryAcquireLease is a grant: within the holder's own lease or
\* after the end of another's, and never shorter than the one before.
LEMMA AcquireIsGrant ==
    ASSUME LeaseInv, RowTTL, NEW r \in Replicas, Acquire(r)
    PROVE  Granted!Grant(r)
<1>1. /\ clock \in Nat /\ lease.renew \in Nat /\ lease.ttl \in Nat /\ StoredTTL(r) \in Nat
      /\ attempt[r] \in Nat /\ attempt[r] <= clock
    BY StoredTTLType DEF LeaseInv, TypeOK, TimesInPast, Acquire
<1>2. lease' = [holder |-> r, renew |-> attempt[r], ttl |-> StoredTTL(r)] /\ clock' = clock
    BY DEF Acquire, Written
<1>3. lease.holder \in {r, NoHolder} \/ clock > lease.renew + lease.ttl
    BY <1>1 DEF Acquire, MayTake, Expired
<1>4. lease'.renew + lease'.ttl >= lease.renew + lease.ttl
    <2>1. CASE lease.holder = r
        BY <1>1, <1>2, <2>1 DEF LeaseInv, HolderAttemptIsNewer, RowTTL, Acquire
    <2>2. CASE lease.holder = NoHolder
        BY <1>1, <1>2, <2>2 DEF LeaseInv, TimesInPast, RowTTL
    <2>3. CASE Expired(r)
        BY <1>1, <1>2, <2>3 DEF Expired
    <2> QED BY <2>1, <2>2, <2>3 DEF Acquire, MayTake
<1>5. /\ \A q \in Replicas : leading'[q] = IF q = r THEN TRUE ELSE leading[q]
      /\ \A q \in Replicas : lastOK'[q] = IF q = r THEN attempt[r] ELSE lastOK[q]
    <2>1. leading' = [leading EXCEPT ![r] = TRUE]
        <3>1. CASE leading[r]
            BY <3>1 DEF Acquire, LeaseInv, TypeOK
        <3>2. CASE ~leading[r]
            BY <3>2 DEF Acquire, StartLeading
        <3> QED BY <3>1, <3>2
    <2>2. lastOK' = [lastOK EXCEPT ![r] = attempt[r]]
        BY DEF Acquire
    <2> QED BY <2>1, <2>2 DEF LeaseInv, TypeOK
<1>6. [q \in Replicas |-> IF leading'[q] THEN lastOK'[q] + StoredTTL(q) ELSE -1]
        = [[q \in Replicas |-> IF leading[q] THEN lastOK[q] + StoredTTL(q) ELSE -1]
             EXCEPT ![r] = lease'.renew + lease'.ttl]
    BY <1>2, <1>5
<1> QED BY <1>2, <1>3, <1>4, <1>6 DEF Granted!Grant, StoredTTL

(***************************************************************************)
(* The lease row and the replicas' locals implement the abstract lease.    *)
(***************************************************************************)
THEOREM LeaseRefinement == Spec => ImplementsLease
<1>1. Init => Granted!Init
    BY DEF Init, Granted!Init, Granted!Nothing
<1>2. LeaseInv /\ RowTTL /\ [Next]_vars => [Granted!Next]_(Granted!leaseVars)
    <2> SUFFICES ASSUME LeaseInv, RowTTL, [Next]_vars
                 PROVE  [Granted!Next]_(Granted!leaseVars)
        OBVIOUS
    <2> USE DEF Granted!Next, Granted!leaseVars
    <2>1. ASSUME NEW r \in Replicas, Acquire(r) PROVE Granted!Next
        BY <2>1, AcquireIsGrant
    <2>2. CASE Tick
        BY <2>2 DEF Tick, Granted!TimePasses, StoredTTL
    <2>3. ASSUME NEW r \in Replicas, Refused(r) \/ Crash(r), leading[r] PROVE Granted!Next
        <3>1. leading' = [leading EXCEPT ![r] = FALSE] /\ UNCHANGED <<clock, lease, lastOK>>
            BY <2>3 DEF Refused, StopLeading, Crash
        <3>2. [q \in Replicas |-> IF leading'[q] THEN lastOK'[q] + StoredTTL(q) ELSE -1]
                = [[q \in Replicas |-> IF leading[q] THEN lastOK[q] + StoredTTL(q) ELSE -1]
                     EXCEPT ![r] = -1]
            BY <3>1 DEF LeaseInv, TypeOK
        <3>3. Granted!GiveUp(r)
            BY <3>1, <3>2 DEF Granted!GiveUp, Granted!Nothing, StoredTTL
        <3> QED BY <3>3
    <2>4. ASSUME NEW r \in Replicas, Refused(r) \/ Crash(r), ~leading[r]
          PROVE  UNCHANGED <<clock, lease, leading, lastOK>>
        <3>1. leading \in [Replicas -> BOOLEAN]
            BY DEF LeaseInv, TypeOK
        <3>2. CASE Refused(r)
            BY <2>4, <3>2 DEF Refused
        <3>3. CASE Crash(r)
            <4>1. leading' = [leading EXCEPT ![r] = FALSE] /\ leading[r] = FALSE
                BY <2>4, <3>1, <3>3 DEF Crash
            <4>2. leading' = leading
                BY <3>1, <4>1
            <4> QED BY <3>3, <4>2 DEF Crash
        <3> QED BY <2>4, <3>2, <3>3
    <2>5. CASE UNCHANGED <<clock, lease, leading, lastOK>>
        BY <2>5 DEF StoredTTL
    <2> QED BY <2>1, <2>2, <2>3, <2>4, <2>5
        DEF Next, vars, Attempt, AttemptError, Restart,
            StartControllers, BeginReconcile, EndReconcile, Hang, StopControllers
<1>3. Init => RowTTL
    BY NoHolderAssumption DEF Init, RowTTL
<1>4. LeaseInv => TypeOK
    BY DEF LeaseInv
<1> QED
    BY <1>1, <1>2, <1>3, <1>4, LeaseInit, LeaseInductive, RowTTLInductive, PTL
    DEF Spec, ImplementsLease, Granted!Spec

=============================================================================
