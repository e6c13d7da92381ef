--------------------------- MODULE LeaderElection ---------------------------
(***************************************************************************)
(* Leader election between apiserver replicas that share one SQLite file:  *)
(* Store.TryAcquireLease, server.runLeaderElected and startControllers.    *)
(*                                                                         *)
(* Every replica calls TryAcquireLease once per renewal tick.  The call    *)
(* reads the time first and then waits for the database, so the time it    *)
(* compares with and writes to the row may be old when its transaction     *)
(* runs: an attempt is two steps, Attempt (now := time.Now()) and one of   *)
(* Acquire, Refused and AttemptError.  The transaction itself is atomic:   *)
(* SQLite makes the second of two overlapping writers fail.                *)
(*                                                                         *)
(* The replicas share a file, hence a host and its clock.  The clock and   *)
(* the ticks are not synchronised in any way: a tick may be arbitrarily    *)
(* late (a goroutine or a database call may be held up for any time).      *)
(***************************************************************************)
EXTENDS Integers

CONSTANTS
    Replicas,   \* the identities contending for the lease
    NoHolder,   \* the lease row does not exist
    Gens,       \* bound: controller generations of one replica alive at once
    NoGen,      \* cancelCtrl is nil
    TTL,        \* -lease-ttl of each replica, in clock units
    Second,     \* clock units per second
    MaxClock    \* bound on the clock

ASSUME NoHolderAssumption == NoHolder \notin Replicas
ASSUME NoGenAssumption == NoGen \notin Gens
ASSUME TTLAssumption == TTL \in [Replicas -> Nat]
ASSUME SecondAssumption == Second \in Nat \ {0}
ASSUME MaxClockAssumption == MaxClock \in Nat

VARIABLES
    clock,      \* the host's clock
    lease,      \* the lease row: holder, renew_time, ttl_seconds (clock units)
    up,         \* the replica's process is running
    attempt,    \* `now` of the TryAcquireLease call in progress, or Idle
    leading,    \* runLeaderElected: leading
    cancelCtrl, \* runLeaderElected: the generation cancelCtrl cancels
    ctrl,       \* state of each controller generation
    cancelled,  \* generations whose context is cancelled
    hung,       \* generations with a Run loop in a call that is never answered
    lastOK      \* history: `now` of the replica's last successful attempt

vars == <<clock, lease, up, attempt, leading, cancelCtrl, ctrl, cancelled, hung, lastOK>>

Idle == -1

\* A generation is "spawned" by the go statement, then its controllers sit in
\* their select ("waiting") or are inside a reconcile pass ("reconciling").
CtrlStates == {"none", "spawned", "waiting", "reconciling"}

TypeOK ==
    /\ clock \in Nat
    /\ lease \in [holder : Replicas \cup {NoHolder}, renew : Nat, ttl : Nat]
    /\ up \in [Replicas -> BOOLEAN]
    /\ attempt \in [Replicas -> Nat \cup {Idle}]
    /\ leading \in [Replicas -> BOOLEAN]
    /\ cancelCtrl \in [Replicas -> Gens \cup {NoGen}]
    /\ ctrl \in [Replicas -> [Gens -> CtrlStates]]
    /\ cancelled \in [Replicas -> SUBSET Gens]
    /\ hung \in [Replicas -> SUBSET Gens]
    /\ lastOK \in [Replicas -> Nat]

\* int(ttl.Seconds()), back in clock units: the fraction of a second is lost.
StoredTTL(r) == (TTL[r] \div Second) * Second

NoControllers == [g \in Gens |-> "none"]

Init ==
    /\ clock = 0
    /\ lease = [holder |-> NoHolder, renew |-> 0, ttl |-> 0]
    /\ up = [r \in Replicas |-> TRUE]
    /\ attempt = [r \in Replicas |-> Idle]
    /\ leading = [r \in Replicas |-> FALSE]
    /\ cancelCtrl = [r \in Replicas |-> NoGen]
    /\ ctrl = [r \in Replicas |-> NoControllers]
    /\ cancelled = [r \in Replicas |-> {}]
    /\ hung = [r \in Replicas |-> {}]
    /\ lastOK = [r \in Replicas |-> 0]

-----------------------------------------------------------------------------
\* Time passes.
Tick ==
    /\ clock < MaxClock
    /\ clock' = clock + 1
    /\ UNCHANGED <<lease, up, attempt, leading, cancelCtrl, ctrl, cancelled, hung, lastOK>>

\* The renewal ticker fires: TryAcquireLease reads the time and asks for a
\* transaction.
Attempt(r) ==
    /\ up[r]
    /\ attempt[r] = Idle
    /\ attempt' = [attempt EXCEPT ![r] = clock]
    /\ UNCHANGED <<clock, lease, up, leading, cancelCtrl, ctrl, cancelled, hung, lastOK>>

\* Mutant: the lease is taken over a moment too early.
Expired_AtTTL(r) == attempt[r] - lease.renew >= lease.ttl

\* now.Sub(renew) > ttl, with the `now` of this attempt.
Expired(r) == attempt[r] - lease.renew > lease.ttl

\* Mutants: the lease is taken whoever has it; it never expires.
MayTake_Always(r) == attempt[r] # Idle
MayTake_NeverExpires(r) == lease.holder \in {NoHolder, r}

\* The condition under which the transaction writes the row: no row yet, our
\* own row, or an expired one.
MayTake(r) == lease.holder = NoHolder \/ lease.holder = r \/ Expired(r)

\* The row the transaction writes.
Written(r) == [holder |-> r, renew |-> attempt[r], ttl |-> StoredTTL(r)]

\* "ok && !leading": a new context and a new generation of controllers.  Which
\* name it gets makes no difference.
StartLeading(r) ==
    LET unused == {g \in Gens : ctrl[r][g] = "none" /\ g \notin hung[r]}
        new == CHOOSE g \in unused : TRUE
    IN /\ unused # {}
       /\ leading' = [leading EXCEPT ![r] = TRUE]
       /\ cancelCtrl' = [cancelCtrl EXCEPT ![r] = new]
       /\ ctrl' = [ctrl EXCEPT ![r][new] = "spawned"]
       /\ cancelled' = [cancelled EXCEPT ![r] = @ \ {new}]

\* The attempt wins the lease, or renews it.
Acquire(r) ==
    /\ attempt[r] # Idle
    /\ MayTake(r)
    /\ lease' = Written(r)
    /\ attempt' = [attempt EXCEPT ![r] = Idle]
    /\ lastOK' = [lastOK EXCEPT ![r] = attempt[r]]
    /\ IF leading[r]
       THEN UNCHANGED <<leading, cancelCtrl, ctrl, cancelled>>
       ELSE StartLeading(r)
    /\ UNCHANGED <<clock, up, hung>>

\* Mutant: the controllers are not cancelled.
StopLeading_NoCancel(r) ==
    /\ leading' = [leading EXCEPT ![r] = FALSE]
    /\ UNCHANGED cancelled

\* "!ok && leading": stop leading and cancel the generation it started.
StopLeading(r) ==
    /\ leading' = [leading EXCEPT ![r] = FALSE]
    /\ cancelled' = [cancelled EXCEPT ![r] = @ \cup ({cancelCtrl[r]} \ {NoGen})]

\* Mutant: a refusal is only logged.
Refused_OnlyLogged(r) ==
    /\ attempt[r] # Idle
    /\ ~MayTake(r)
    /\ attempt' = [attempt EXCEPT ![r] = Idle]
    /\ UNCHANGED <<clock, lease, up, leading, cancelCtrl, ctrl, cancelled, hung, lastOK>>

\* The attempt finds the lease held by another replica and not expired.
Refused(r) ==
    /\ attempt[r] # Idle
    /\ ~MayTake(r)
    /\ attempt' = [attempt EXCEPT ![r] = Idle]
    /\ IF leading[r]
       THEN StopLeading(r)
       ELSE UNCHANGED <<leading, cancelled>>
    /\ UNCHANGED <<clock, lease, up, cancelCtrl, ctrl, hung, lastOK>>

\* Any database error: logged, and the loop continues as it was.
AttemptError(r) ==
    /\ attempt[r] # Idle
    /\ attempt' = [attempt EXCEPT ![r] = Idle]
    /\ UNCHANGED <<clock, lease, up, leading, cancelCtrl, ctrl, cancelled, hung, lastOK>>

-----------------------------------------------------------------------------
\* The goroutine of startControllers starts the five Run loops.
StartControllers(r, g) ==
    /\ ctrl[r][g] = "spawned"
    /\ ctrl' = [ctrl EXCEPT ![r][g] = "waiting"]
    /\ UNCHANGED <<clock, lease, up, attempt, leading, cancelCtrl, cancelled, hung, lastOK>>

\* A Run loop takes a tick.  A select with both channels ready may take the
\* tick, so this can happen after the cancellation too.
BeginReconcile(r, g) ==
    /\ ctrl[r][g] = "waiting"
    /\ ctrl' = [ctrl EXCEPT ![r][g] = "reconciling"]
    /\ UNCHANGED <<clock, lease, up, attempt, leading, cancelCtrl, cancelled, hung, lastOK>>

\* A pass stays for ever in a call without a timeout: a push to a member cluster
\* or the request for the metrics.  Only the loop that made it is lost, the
\* others of its generation go on.  (Bound: a generation is left for a new term.)
Hang(r, g) ==
    /\ ctrl[r][g] = "reconciling"
    /\ g \notin hung[r] /\ hung[r] \cup {g} # Gens
    /\ hung' = [hung EXCEPT ![r] = @ \cup {g}]
    /\ ctrl' = [ctrl EXCEPT ![r][g] = "waiting"]
    /\ UNCHANGED <<clock, lease, up, attempt, leading, cancelCtrl, cancelled, lastOK>>

\* The pass is over; nothing interrupts it before.
EndReconcile(r, g) ==
    /\ ctrl[r][g] = "reconciling"
    /\ ctrl' = [ctrl EXCEPT ![r][g] = "waiting"]
    /\ UNCHANGED <<clock, lease, up, attempt, leading, cancelCtrl, cancelled, hung, lastOK>>

\* A Run loop takes the closed stop channel and returns.
StopControllers(r, g) ==
    /\ ctrl[r][g] = "waiting"
    /\ g \in cancelled[r]
    /\ ctrl' = [ctrl EXCEPT ![r][g] = "none"]
    /\ UNCHANGED <<clock, lease, up, attempt, leading, cancelCtrl, cancelled, hung, lastOK>>

-----------------------------------------------------------------------------
\* The process dies: everything but the lease row is lost.
Crash(r) ==
    /\ up[r]
    /\ up' = [up EXCEPT ![r] = FALSE]
    /\ attempt' = [attempt EXCEPT ![r] = Idle]
    /\ leading' = [leading EXCEPT ![r] = FALSE]
    /\ cancelCtrl' = [cancelCtrl EXCEPT ![r] = NoGen]
    /\ ctrl' = [ctrl EXCEPT ![r] = NoControllers]
    /\ cancelled' = [cancelled EXCEPT ![r] = {}]
    /\ hung' = [hung EXCEPT ![r] = {}]
    /\ UNCHANGED <<clock, lease, lastOK>>

\* main starts again under the same identity.
Restart(r) ==
    /\ ~up[r]
    /\ up' = [up EXCEPT ![r] = TRUE]
    /\ UNCHANGED <<clock, lease, attempt, leading, cancelCtrl, ctrl, cancelled, hung, lastOK>>

Next ==
    \/ Tick
    \/ \E r \in Replicas :
        \/ Attempt(r) \/ Acquire(r) \/ Refused(r) \/ AttemptError(r)
        \/ Crash(r) \/ Restart(r)
        \/ \E g \in Gens :
            \/ StartControllers(r, g)
            \/ BeginReconcile(r, g) \/ EndReconcile(r, g) \/ Hang(r, g)
            \/ StopControllers(r, g)

Spec == Init /\ [][Next]_vars

\* The renewal ticker keeps firing and database errors are transient (an
\* attempt that can succeed again and again is not failed for ever); a reconcile
\* pass ends or hangs; a select that finds the stop channel ready again and again
\* takes it in the end.
Fairness ==
    \A r \in Replicas :
        /\ WF_vars(Attempt(r))
        /\ SF_vars(Acquire(r)) /\ SF_vars(Refused(r))
        /\ \A g \in Gens :
            /\ WF_vars(StartControllers(r, g) \/ EndReconcile(r, g) \/ Hang(r, g))
            /\ SF_vars(StopControllers(r, g))

FairSpec == Spec /\ Fairness

-----------------------------------------------------------------------------
\* A leader is fresh while its last renewal is no older than the TTL it wrote.
Fresh(r) == leading[r] /\ clock - lastOK[r] <= StoredTTL(r)

(***************************************************************************)
(* What leader election really gives: of the replicas that believe they    *)
(* lead, at most one has renewed within its TTL.  Two replicas lead        *)
(* together only while one of them is late with its renewal (a held-up     *)
(* tick, failing transactions).                                            *)
(***************************************************************************)
AtMostOneFreshLeader ==
    \A r, q \in Replicas : Fresh(r) /\ Fresh(q) => r = q

(***************************************************************************)
(* TryAcquireLease never moves renew_time backwards, although the time it  *)
(* writes was read before the transaction began.                           *)
(***************************************************************************)
RenewNeverGoesBack == [][lease'.renew >= lease.renew]_vars

(***************************************************************************)
(* runLeaderElected loses no generation of controllers: one that is alive, *)
(* if only in a loop that hangs, and not cancelled is the one its replica's*)
(* cancelCtrl stops, and that replica is leading.                          *)
(***************************************************************************)
NoOrphanControllers ==
    \A r \in Replicas, g \in Gens :
        /\ ctrl[r][g] # "none" \/ g \in hung[r]
        /\ g \notin cancelled[r]
        => leading[r] /\ cancelCtrl[r] = g

(***************************************************************************)
(* "Loses leadership => stops controllers": once another replica has the   *)
(* lease, either this replica gets it back or all of its controllers stop, *)
(* a reconcile pass in flight included - all but a loop that is in a call  *)
(* without a timeout nobody answers: federation's push, HPA's metrics.     *)
(***************************************************************************)
DeposedLeaderStops ==
    \A r \in Replicas :
        (lease.holder \notin {r, NoHolder}) ~> (lease.holder = r \/ ctrl[r] = NoControllers)

(***************************************************************************)
(* Failover: an expired lease is renewed or taken over, whoever has        *)
(* crashed, as long as some replica stays up.                              *)
(***************************************************************************)
ExpiredLeaseIsTaken ==
    \A r \in Replicas :
        (up[r] /\ clock - lease.renew > lease.ttl)
            ~> (~up[r] \/ clock - lease.renew <= lease.ttl)

-----------------------------------------------------------------------------
\* Refinement mapping: the row is a grant to its holder up to renew_time + TTL,
\* and a replica that believes it leads relies on the one it last obtained.
Granted == INSTANCE Lease WITH
    holder <- lease.holder,
    until <- lease.renew + lease.ttl,
    promise <- [r \in Replicas |-> IF leading[r] THEN lastOK[r] + StoredTTL(r) ELSE -1]

(***************************************************************************)
(* TryAcquireLease and runLeaderElected implement the abstract lease: late *)
(* attempts, truncated TTLs, errors, crashes and restarts included, no     *)
(* replica comes to lead before the grant of another has ended and no      *)
(* grant is shortened.                                                     *)
(***************************************************************************)
ImplementsLease == Granted!Spec

=============================================================================
