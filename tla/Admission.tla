------------------------------ MODULE Admission ------------------------------
(***************************************************************************)
(* The admission pipeline, the registration of webhooks, and the webhooks  *)
(* the repository comes with: mutateAddLabel and validateMemLimit of       *)
(* mk-sample-webhook and injectSidecar of mk-sidecar-injector, reviewing   *)
(* pods.                                                                   *)
(*                                                                         *)
(* Review reads the registrations once and calls the webhooks one by one   *)
(* over HTTP while registrations come and go; any call may fail.           *)
(***************************************************************************)
EXTENDS Naturals, Sequences, FiniteSets, SequencesExt

CONSTANTS
    Registrations,  \* [name, type, does, resources, policy]: bodies of POST /webhooks
    InitialHooks,   \* sequences of webhooks registered to begin with
    Pods,           \* pods that may be submitted
    MaxHooks        \* bound on registered webhooks

VARIABLES
    hooks,   \* rows of admission_webhooks, in the order of created_at
    review,  \* the review in progress
    demands  \* history: what has been registered ever since the review began

mvars == <<hooks, review, demands>>

\* A container is its name and whether it has a memory limit.
Containers == {"app", "mk-sidecar"} \X BOOLEAN
Webhooks == {"mutateAddLabel", "injectSidecar", "validateMemLimit"}
Rows == [name : {h.name : h \in Registrations}, type : {"Mutating", "Validating"},
         does : Webhooks, resources : {h.resources : h \in Registrations},
         policy : {"Fail", "Ignore"}]
PodRecords == [optedIn : BOOLEAN, admitted : BOOLEAN, containers : Seq(Containers)]

\* name is the primary key of the table.
KeyUnique(hs) == \A i, j \in 1 .. Len(hs) : hs[i].name = hs[j].name => i = j

ASSUME MaxHooksAssumption == MaxHooks \in Nat
ASSUME RegistrationsAssumption ==
    \A h \in Registrations : \E row \in Rows, policy \in {"", "Fail", "Ignore"} :
        h = [row EXCEPT !.policy = policy]
ASSUME InitialHooksAssumption ==
    \A hs \in InitialHooks : hs \in Seq(Rows) /\ Len(hs) <= MaxHooks /\ KeyUnique(hs)
ASSUME PodsAssumption == Pods # {} /\ Pods \subseteq PodRecords

NoReview == [at |-> "idle", todo |-> {}, given |-> CHOOSE p \in Pods : TRUE,
             pod |-> CHOOSE p \in Pods : TRUE]

\* What is left to do are webhooks with their places in the list.
AdmissionTypeOK ==
    /\ hooks \in Seq(Rows) /\ Len(hooks) <= MaxHooks
    /\ KeyUnique(hooks)
    /\ review \in [at : {"idle", "listing", "calling", "admitted", "rejected"},
                   todo : SUBSET ((1 .. MaxHooks) \X Rows), given : Pods, pod : PodRecords]
    /\ demands \in SUBSET Rows

AdmissionInit ==
    /\ hooks \in InitialHooks
    /\ review = NoReview
    /\ demands = {}

-----------------------------------------------------------------------------
(* The webhooks: what they answer for a pod, as the pod they leave. *)

\* mutateAddLabel sets mk-admitted=true.
MutateAddLabel(p) == [p EXCEPT !.admitted = TRUE]

\* Mutant: a sidecar is added to what has one.
InjectSidecar_Again(p) ==
    IF p.optedIn THEN [p EXCEPT !.containers = Append(@, <<"mk-sidecar", FALSE>>)] ELSE p

\* injectSidecar appends a container without limits, on request and only once.
InjectSidecar(p) ==
    IF p.optedIn /\ ~ \E c \in ToSet(p.containers) : c[1] = "mk-sidecar"
    THEN [p EXCEPT !.containers = Append(@, <<"mk-sidecar", FALSE>>)] ELSE p

\* validateMemLimit: every container has a limit.
ValidateMemLimit(p) == \A c \in ToSet(p.containers) : c[2]

Patched(does, p) ==
    CASE does = "mutateAddLabel" -> MutateAddLabel(p)
      [] does = "injectSidecar" -> InjectSidecar(p)
      [] OTHER -> p

Allows(does, p) == does = "validateMemLimit" => ValidateMemLimit(p)

-----------------------------------------------------------------------------
(* Review *)

\* matchesResource, for pods.
MatchesResource(h) == {"*", "pods"} \cap h.resources # {}

\* Mutant: in the order of registration, whatever the type.
Before_AsListed(t, u) == t[1] < u[1]

\* The mutating ones first, then the validating ones, each in the order listed.
Before(t, u) ==
    IF t[2].type = u[2].type THEN t[1] < u[1] ELSE t[2].type = "Mutating"

\* createPod calls Review with a pod that has a name and containers.
BeginReview(p) ==
    /\ review.at = "idle"
    /\ review' = [NoReview EXCEPT !.at = "listing", !.given = p, !.pod = p]
    /\ demands' = ToSet(hooks)
    /\ UNCHANGED hooks

ListWebhooks ==
    /\ review.at = "listing"
    /\ review' = [review EXCEPT !.at = "calling",
                    !.todo = {<<i, hooks[i]>> : i \in {k \in 1 .. Len(hooks) : MatchesResource(hooks[k])}}]
    /\ UNCHANGED <<hooks, demands>>

\* It fails: nothing is admitted.
ListWebhooksFails ==
    /\ review.at = "listing"
    /\ review' = [review EXCEPT !.at = "rejected"]
    /\ UNCHANGED <<hooks, demands>>

\* It is the turn of t.
Calling(t) ==
    /\ review.at = "calling"
    /\ t \in review.todo
    /\ \A u \in review.todo \ {t} : Before(t, u)

Rejected == [review EXCEPT !.at = "rejected", !.todo = {}]

\* Mutant: validating webhooks are shown the pod as it came.
CallAnswered_Original ==
    /\ \E t \in review.todo :
        LET h == t[2]
            shown == IF h.type = "Mutating" THEN review.pod ELSE review.given
        IN /\ Calling(t)
           /\ review' = IF ~Allows(h.does, shown) THEN Rejected
                        ELSE [review EXCEPT !.todo = @ \ {t},
                                !.pod = IF h.type = "Mutating" THEN Patched(h.does, @) ELSE @]
    /\ UNCHANGED <<hooks, demands>>

\* The webhook answers: the patch of a mutating one replaces the pod, that of a
\* validating one is dropped.
CallAnswered ==
    /\ \E t \in review.todo :
        LET h == t[2]
        IN /\ Calling(t)
           /\ review' = IF ~Allows(h.does, review.pod) THEN Rejected
                        ELSE [review EXCEPT !.todo = @ \ {t},
                                !.pod = IF h.type = "Mutating" THEN Patched(h.does, @) ELSE @]
    /\ UNCHANGED <<hooks, demands>>

\* Mutants: every failure is ignored; a failure that is ignored ends the review.
CallFails_Open ==
    /\ \E t \in review.todo : Calling(t) /\ review' = [review EXCEPT !.todo = @ \ {t}]
    /\ UNCHANGED <<hooks, demands>>
CallFails_Ends ==
    /\ \E t \in review.todo :
        /\ Calling(t)
        /\ review' = IF t[2].policy = "Ignore" THEN [review EXCEPT !.todo = {}] ELSE Rejected
    /\ UNCHANGED <<hooks, demands>>

\* No answer within three seconds, an error status or an answer that cannot be
\* read, from a server that is down or one that is not.
CallFails ==
    /\ \E t \in review.todo :
        /\ Calling(t)
        /\ review' = IF t[2].policy = "Ignore" THEN [review EXCEPT !.todo = @ \ {t}] ELSE Rejected
    /\ UNCHANGED <<hooks, demands>>

Admit ==
    /\ review.at = "calling"
    /\ review.todo = {}
    /\ review' = [review EXCEPT !.at = "admitted"]
    /\ UNCHANGED <<hooks, demands>>

\* The answer has been used.
EndReview ==
    /\ review' = NoReview
    /\ demands' = {}
    /\ UNCHANGED hooks

Pipeline == ListWebhooks \/ ListWebhooksFails \/ CallAnswered \/ CallFails \/ Admit

-----------------------------------------------------------------------------
(* POST and DELETE of webhooks. *)

\* Mutant: a row that exists is not replaced but joined.
UpsertWebhook_Inserts(h) ==
    LET row == [h EXCEPT !.policy = IF @ = "" THEN "Fail" ELSE @]
    IN /\ row \notin ToSet(hooks) /\ Len(hooks) < MaxHooks
       /\ hooks' = Append(hooks, row)
       /\ demands' = demands \cap ToSet(hooks')
       /\ UNCHANGED review

\* UpsertWebhook: a policy left out is Fail; a row that exists keeps its place.
UpsertWebhook(h) ==
    LET row == [h EXCEPT !.policy = IF @ = "" THEN "Fail" ELSE @]
        at == {i \in 1 .. Len(hooks) : hooks[i].name = h.name}
    IN /\ row \notin ToSet(hooks)
       /\ at = {} => Len(hooks) < MaxHooks
       /\ hooks' = IF at = {} THEN Append(hooks, row)
                   ELSE [i \in 1 .. Len(hooks) |-> IF i \in at THEN row ELSE hooks[i]]
       /\ demands' = demands \cap ToSet(hooks')
       /\ UNCHANGED review

DeleteWebhook(i) ==
    /\ i \in 1 .. Len(hooks)
    /\ hooks' = RemoveAt(hooks, i)
    /\ demands' = demands \cap ToSet(hooks')
    /\ UNCHANGED review

Register ==
    \/ \E h \in Registrations : UpsertWebhook(h)
    \/ \E i \in 1 .. MaxHooks : DeleteWebhook(i)

-----------------------------------------------------------------------------
\* The places of the sidecars among the containers.
Sidecars(p) == {i \in 1 .. Len(p.containers) : p.containers[i][1] = "mk-sidecar"}

\* Webhook h has had its way with the pod under review.
Satisfied(h) ==
    /\ h.type = "Mutating" /\ h.does = "mutateAddLabel" => review.pod.admitted
    /\ h.type = "Mutating" /\ h.does = "injectSidecar" /\ review.given.optedIn =>
            IF Sidecars(review.given) = {} THEN Cardinality(Sidecars(review.pod)) = 1
            ELSE Sidecars(review.pod) = Sidecars(review.given)
    /\ h.type = "Validating" /\ h.does = "validateMemLimit" =>
            \A i \in 1 .. Len(review.pod.containers) : review.pod.containers[i][2]

(***************************************************************************)
(* What is admitted is what the webhooks asked for: every webhook that was *)
(* registered from before the review until its end and must not fail has   *)
(* had its way with the pod that is stored - labelled, with one sidecar if *)
(* it asked for it (not two, if the injector is registered twice, and none *)
(* but its own if the pod brought some) and, after all the patches, within *)
(* the memory rule - whichever other webhooks come, go, fail or are ignored*)
(* meanwhile.                                                              *)
(***************************************************************************)
AdmittedMeetsDemands ==
    review.at = "admitted" =>
        \A h \in demands : h.policy = "Fail" /\ {"*", "pods"} \cap h.resources # {} => Satisfied(h)

=============================================================================
