--------------------------- MODULE CustomResources ---------------------------
(***************************************************************************)
(* Custom resources: the handlers of CRDs, handleDynamicCR for the         *)
(* resources they define, the two tables, ValidateSpec, and a Manager of   *)
(* the operator package polling the resources of one CRD.                  *)
(*                                                                         *)
(* Nothing ties the rows of the two tables together.  A POST looks up the  *)
(* CRD, authenticates, authorizes, validates against the CRD it looked up  *)
(* and writes under its name; a DELETE of a CRD removes its row and, in a  *)
(* second statement whose error is dropped, its resources.  A CRD is found *)
(* by the plural alone, which need not be unique.                          *)
(***************************************************************************)
EXTENDS Naturals, FiniteSets

CONSTANTS
    CRDs, NoCRD,    \* names of CRDs
    CRs, NoCR,      \* names of custom resources
    Definitions,    \* values [path, schema] of a CRD's spec
    NoDefinition,
    Specs, NoSpec,  \* specs: the JSON type of each property they give
    Watched,        \* CRDName of the operator's Manager
    MaxChanges      \* bound on what users do

ASSUME NamesAssumption == NoCRD \notin CRDs /\ NoCR \notin CRs /\ Watched \in CRDs
ASSUME NoSpecAssumption == NoSpec \notin Specs /\ NoDefinition \notin Definitions
ASSUME DefinitionsAssumption == Definitions # {}
ASSUME MaxChangesAssumption == MaxChanges \in Nat

VARIABLES
    crds,     \* the definition of each CRD
    rows,     \* the spec of each custom resource, by CRD and name
    post,     \* a POST of a custom resource, after the lookup of its CRD
    purges,   \* deletes of each CRD that have yet to remove its resources
    op,       \* the pass of the operator
    changes,
    acked,    \* history: resources created and since then not deleted
    raced,    \* history: CRDs with a delete that overlapped a POST or half failed
    reborn,   \* history: CRDs registered during a delete of their own
    revised   \* history: CRDs whose definition was replaced in place

vars == <<crds, rows, post, purges, op, changes, acked, raced, reborn, revised>>

Paths == {d.path : d \in Definitions}      \* <<group, version, plural>>
Schemas == {d.schema : d \in Definitions}  \* [required, types]

NoPost == [crd |-> NoCRD, cr |-> NoCR, spec |-> NoSpec, schema |-> CHOOSE s \in Schemas : TRUE]
Idle == [at |-> "idle", path |-> CHOOSE p \in Paths : TRUE, todo |-> {}, now |-> <<NoCRD, NoCR>>]

TypeOK ==
    /\ crds \in [CRDs -> Definitions \cup {NoDefinition}]
    /\ rows \in [CRDs \X CRs -> Specs \cup {NoSpec}]
    /\ post \in [crd : CRDs \cup {NoCRD}, cr : CRs \cup {NoCR}, spec : Specs \cup {NoSpec},
                 schema : Schemas]
    /\ purges \in [CRDs -> 0 .. MaxChanges]
    /\ op \in [at : {"idle", "listing", "reconciling"}, path : Paths,
               todo : SUBSET (CRDs \X CRs),
               now : (CRDs \cup {NoCRD}) \X (CRs \cup {NoCR})]
    /\ changes \in 0 .. MaxChanges
    /\ acked \in SUBSET (CRDs \X CRs)
    /\ raced \in SUBSET CRDs /\ reborn \in SUBSET CRDs /\ revised \in SUBSET CRDs

Registered == {d \in CRDs : crds[d] # NoDefinition}
Stored == {r \in CRDs \X CRs : rows[r] # NoSpec}
Of(d) == {r \in Stored : r[1] = d}

Init ==
    /\ crds \in [CRDs -> Definitions \cup {NoDefinition}]
    /\ rows = [r \in CRDs \X CRs |-> NoSpec]
    /\ post = NoPost
    /\ purges = [d \in CRDs |-> 0]
    /\ op = Idle
    /\ changes = 0
    /\ acked = {} /\ raced = {} /\ reborn = {} /\ revised = {}

Change == changes < MaxChanges /\ changes' = changes + 1

-----------------------------------------------------------------------------
(* ValidateSpec *)

\* typeMatches, for the JSON type of a value.
TypeMatches(t, v) ==
    CASE t \in {"integer", "number"} -> v = "number"
      [] t \in {"string", "boolean", "object", "array"} -> v = t
      [] OTHER -> TRUE

\* Mutant: what is not given is not asked for.
ValidateSpec_NotRequired(schema, spec) ==
    \A k \in DOMAIN schema.types \cap DOMAIN spec : TypeMatches(schema.types[k], spec[k])

\* Required properties are there; those given have their declared type.
ValidateSpec(schema, spec) ==
    /\ schema.required \subseteq DOMAIN spec
    /\ \A k \in DOMAIN schema.types \cap DOMAIN spec : TypeMatches(schema.types[k], spec[k])

-----------------------------------------------------------------------------
(* POST and DELETE of CRDs *)

\* UpsertCRD.
UpsertCRD(d, def) ==
    /\ Change
    /\ crds[d] # def
    /\ crds' = [crds EXCEPT ![d] = def]
    /\ reborn' = IF purges[d] > 0 THEN reborn \cup {d} ELSE reborn
    /\ revised' = IF d \in Registered THEN revised \cup {d} ELSE revised
    /\ UNCHANGED <<rows, post, purges, op, acked, raced>>

\* Mutant: the resources are left alone.
DeleteCRD_RowOnly(d) ==
    /\ Change
    /\ d \in Registered
    /\ crds' = [crds EXCEPT ![d] = NoDefinition]
    /\ acked' = {r \in acked : r[1] # d}
    /\ raced' = IF post.crd = d THEN raced \cup {d} ELSE raced
    /\ UNCHANGED <<rows, post, purges, op, reborn, revised>>

\* DeleteCRD, the first statement.
DeleteCRD(d) ==
    /\ Change
    /\ d \in Registered
    /\ crds' = [crds EXCEPT ![d] = NoDefinition]
    /\ purges' = [purges EXCEPT ![d] = @ + 1]
    /\ acked' = {r \in acked : r[1] # d}
    /\ raced' = IF post.crd = d THEN raced \cup {d} ELSE raced
    /\ UNCHANGED <<rows, post, op, reborn, revised>>

\* Mutant: it takes all resources.
DeleteResources_All(d) ==
    /\ purges[d] > 0
    /\ purges' = [purges EXCEPT ![d] = @ - 1]
    /\ rows' = [r \in CRDs \X CRs |-> NoSpec]
    /\ UNCHANGED <<crds, post, op, changes, acked, raced, reborn, revised>>

\* The second: every resource under that name.
DeleteResources(d) ==
    /\ purges[d] > 0
    /\ purges' = [purges EXCEPT ![d] = @ - 1]
    /\ rows' = [r \in CRDs \X CRs |-> IF r[1] = d THEN NoSpec ELSE rows[r]]
    /\ UNCHANGED <<crds, post, op, changes, acked, raced, reborn, revised>>

\* It fails, or the apiserver dies before it; the error is dropped.
DeleteResourcesFails(d) ==
    /\ purges[d] > 0
    /\ purges' = [purges EXCEPT ![d] = @ - 1]
    /\ raced' = raced \cup {d}
    /\ UNCHANGED <<crds, rows, post, op, changes, acked, reborn, revised>>

-----------------------------------------------------------------------------
(* handleDynamicCR *)

\* GetCRDByPlural, some CRD with that plural, which must be the one of the path.
Resolves(d, path) ==
    /\ d \in Registered
    /\ crds[d].path[3] = path[3]
    /\ crds[d].path = path

\* POST to a path, up to the lookup of the CRD.
CreateCR(path, x, spec) ==
    /\ Change
    /\ post.crd = NoCRD
    /\ \E d \in CRDs :
        /\ Resolves(d, path)
        /\ post' = [crd |-> d, cr |-> x, spec |-> spec, schema |-> crds[d].schema]
    /\ UNCHANGED <<crds, rows, purges, op, acked, raced, reborn, revised>>

\* 401, 403 or 500 from the Authorizer (AccessControl), a bad body, or an error
\* of the store.
CreateCRRefused ==
    /\ post.crd # NoCRD
    /\ post' = NoPost
    /\ UNCHANGED <<crds, rows, purges, op, changes, acked, raced, reborn, revised>>

\* Mutant: it is not validated.
UpsertCustomResource_Any ==
    LET r == <<post.crd, post.cr>>
    IN /\ post.crd # NoCRD
       /\ rows' = [rows EXCEPT ![r] = post.spec]
       /\ acked' = IF post.crd \in Registered THEN acked \cup {r} ELSE acked
       /\ post' = NoPost
       /\ UNCHANGED <<crds, purges, op, changes, raced, reborn, revised>>

\* It is allowed: validated against the schema as looked up, and written.
UpsertCustomResource ==
    LET r == <<post.crd, post.cr>>
    IN /\ post.crd # NoCRD
       /\ ValidateSpec(post.schema, post.spec)
       /\ rows' = [rows EXCEPT ![r] = post.spec]
       /\ acked' = IF post.crd \in Registered THEN acked \cup {r} ELSE acked
       /\ post' = NoPost
       /\ UNCHANGED <<crds, purges, op, changes, raced, reborn, revised>>

\* DELETE of a resource, by path and name.  Lookup and DELETE are one step here:
\* that the CRD goes or moves to another path while the Authorizer decides is
\* left out, since the resource is one its user wanted gone in any case.
DeleteCustomResource(path, x) ==
    /\ Change
    /\ \E d \in CRDs :
        /\ Resolves(d, path)
        /\ <<d, x>> \in Stored
        /\ rows' = [rows EXCEPT ![<<d, x>>] = NoSpec]
        /\ acked' = acked \ {<<d, x>>}
    /\ UNCHANGED <<crds, post, purges, op, raced, reborn, revised>>

-----------------------------------------------------------------------------
(* The operator's Manager *)

\* ListCustomResources of the client first asks for the CRD by name ...
GetCRD ==
    /\ op.at = "idle"
    /\ Watched \in Registered
    /\ op' = [Idle EXCEPT !.at = "listing", !.path = crds[Watched].path]
    /\ UNCHANGED <<crds, rows, post, purges, changes, acked, raced, reborn, revised>>

\* (404 or an error: until the next tick)
GetCRDFails == op.at = "idle" /\ UNCHANGED vars

\* ... and then for the resources at the path it gives.
ListCustomResources ==
    /\ op.at = "listing"
    /\ \E d \in CRDs :
        /\ Resolves(d, op.path)
        /\ op' = [op EXCEPT !.at = "reconciling", !.todo = Of(d)]
    /\ UNCHANGED <<crds, rows, post, purges, changes, acked, raced, reborn, revised>>

\* 404, another CRD with that plural found, or an error: until the next tick.
ListCustomResourcesFails ==
    /\ op.at = "listing"
    /\ op' = Idle
    /\ UNCHANGED <<crds, rows, post, purges, changes, acked, raced, reborn, revised>>

\* Mutant: an error ends the pass.
Reconcile_Stops(r) ==
    /\ op.at = "reconciling"
    /\ r \in op.todo
    /\ \E ok \in BOOLEAN :
        op' = [op EXCEPT !.todo = IF ok THEN @ \ {r} ELSE {}, !.now = r]
    /\ UNCHANGED <<crds, rows, post, purges, changes, acked, raced, reborn, revised>>

\* Reconcile of one resource; an error is logged.
Reconcile(r) ==
    /\ op.at = "reconciling"
    /\ r \in op.todo
    /\ op' = [op EXCEPT !.todo = @ \ {r}, !.now = r]
    /\ UNCHANGED <<crds, rows, post, purges, changes, acked, raced, reborn, revised>>

EndPass ==
    /\ op.at = "reconciling"
    /\ op.todo = {}
    /\ op' = Idle
    /\ UNCHANGED <<crds, rows, post, purges, changes, acked, raced, reborn, revised>>

-----------------------------------------------------------------------------
Next ==
    \/ \E d \in CRDs :
        \/ \E def \in Definitions : UpsertCRD(d, def)
        \/ DeleteCRD(d) \/ DeleteResources(d) \/ DeleteResourcesFails(d)
    \/ \E path \in Paths, x \in CRs :
        (\E spec \in Specs : CreateCR(path, x, spec)) \/ DeleteCustomResource(path, x)
    \/ CreateCRRefused \/ UpsertCustomResource
    \/ GetCRD \/ GetCRDFails \/ ListCustomResources \/ ListCustomResourcesFails
    \/ (\E r \in CRDs \X CRs : Reconcile(r)) \/ EndPass

Spec == Init /\ [][Next]_vars

\* Handlers finish and the ticker of the Manager goes on; a list that could
\* succeed again and again does.
Fairness ==
    /\ \A d \in CRDs : WF_vars(DeleteResources(d) \/ DeleteResourcesFails(d))
    /\ WF_vars(CreateCRRefused \/ UpsertCustomResource)
    /\ WF_vars(GetCRD) /\ WF_vars(ListCustomResources \/ ListCustomResourcesFails)
    /\ SF_vars(ListCustomResources)
    /\ \A r \in CRDs \X CRs : WF_vars(Reconcile(r))
    /\ WF_vars(EndPass)

FairSpec == Spec /\ Fairness

-----------------------------------------------------------------------------
JSONTypes == {"string", "integer", "number", "boolean", "object", "array"}

\* No other CRD has the plural of d.
Unique(d) ==
    d \in Registered =>
        \A e \in Registered \ {d} : crds[e].path[3] # crds[d].path[3]

(***************************************************************************)
(* A deleted CRD leaves nothing behind: when the DELETE is over there are  *)
(* no resources under its name for a later CRD of that name to inherit,    *)
(* unless a POST had looked the CRD up before, or the second statement     *)
(* failed.                                                                 *)
(***************************************************************************)
NoOrphans ==
    \A d \in CRDs \ (Registered \cup raced) : purges[d] = 0 => Of(d) = {}

(***************************************************************************)
(* A resource that was created stays until it or its CRD is deleted - but  *)
(* for the CRD registered again during its own deletion, whose second      *)
(* statement then takes the new resources.                                 *)
(***************************************************************************)
CreatedStays == \A r \in acked : r[1] \notin reborn => r \in Stored

(***************************************************************************)
(* Every resource satisfies the schema of its CRD, as long as the          *)
(* definition was not replaced in place and no resource outlived an        *)
(* earlier one: validation uses a CRD read some statements before.  A type *)
(* that is none of JSON's asks for nothing.                                *)
(***************************************************************************)
ConformsToSchema ==
    \A r \in Stored : r[1] \in Registered \ (revised \cup raced \cup reborn) =>
        LET schema == crds[r[1]].schema
            given == rows[r]
        IN \A k \in schema.required \cup DOMAIN schema.types :
            /\ k \in schema.required => k \in DOMAIN given
            /\ k \in DOMAIN schema.types \cap DOMAIN given =>
                \/ schema.types[k] = given[k]
                \/ schema.types[k] = "integer" /\ given[k] = "number"
                \/ schema.types[k] \notin JSONTypes

(***************************************************************************)
(* The operator sees every resource again and again that is there to stay, *)
(* if its CRD is the only one with its plural: otherwise the lookup may    *)
(* find the other CRD for ever.                                            *)
(***************************************************************************)
OperatorSeesAll ==
    \A x \in CRs :
        <>[](<<Watched, x>> \in Stored /\ Watched \in Registered /\ Unique(Watched))
            => []<>(op.now = <<Watched, x>>)

=============================================================================
