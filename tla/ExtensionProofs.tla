-------------------------- MODULE ExtensionProofs --------------------------
(***************************************************************************)
(* Proofs about the two extensions of the API: CustomResources, for any    *)
(* names, definitions and specs and any number of changes; and, in its     *)
(* second part, Federation, for any finite set of members and any number   *)
(* of controllers and disturbances.                                        *)
(***************************************************************************)
EXTENDS CustomResources, Federation, FiniteSetTheorems, TLAPS

\* A delete is under way only for a change that was made.
PurgesBounded == \A d \in CRDs : purges[d] <= changes

\* A POST that looked its CRD up writes under one that is there, or one whose
\* deletion it overlapped.
PostKnown == post.crd # NoCRD => post.crd \in Registered \cup raced /\ post.cr \in CRs
                                 /\ post.spec \in Specs

\* The schema it looked up is that of the CRD, but for the excepted races.
PostCurrent ==
    post.crd # NoCRD /\ post.crd \notin revised \cup raced \cup reborn
        => post.schema = crds[post.crd].schema

\* During the deletion of a CRD there is none of that name, unless it was
\* registered anew.
PurgedGone == \A d \in CRDs \ reborn : purges[d] > 0 => d \notin Registered

\* What was created and not deleted is under a CRD that is there.
AckedRegistered == \A r \in acked : r[1] \notin reborn => r[1] \in Registered

CRInv ==
    /\ TypeOK /\ PurgesBounded /\ PostKnown /\ PostCurrent /\ PurgedGone /\ AckedRegistered
    /\ NoOrphans /\ CreatedStays /\ ConformsToSchema

-----------------------------------------------------------------------------
\* The records of a POST and of a pass that are not there.
LEMMA EmptyRecords ==
    /\ NoPost \in [crd : CRDs \cup {NoCRD}, cr : CRs \cup {NoCR}, spec : Specs \cup {NoSpec},
                   schema : Schemas]
    /\ NoPost.crd = NoCRD
    /\ Idle \in [at : {"idle", "listing", "reconciling"}, path : Paths,
                 todo : SUBSET (CRDs \X CRs),
                 now : (CRDs \cup {NoCRD}) \X (CRs \cup {NoCR})]
<1>1. Schemas # {} /\ Paths # {}
    BY DefinitionsAssumption DEF Schemas, Paths
<1>2. (CHOOSE s \in Schemas : TRUE) \in Schemas /\ (CHOOSE p \in Paths : TRUE) \in Paths
    BY <1>1
<1> QED BY <1>2 DEF NoPost, Idle

\* What a registered CRD holds is a definition, and its parts are typed.
LEMMA DefinitionParts ==
    ASSUME TypeOK, NEW d \in Registered
    PROVE  /\ d \in CRDs /\ crds[d] \in Definitions
           /\ crds[d].path \in Paths /\ crds[d].schema \in Schemas
BY DEF TypeOK, Registered, Paths, Schemas

-----------------------------------------------------------------------------
\* Every step keeps the variables in their types.
LEMMA TypeInductive ==
    TypeOK /\ PurgesBounded /\ PostKnown /\ [Next]_vars => TypeOK' /\ PurgesBounded'
<1> SUFFICES ASSUME TypeOK, PurgesBounded, PostKnown, [Next]_vars
             PROVE  TypeOK' /\ PurgesBounded'
    OBVIOUS
<1> USE EmptyRecords, MaxChangesAssumption DEF TypeOK, PurgesBounded
<1>1. ASSUME NEW d \in CRDs, NEW def \in Definitions, UpsertCRD(d, def)
      PROVE  TypeOK' /\ PurgesBounded'
    BY <1>1 DEF UpsertCRD, Change
<1>2. ASSUME NEW d \in CRDs, DeleteCRD(d)
      PROVE  TypeOK' /\ PurgesBounded'
    <2>1. changes' = changes + 1 /\ changes' \in 0 .. MaxChanges
        BY <1>2 DEF DeleteCRD, Change
    <2>2. purges' = [purges EXCEPT ![d] = @ + 1]
        BY <1>2 DEF DeleteCRD
    <2>3. PurgesBounded' /\ purges' \in [CRDs -> 0 .. MaxChanges]
        BY <2>1, <2>2
    <2> QED BY <1>2, <2>1, <2>3 DEF DeleteCRD
<1>3. ASSUME NEW d \in CRDs, DeleteResources(d) \/ DeleteResourcesFails(d)
      PROVE  TypeOK' /\ PurgesBounded'
    <2>1. purges' = [purges EXCEPT ![d] = @ - 1] /\ purges[d] > 0 /\ changes' = changes
        BY <1>3 DEF DeleteResources, DeleteResourcesFails
    <2>2. PurgesBounded' /\ purges' \in [CRDs -> 0 .. MaxChanges]
        BY <2>1
    <2>3. rows' \in [CRDs \X CRs -> Specs \cup {NoSpec}] /\ raced' \in SUBSET CRDs
        BY <1>3 DEF DeleteResources, DeleteResourcesFails
    <2> QED BY <1>3, <2>1, <2>2, <2>3 DEF DeleteResources, DeleteResourcesFails
<1>4. ASSUME NEW path \in Paths, NEW x \in CRs, NEW spec \in Specs, CreateCR(path, x, spec)
      PROVE  TypeOK' /\ PurgesBounded'
    BY <1>4, DefinitionParts DEF CreateCR, Resolves, Change
<1>5. ASSUME NEW path \in Paths, NEW x \in CRs, DeleteCustomResource(path, x)
      PROVE  TypeOK' /\ PurgesBounded'
    BY <1>5 DEF DeleteCustomResource, Change
<1>6. CASE CreateCRRefused
    BY <1>6 DEF CreateCRRefused
<1>7. CASE UpsertCustomResource
    <2>1. post.crd \in CRDs /\ post.cr \in CRs /\ post.spec \in Specs
        BY <1>7 DEF UpsertCustomResource, PostKnown, Registered
    <2> QED BY <1>7, <2>1 DEF UpsertCustomResource
<1>8. CASE GetCRD
    <2>1. Watched \in Registered /\ crds[Watched].path \in Paths
        BY <1>8, DefinitionParts DEF GetCRD
    <2>2. op' = [Idle EXCEPT !.at = "listing", !.path = crds[Watched].path]
        BY <1>8 DEF GetCRD
    <2> DEFINE Passes == [at : {"idle", "listing", "reconciling"}, path : Paths,
                          todo : SUBSET (CRDs \X CRs),
                          now : (CRDs \cup {NoCRD}) \X (CRs \cup {NoCR})]
    <2>3. op' \in Passes
        <3>1. \A x \in Passes : \A p \in Paths :
                [x EXCEPT !.at = "listing", !.path = p] \in Passes
            OBVIOUS
        <3> QED BY <2>1, <2>2, <3>1
    <2>4. UNCHANGED <<crds, rows, post, purges, changes, acked, raced, reborn, revised>>
        BY <1>8 DEF GetCRD
    <2> QED BY <2>3, <2>4
<1>9. CASE ListCustomResources
    <2>1. PICK d \in CRDs : op' = [op EXCEPT !.at = "reconciling", !.todo = Of(d)]
        BY <1>9 DEF ListCustomResources
    <2>2. Of(d) \in SUBSET (CRDs \X CRs)
        BY DEF Of, Stored
    <2>3. UNCHANGED <<crds, rows, post, purges, changes, acked, raced, reborn, revised>>
        BY <1>9 DEF ListCustomResources
    <2> QED BY <2>1, <2>2, <2>3
<1>10. CASE ListCustomResourcesFails \/ EndPass
    BY <1>10 DEF ListCustomResourcesFails, EndPass
<1>11. ASSUME NEW r \in CRDs \X CRs, Reconcile(r)
       PROVE  TypeOK' /\ PurgesBounded'
    BY <1>11 DEF Reconcile
<1>12. CASE GetCRDFails \/ UNCHANGED vars
    BY <1>12 DEF GetCRDFails, vars
<1> QED BY <1>1, <1>2, <1>3, <1>4, <1>5, <1>6, <1>7, <1>8, <1>9, <1>10, <1>11, <1>12 DEF Next

\* A POST is typed, knows its CRD and has its schema, whatever happens to the
\* CRD between the lookup and the write.
LEMMA PostInductive ==
    CRInv /\ TypeOK' /\ [Next]_vars => PostKnown' /\ PostCurrent'
<1> SUFFICES ASSUME CRInv, TypeOK', [Next]_vars
             PROVE  PostKnown' /\ PostCurrent'
    OBVIOUS
<1> USE DEF PostKnown, PostCurrent, Registered, CRInv, TypeOK
<1>1. ASSUME NEW d \in CRDs, NEW def \in Definitions, UpsertCRD(d, def)
      PROVE  PostKnown' /\ PostCurrent'
    BY <1>1, NoSpecAssumption DEF UpsertCRD
<1>2. ASSUME NEW d \in CRDs, DeleteCRD(d)
      PROVE  PostKnown' /\ PostCurrent'
    BY <1>2 DEF DeleteCRD
<1>3. ASSUME NEW path \in Paths, NEW x \in CRs, NEW spec \in Specs, CreateCR(path, x, spec)
      PROVE  PostKnown' /\ PostCurrent'
    <2>1. PICK d \in CRDs :
            /\ d \in Registered
            /\ post' = [crd |-> d, cr |-> x, spec |-> spec, schema |-> crds[d].schema]
        BY <1>3 DEF CreateCR, Resolves
    <2> QED BY <1>3, <2>1 DEF CreateCR
<1>4. CASE CreateCRRefused \/ UpsertCustomResource
    <2>1. post'.crd = NoCRD
        BY <1>4, EmptyRecords DEF CreateCRRefused, UpsertCustomResource
    <2> QED BY <2>1
<1>5. CASE UNCHANGED <<crds, post, reborn, revised>> /\ raced \subseteq raced'
    BY <1>5
<1>6. ASSUME NEW d \in CRDs, DeleteResources(d) \/ DeleteResourcesFails(d)
      PROVE  PostKnown' /\ PostCurrent'
    BY <1>6, <1>5 DEF DeleteResources, DeleteResourcesFails
<1>7. ASSUME NEW path \in Paths, NEW x \in CRs, DeleteCustomResource(path, x)
      PROVE  PostKnown' /\ PostCurrent'
    BY <1>7, <1>5 DEF DeleteCustomResource
<1>8. CASE \/ GetCRD \/ GetCRDFails \/ ListCustomResources \/ ListCustomResourcesFails
           \/ (\E r \in CRDs \X CRs : Reconcile(r)) \/ EndPass \/ UNCHANGED vars
    BY <1>8, <1>5 DEF GetCRD, GetCRDFails, ListCustomResources, ListCustomResourcesFails,
        Reconcile, EndPass, vars
<1> QED BY <1>1, <1>2, <1>3, <1>4, <1>6, <1>7, <1>8 DEF Next

\* The deletion of a CRD, and what was created under it.
LEMMA DeletionInductive ==
    CRInv /\ TypeOK' /\ [Next]_vars
        => PurgedGone' /\ AckedRegistered' /\ NoOrphans' /\ CreatedStays'
<1> DEFINE Goal == PurgedGone /\ AckedRegistered /\ NoOrphans /\ CreatedStays
<1> SUFFICES ASSUME CRInv, TypeOK', [Next]_vars
             PROVE  Goal'
    OBVIOUS
<1> USE DEF PurgedGone, AckedRegistered, NoOrphans, CreatedStays, Registered, Stored, Of,
        CRInv, TypeOK
<1>1. ASSUME NEW d \in CRDs, NEW def \in Definitions, UpsertCRD(d, def)
      PROVE  Goal'
    BY <1>1, NoSpecAssumption DEF UpsertCRD
<1>2. ASSUME NEW d \in CRDs, DeleteCRD(d)
      PROVE  Goal'
    BY <1>2 DEF DeleteCRD
<1>3. ASSUME NEW d \in CRDs, DeleteResources(d)
      PROVE  Goal'
    BY <1>3 DEF DeleteResources
<1>4. ASSUME NEW d \in CRDs, DeleteResourcesFails(d)
      PROVE  Goal'
    BY <1>4 DEF DeleteResourcesFails
<1>5. ASSUME NEW path \in Paths, NEW x \in CRs, DeleteCustomResource(path, x)
      PROVE  Goal'
    BY <1>5 DEF DeleteCustomResource
<1>6. CASE UpsertCustomResource
    BY <1>6, NoSpecAssumption DEF UpsertCustomResource, PostKnown
<1>7. CASE UNCHANGED <<crds, rows, purges, acked, raced, reborn>>
    BY <1>7
<1>8. CASE \/ \E path \in Paths, x \in CRs, spec \in Specs : CreateCR(path, x, spec)
           \/ CreateCRRefused
           \/ GetCRD \/ GetCRDFails \/ ListCustomResources \/ ListCustomResourcesFails
           \/ (\E r \in CRDs \X CRs : Reconcile(r)) \/ EndPass \/ UNCHANGED vars
    BY <1>8, <1>7 DEF CreateCR, CreateCRRefused, GetCRD, GetCRDFails, ListCustomResources,
        ListCustomResourcesFails, Reconcile, EndPass, vars
<1> QED BY <1>1, <1>2, <1>3, <1>4, <1>5, <1>6, <1>8 DEF Next

-----------------------------------------------------------------------------
\* Every stored resource fits the schema, as ConformsToSchema puts it.
Fits(schema, given) ==
    \A k \in schema.required \cup DOMAIN schema.types :
        /\ k \in schema.required => k \in DOMAIN given
        /\ k \in DOMAIN schema.types \cap DOMAIN given =>
            \/ schema.types[k] = given[k]
            \/ schema.types[k] = "integer" /\ given[k] = "number"
            \/ schema.types[k] \notin JSONTypes

\* ValidateSpec lets nothing else through.
LEMMA ValidatedFits ==
    ASSUME NEW schema, NEW given, ValidateSpec(schema, given)
    PROVE  Fits(schema, given)
<1>1. \A t, v : TypeMatches(t, v) => \/ t = v
                                     \/ t = "integer" /\ v = "number"
                                     \/ t \notin JSONTypes
    BY DEF TypeMatches, JSONTypes
<1> QED BY <1>1 DEF ValidateSpec, Fits

\* A step keeps the resources of a CRD fitting: one that is written was
\* validated, a CRD that is registered has none.
LEMMA ConformityInductive ==
    CRInv /\ TypeOK' /\ [Next]_vars => ConformsToSchema'
<1> DEFINE Conforms == \A r \in Stored : r[1] \in Registered \ (revised \cup raced \cup reborn)
                            => Fits(crds[r[1]].schema, rows[r])
<1>1. Conforms = ConformsToSchema
    BY DEF ConformsToSchema, Fits
<1>2. Conforms' = ConformsToSchema'
    BY DEF ConformsToSchema, Fits
<1> SUFFICES ASSUME CRInv, TypeOK', [Next]_vars
             PROVE  Conforms'
    BY <1>2
<1>3. Conforms
    BY <1>1 DEF CRInv
<1> USE DEF Registered, Stored, Of, TypeOK
<1>4. ASSUME NEW d \in CRDs, NEW def \in Definitions, UpsertCRD(d, def)
      PROVE  Conforms'
    <2>1. d \in Registered \cup raced \/ purges[d] > 0 \/ Of(d) = {}
        BY DEF CRInv, NoOrphans
    <2> QED BY <1>3, <1>4, <2>1 DEF UpsertCRD, CRInv
<1>5. ASSUME NEW d \in CRDs, DeleteCRD(d)
      PROVE  Conforms'
    BY <1>3, <1>5 DEF DeleteCRD, CRInv
<1>6. ASSUME NEW d \in CRDs, DeleteResources(d)
      PROVE  Conforms'
    BY <1>3, <1>6 DEF DeleteResources, CRInv
<1>7. ASSUME NEW d \in CRDs, DeleteResourcesFails(d)
      PROVE  Conforms'
    BY <1>3, <1>7 DEF DeleteResourcesFails, CRInv
<1>8. ASSUME NEW path \in Paths, NEW x \in CRs, DeleteCustomResource(path, x)
      PROVE  Conforms'
    BY <1>3, <1>8 DEF DeleteCustomResource, CRInv
<1>9. CASE UpsertCustomResource
    <2> DEFINE w == <<post.crd, post.cr>>
    <2>1. w \in CRDs \X CRs /\ rows' = [rows EXCEPT ![w] = post.spec]
        BY <1>9 DEF UpsertCustomResource, CRInv, PostKnown
    <2>2. Fits(post.schema, post.spec)
        BY <1>9, ValidatedFits DEF UpsertCustomResource
    <2>3. UNCHANGED <<crds, raced, reborn, revised>>
        BY <1>9 DEF UpsertCustomResource
    <2>4. post.crd \notin revised \cup raced \cup reborn => post.schema = crds[post.crd].schema
        BY <1>9 DEF UpsertCustomResource, CRInv, PostCurrent
    <2>5. ASSUME NEW r \in CRDs \X CRs, r # w
          PROVE  rows'[r] = rows[r]
        BY <2>1, <2>5 DEF CRInv
    <2>6. rows'[w] = post.spec /\ w[1] = post.crd
        BY <2>1 DEF CRInv
    <2> HIDE DEF w
    <2>7. SUFFICES ASSUME NEW r \in CRDs \X CRs, rows'[r] # NoSpec,
                          r[1] \in Registered \ (revised \cup raced \cup reborn)
                   PROVE  Fits(crds[r[1]].schema, rows'[r])
        BY <2>3
    <2>8. CASE r = w
        BY <2>2, <2>4, <2>6, <2>7, <2>8
    <2>9. CASE r # w
        BY <1>3, <2>5, <2>7, <2>9
    <2> QED BY <2>8, <2>9
<1>10. CASE UNCHANGED <<crds, rows, raced, reborn, revised>>
    BY <1>3, <1>10
<1>11. CASE \/ \E path \in Paths, x \in CRs, spec \in Specs : CreateCR(path, x, spec)
            \/ CreateCRRefused
            \/ GetCRD \/ GetCRDFails \/ ListCustomResources \/ ListCustomResourcesFails
            \/ (\E r \in CRDs \X CRs : Reconcile(r)) \/ EndPass \/ UNCHANGED vars
    BY <1>11, <1>10 DEF CreateCR, CreateCRRefused, GetCRD, GetCRDFails, ListCustomResources,
        ListCustomResourcesFails, Reconcile, EndPass, vars
<1> QED BY <1>4, <1>5, <1>6, <1>7, <1>8, <1>9, <1>11 DEF Next

-----------------------------------------------------------------------------
\* The invariant holds initially and every step preserves it.
LEMMA Inductive == Spec => []CRInv
<1>1. Init => CRInv
    BY EmptyRecords, MaxChangesAssumption DEF Init, CRInv, TypeOK, PurgesBounded, PostKnown,
        PostCurrent, PurgedGone, AckedRegistered, NoOrphans, CreatedStays, ConformsToSchema,
        Stored, Of
<1>2. CRInv /\ [Next]_vars => CRInv'
    BY TypeInductive, PostInductive, DeletionInductive, ConformityInductive DEF CRInv
<1> QED BY <1>1, <1>2, PTL DEF Spec

\* The tables of CRDs and custom resources, the POST, the deletes and the pass of
\* the operator keep their types.
THEOREM TypeCorrect == Spec => []TypeOK
<1>1. CRInv => TypeOK
    BY DEF CRInv
<1> QED BY <1>1, Inductive, PTL

\* Store.DeleteCRD leaves no resource behind, unless a POST overlapped it or its
\* second statement failed.
THEOREM NothingOrphaned == Spec => []NoOrphans
<1>1. CRInv => NoOrphans
    BY DEF CRInv
<1> QED BY <1>1, Inductive, PTL

\* A resource that was created stays until it or its CRD is deleted, unless the
\* CRD was registered again during its own deletion.
THEOREM NothingLost == Spec => []CreatedStays
<1>1. CRInv => CreatedStays
    BY DEF CRInv
<1> QED BY <1>1, Inductive, PTL

\* handleDynamicCR stores only what fits the schema of the CRD, but for the races
\* that ConformsToSchema names.
THEOREM StoredConforms == Spec => []ConformsToSchema
<1>1. CRInv => ConformsToSchema
    BY DEF CRInv
<1> QED BY <1>1, Inductive, PTL

-----------------------------------------------------------------------------
(* Federation. *)

\* A pass in progress.
Passes ==
    [at : {"idle", "probing", "pushing"}, listed : SUBSET Members, todo : SUBSET Members,
     probed : Members \cup {NoMember}, ok : SUBSET Members, spec : FDSpecs,
     ready : 0 .. Cardinality(Members)]

\* Its targets: what it counts.
Targets(r) == SelectClusters(r.spec, r.listed)

\* A probe in progress is of a member still to be done, by a pass that probes;
\* and a pass has counted each of its targets once at most, and only those it
\* is done with.
PassSound(r) ==
    /\ r.probed # NoMember => r.at = "probing" /\ r.probed \in r.todo
    /\ r.at # "pushing" => r.ready = 0
    /\ r.at = "pushing" => /\ r.todo \subseteq Targets(r)
                           /\ r.ready + Cardinality(r.todo) <= Cardinality(Targets(r))

PassesSound == \A c \in Controllers : PassSound(pass[c])

\* What an apply will write back was a sound status.
ApplySound == apply.status.ready <= apply.status.clusters

FedInv == FedTypeOK /\ PassesSound /\ ApplySound /\ ReadyWithinClusters

-----------------------------------------------------------------------------
\* Counting members.
LEMMA MemberSets ==
    ASSUME NEW S \in SUBSET Members
    PROVE  /\ IsFiniteSet(S) /\ Cardinality(S) \in 0 .. Cardinality(Members)
           /\ Cardinality(Members) \in Nat
           /\ \A T \in SUBSET S : Cardinality(T) <= Cardinality(S)
           /\ \A m \in S : Cardinality(S \ {m}) = Cardinality(S) - 1
<1>1. IsFiniteSet(Members)
    BY NoMemberAssumption
<1>2. IsFiniteSet(S) /\ Cardinality(S) <= Cardinality(Members)
    BY <1>1, FS_Subset
<1>3. Cardinality(S) \in Nat /\ Cardinality(Members) \in Nat
    BY <1>1, <1>2, FS_CardinalityType
<1>4. \A T \in SUBSET S : Cardinality(T) <= Cardinality(S)
    BY <1>2, FS_Subset
<1>5. \A m \in S : Cardinality(S \ {m}) = Cardinality(S) - 1
    BY <1>2, FS_RemoveElement
<1> QED BY <1>2, <1>3, <1>4, <1>5

\* A pass that has not begun, a status of nothing, an apply that is not there.
LEMMA FedEmptyRecords ==
    /\ Resting \in Passes
    /\ Resting.at = "idle" /\ Resting.probed = NoMember
    /\ Resting.ready = 0
    /\ Zero \in Counts /\ Zero.ready = 0 /\ Zero.clusters = 0
    /\ NoApply \in [active : BOOLEAN, spec : FDSpecs, status : Counts]
    /\ NoApply.status = Zero
<1>1. PICK t \in Templates, l \in TargetLists : TRUE
    BY NoTemplateAssumption, TargetListsAssumption
<1>2. [template |-> t, targets |-> l] \in FDSpecs
    BY <1>1 DEF FDSpecs
<1>3. (CHOOSE s \in FDSpecs : TRUE) \in FDSpecs
    BY <1>2
<1>4. 0 \in 0 .. Cardinality(Members)
    BY MemberSets
<1> HIDE DEF FDSpecs
<1>5. Zero \in Counts /\ Zero.ready = 0 /\ Zero.clusters = 0
    BY <1>4 DEF Zero, Counts
<1>6. /\ Resting \in Passes
      /\ Resting.at = "idle" /\ Resting.probed = NoMember /\ Resting.ready = 0
    BY <1>3, <1>4 DEF Resting, Passes
<1>7. /\ NoApply \in [active : BOOLEAN, spec : FDSpecs, status : Counts]
      /\ NoApply.status = Zero
    BY <1>3, <1>5 DEF NoApply
<1> QED BY <1>5, <1>6, <1>7

\* Targets are members.
LEMMA TargetsAreMembers ==
    ASSUME NEW spec \in FDSpecs, NEW all \in SUBSET Members
    PROVE  SelectClusters(spec, all) \in SUBSET Members
BY TargetListsAssumption DEF SelectClusters, FDSpecs

\* A pass that is over, or has crashed, or is about to begin, is sound.
LEMMA RestingSound == PassSound(Resting)
BY FedEmptyRecords DEF PassSound

\* A step of one pass that leaves it sound.
LEMMA PassStep ==
    ASSUME FedTypeOK, PassesSound, NEW c \in Controllers, NEW new \in Passes, PassSound(new),
           pass' = [pass EXCEPT ![c] = new]
    PROVE  pass' \in [Controllers -> Passes] /\ PassesSound'
<1>1. pass \in [Controllers -> Passes]
    BY DEF FedTypeOK, Passes
<1> HIDE DEF Passes
<1>2. \A b \in Controllers : pass'[b] = IF b = c THEN new ELSE pass[b]
    BY <1>1
<1>3. pass' \in [Controllers -> Passes]
    BY <1>1
<1>4. PassesSound'
    BY <1>2 DEF PassesSound, PassSound, Targets, SelectClusters
<1> QED BY <1>3, <1>4

\* The initial state.
LEMMA FedInvInit == FedInit => FedInv
<1> SUFFICES ASSUME FedInit PROVE FedInv
    OBVIOUS
<1>1. PICK targets \in TargetLists :
        fd = [exists |-> TRUE, status |-> Zero,
              spec |-> [template |-> CHOOSE t \in Templates : TRUE, targets |-> targets]]
    BY DEF FedInit
<1>2. (CHOOSE t \in Templates : TRUE) \in Templates
    BY NoTemplateAssumption
<1>3. [template |-> CHOOSE t \in Templates : TRUE, targets |-> targets] \in FDSpecs
    BY <1>2 DEF FDSpecs
<1>4. fd \in [exists : BOOLEAN, spec : FDSpecs, status : Counts] /\ fd.status = Zero
    BY <1>1, <1>3, FedEmptyRecords
<1>5. pass \in [Controllers -> Passes] /\ PassesSound
    <2>1. pass = [c \in Controllers |-> Resting]
        BY DEF FedInit
    <2> QED BY <2>1, FedEmptyRecords, RestingSound DEF PassesSound
<1>6. apply = NoApply
    BY DEF FedInit
<1>7. /\ clusters \in [Members -> [registered : BOOLEAN, ready : BOOLEAN]]
      /\ health \in [Members -> Healths]
      /\ deployed \in [Members -> Templates \cup {NoTemplate}]
      /\ disturbances \in 0 .. MaxDisturbances
    BY MaxDisturbancesAssumption DEF FedInit, Healths
<1>8. FedTypeOK
    BY <1>4, <1>5, <1>6, <1>7, FedEmptyRecords DEF FedTypeOK, Passes
<1>9. ApplySound /\ ReadyWithinClusters
    BY <1>4, <1>6, FedEmptyRecords DEF ApplySound, ReadyWithinClusters
<1> QED BY <1>5, <1>8, <1>9 DEF FedInv

\* The rows, members and disturbances that the passes leave alone.
RestTyped ==
    /\ clusters \in [Members -> [registered : BOOLEAN, ready : BOOLEAN]]
    /\ health \in [Members -> Healths]
    /\ deployed \in [Members -> Templates \cup {NoTemplate}]
    /\ disturbances \in 0 .. MaxDisturbances

FDRows == [exists : BOOLEAN, spec : FDSpecs, status : Counts]
Applies == [active : BOOLEAN, spec : FDSpecs, status : Counts]

\* The type invariant in these words.
LEMMA FedTypes ==
    FedTypeOK <=> RestTyped /\ fd \in FDRows /\ apply \in Applies
                             /\ pass \in [Controllers -> Passes]
BY DEF FedTypeOK, RestTyped, FDRows, Applies, Passes

\* A disturbance stays within the bound.
LEMMA DisturbTyped ==
    ASSUME RestTyped, Disturb
    PROVE  disturbances' \in 0 .. MaxDisturbances
BY MaxDisturbancesAssumption DEF RestTyped, Disturb

\* A step of a pass that touches neither the FederatedDeployment nor an apply.
LEMMA PassOnlyStep ==
    ASSUME FedInv, RestTyped', UNCHANGED <<fd, apply>>, NEW c \in Controllers,
           NEW new \in Passes, PassSound(new), pass' = [pass EXCEPT ![c] = new]
    PROVE  FedInv'
<1>1. pass' \in [Controllers -> Passes] /\ PassesSound'
    BY PassStep DEF FedInv
<1>2. (fd \in FDRows)' /\ (apply \in Applies)'
    BY FedTypes DEF FedInv, FDRows, Applies, FDSpecs, Counts
<1>3. FedTypeOK'
    <2>1. (pass \in [Controllers -> Passes])'
        BY <1>1 DEF Passes, FDSpecs
    <2> QED BY <1>2, <2>1, FedTypes, PTL
<1>4. ApplySound' /\ ReadyWithinClusters'
    BY DEF FedInv, ApplySound, ReadyWithinClusters
<1> QED BY <1>1, <1>3, <1>4 DEF FedInv

\* The steps of users, members and the network that leave the passes, the
\* FederatedDeployment and the apply alone.
LEMMA OutsideStep ==
    ASSUME FedInv, RestTyped', UNCHANGED <<fd, apply, pass>>
    PROVE  FedInv'
<1>1. (fd \in FDRows)' /\ (apply \in Applies)' /\ (pass \in [Controllers -> Passes])'
    BY FedTypes DEF FedInv, FDRows, Applies, Passes, FDSpecs, Counts
<1>2. FedTypeOK'
    BY <1>1, FedTypes, PTL
<1>3. PassesSound' /\ ApplySound' /\ ReadyWithinClusters'
    BY DEF FedInv, PassesSound, PassSound, Targets, SelectClusters, ApplySound,
           ReadyWithinClusters
<1> QED BY <1>2, <1>3 DEF FedInv

\* The members.
LEMMA MemberSteps ==
    ASSUME FedInv, NEW m \in Members,
           \/ \E ready \in BOOLEAN : UpsertCluster(m, ready)
           \/ DeleteCluster(m)
           \/ \E h \in Healths : HealthChanges(m, h)
           \/ HangEnds(m)
           \/ \E t \in Templates \cup {NoTemplate} : MemberEdit(m, t)
    PROVE  FedInv'
<1>1. RestTyped
    BY FedTypes DEF FedInv
<1>2. CASE \E ready \in BOOLEAN : UpsertCluster(m, ready)
    <2>1. RestTyped'
        BY <1>1, <1>2, DisturbTyped DEF RestTyped, UpsertCluster, Healths
    <2> QED BY <1>2, <2>1, OutsideStep DEF UpsertCluster
<1>3. CASE DeleteCluster(m)
    <2>1. RestTyped'
        BY <1>1, <1>3, DisturbTyped DEF RestTyped, DeleteCluster, Healths
    <2> QED BY <1>3, <2>1, OutsideStep DEF DeleteCluster
<1>4. CASE \E h \in Healths : HealthChanges(m, h)
    <2>1. RestTyped'
        BY <1>1, <1>4, DisturbTyped DEF RestTyped, HealthChanges, Healths
    <2> QED BY <1>4, <2>1, OutsideStep DEF HealthChanges
<1>5. CASE HangEnds(m)
    <2>1. RestTyped'
        BY <1>1, <1>5 DEF RestTyped, HangEnds, Healths
    <2> QED BY <1>5, <2>1, OutsideStep DEF HangEnds
<1>6. CASE \E t \in Templates \cup {NoTemplate} : MemberEdit(m, t)
    <2>1. RestTyped'
        BY <1>1, <1>6, DisturbTyped DEF RestTyped, MemberEdit, Healths
    <2> QED BY <1>6, <2>1, OutsideStep DEF MemberEdit
<1> QED BY <1>2, <1>3, <1>4, <1>5, <1>6

\* A pass begins, is cut short, or ends without writing the counts.
LEMMA PassBegins ==
    ASSUME FedInv, NEW c \in Controllers, ListClusters(c)
    PROVE  FedInv'
<1> DEFINE new == [Resting EXCEPT !.at = "probing", !.listed = RegisteredClusters,
                                      !.todo = RegisteredClusters]
<1>1. RegisteredClusters \in SUBSET Members
    BY DEF RegisteredClusters
<1>2. new \in Passes /\ PassSound(new)
    BY <1>1, FedEmptyRecords DEF Passes, PassSound
<1>3. pass' = [pass EXCEPT ![c] = new] /\ UNCHANGED <<fd, apply>>
    BY DEF ListClusters
<1>4. RestTyped'
    BY FedTypes DEF FedInv, RestTyped, ListClusters, Healths
<1> HIDE DEF new
<1> QED BY <1>2, <1>3, <1>4, PassOnlyStep

LEMMA PassCutShort ==
    ASSUME FedInv, NEW c \in Controllers,
           \/ ListFederatedDeploymentsFails(c)
           \/ UpdateFederatedDeploymentStatusFails(c)
           \/ Crash(c)
    PROVE  FedInv'
<1>1. /\ pass' = [pass EXCEPT ![c] = Resting]
      /\ Disturb /\ UNCHANGED <<clusters, fd, apply, health, deployed>>
    BY DEF ListFederatedDeploymentsFails, UpdateFederatedDeploymentStatusFails, Crash
<1>2. RestTyped'
    BY <1>1, FedTypes, DisturbTyped DEF FedInv, RestTyped, Healths
<1>3. Resting \in Passes /\ PassSound(Resting)
    BY FedEmptyRecords, RestingSound
<1> QED BY <1>1, <1>2, <1>3, PassOnlyStep

\* What is known of the pass that takes the step.
LEMMA PassKnown ==
    ASSUME FedInv, NEW c \in Controllers
    PROVE  pass \in [Controllers -> Passes] /\ pass[c] \in Passes /\ PassSound(pass[c])
BY FedTypes DEF FedInv, PassesSound

\* The probe of a member, answered or not.
LEMMA ProbeSteps ==
    ASSUME FedInv, NEW c \in Controllers, NEW m \in Members,
           Probe(c, m) \/ ProbeTimesOut(c, m)
    PROVE  FedInv'
<1>1. PICK ok \in SUBSET Members :
        pass' = [pass EXCEPT ![c] = [pass[c] EXCEPT !.probed = m, !.ok = ok]]
    <2>1. pass[c] \in Passes /\ pass \in [Controllers -> Passes]
        BY PassKnown
    <2>2. CASE Probe(c, m)
        <3> DEFINE ok == IF health[m] = "down" THEN pass[c].ok ELSE pass[c].ok \cup {m}
        <3>1. ok \in SUBSET Members
            BY <2>1 DEF Passes
        <3>2. pass' = [pass EXCEPT ![c] = [pass[c] EXCEPT !.probed = m, !.ok = ok]]
            BY <2>1, <2>2 DEF Probe, Passes
        <3> QED BY <3>1, <3>2
    <2>3. CASE ProbeTimesOut(c, m)
        <3>1. pass[c].ok \in SUBSET Members
            BY <2>1 DEF Passes
        <3>2. pass' = [pass EXCEPT ![c] = [pass[c] EXCEPT !.probed = m, !.ok = pass[c].ok]]
            BY <2>1, <2>3 DEF ProbeTimesOut, Passes
        <3> QED BY <3>1, <3>2
    <2> QED BY <2>2, <2>3
<1> DEFINE new == [pass[c] EXCEPT !.probed = m, !.ok = ok]
<1>2. pass[c].at = "probing" /\ m \in pass[c].todo /\ UNCHANGED <<fd, apply>>
    BY DEF Probe, ProbeTimesOut
<1>3. new \in Passes /\ PassSound(new)
    BY <1>2, PassKnown DEF Passes, PassSound
<1>4. RestTyped'
    BY FedTypes, DisturbTyped DEF FedInv, RestTyped, Probe, ProbeTimesOut, Healths
<1>5. pass' = [pass EXCEPT ![c] = new]
    BY <1>1
<1> HIDE DEF new
<1> QED BY <1>2, <1>3, <1>4, <1>5, PassOnlyStep

\* The result of a probe is written, or the write fails.
LEMMA StatusSteps ==
    ASSUME FedInv, NEW c \in Controllers,
           UpdateClusterStatus(c) \/ UpdateClusterStatusFails(c)
    PROVE  FedInv'
<1> DEFINE new == [pass[c] EXCEPT !.probed = NoMember, !.todo = @ \ {pass[c].probed}]
<1>1. /\ pass[c] \in Passes /\ pass \in [Controllers -> Passes] /\ PassSound(pass[c])
      /\ pass[c].probed # NoMember /\ UNCHANGED <<fd, apply>>
    BY PassKnown DEF UpdateClusterStatus, UpdateClusterStatusFails
<1>2. pass' = [pass EXCEPT ![c] = new]
    BY <1>1 DEF UpdateClusterStatus, UpdateClusterStatusFails, StatusWritten, Passes
<1>3. new \in Passes
    BY <1>1 DEF Passes
<1>4. PassSound(new)
    BY <1>1 DEF Passes, PassSound
<1>5. RestTyped'
    <2>1. RestTyped /\ pass[c].probed \in Members
        BY <1>1, FedTypes DEF FedInv, Passes
    <2>2. CASE UpdateClusterStatus(c)
        <3>1. PICK b \in BOOLEAN :
                clusters' = IF clusters[pass[c].probed].registered
                            THEN [clusters EXCEPT ![pass[c].probed].ready = b] ELSE clusters
            <4>1. (pass[c].probed \in pass[c].ok) \in BOOLEAN
                OBVIOUS
            <4> QED BY <2>2, <4>1, Zenon DEF UpdateClusterStatus
        <3> QED BY <2>1, <2>2, <3>1 DEF RestTyped, UpdateClusterStatus, Healths
    <2>3. CASE UpdateClusterStatusFails(c)
        BY <2>1, <2>3, DisturbTyped DEF RestTyped, UpdateClusterStatusFails, Healths
    <2> QED BY <2>2, <2>3
<1> HIDE DEF new
<1> QED BY <1>1, <1>2, <1>3, <1>4, <1>5, PassOnlyStep

\* The FederatedDeployment is read: the targets that answered are to be pushed
\* to, none is counted yet.
LEMMA ListStep ==
    ASSUME FedInv, NEW c \in Controllers, ListFederatedDeployments(c)
    PROVE  FedInv'
<1>1. /\ pass[c] \in Passes /\ pass \in [Controllers -> Passes] /\ PassSound(pass[c])
      /\ pass[c].at = "probing" /\ pass[c].todo = {} /\ UNCHANGED <<fd, apply>>
      /\ fd.spec \in FDSpecs
    BY PassKnown, FedTypes DEF FedInv, FDRows, ListFederatedDeployments, Probed
<1>2. RestTyped'
    BY FedTypes DEF FedInv, RestTyped, ListFederatedDeployments, Healths
<1>3. CASE ~fd.exists
    <2>1. pass' = [pass EXCEPT ![c] = Resting]
        BY <1>3 DEF ListFederatedDeployments
    <2> QED BY <1>1, <1>2, <2>1, FedEmptyRecords, RestingSound, PassOnlyStep
<1>4. CASE fd.exists
    <2> DEFINE all == SelectClusters(fd.spec, pass[c].listed)
               todo == all \cap pass[c].ok
               new == [pass[c] EXCEPT !.at = "pushing", !.spec = fd.spec, !.todo = todo]
    <2>1. pass' = [pass EXCEPT ![c] = new]
        BY <1>1, <1>4 DEF ListFederatedDeployments
    <2>2. all \in SUBSET Members /\ todo \subseteq all
        BY <1>1, TargetsAreMembers DEF Passes
    <2> HIDE DEF all, todo
    <2>3. Cardinality(todo) <= Cardinality(all) /\ Cardinality(todo) \in Nat
        BY <2>2, MemberSets
    <2>4. new \in Passes
        BY <1>1, <2>2 DEF Passes
    <2>5. new.at = "pushing" /\ new.todo = todo /\ new.ready = 0 /\ new.probed = NoMember
          /\ Targets(new) = all
        BY <1>1 DEF Passes, PassSound, Targets, all
    <2> HIDE DEF new
    <2>6. PassSound(new)
        BY <2>2, <2>3, <2>5 DEF PassSound
    <2> QED BY <1>1, <1>2, <2>1, <2>4, <2>6, PassOnlyStep
<1> QED BY <1>3, <1>4

\* A push: one target is done with, and counted when it took the template.
LEMMA PushSteps ==
    ASSUME FedInv, NEW c \in Controllers, NEW m \in Members,
           Push(c, m) \/ PushAnswerLost(c, m)
    PROVE  FedInv'
<1>1. /\ pass[c] \in Passes /\ pass \in [Controllers -> Passes] /\ PassSound(pass[c])
      /\ pass[c].at = "pushing" /\ m \in pass[c].todo /\ UNCHANGED <<fd, apply>>
    BY PassKnown DEF Push, PushAnswerLost
<1>2. RestTyped'
    <2>1. RestTyped /\ pass[c].spec.template \in Templates
        BY <1>1, FedTypes DEF FedInv, Passes, FDSpecs
    <2>2. CASE Push(c, m)
        BY <2>1, <2>2 DEF RestTyped, Push, Healths
    <2>3. CASE PushAnswerLost(c, m)
        BY <2>1, <2>3, DisturbTyped DEF RestTyped, PushAnswerLost, Healths
    <2> QED BY <2>2, <2>3
<1>3. PICK ready \in {pass[c].ready, pass[c].ready + 1} :
        pass' = [pass EXCEPT ![c] = [pass[c] EXCEPT !.todo = @ \ {m}, !.ready = ready]]
    <2>1. CASE Push(c, m)
        <3> DEFINE ready == IF health[m] = "up" THEN pass[c].ready + 1 ELSE pass[c].ready
        <3>1. pass' = [pass EXCEPT ![c] = [pass[c] EXCEPT !.todo = @ \ {m}, !.ready = ready]]
            BY <1>1, <2>1 DEF Push, Passes
        <3> QED BY <3>1
    <2>2. CASE PushAnswerLost(c, m)
        <3>1. pass' = [pass EXCEPT ![c] = [pass[c] EXCEPT !.todo = @ \ {m},
                                                          !.ready = pass[c].ready]]
            BY <1>1, <2>2 DEF PushAnswerLost, Passes
        <3> QED BY <3>1
    <2> QED BY <2>1, <2>2
<1> DEFINE new == [pass[c] EXCEPT !.todo = @ \ {m}, !.ready = ready]
<1>4. /\ new.at = "pushing" /\ new.todo = pass[c].todo \ {m} /\ new.ready = ready
      /\ new.probed = NoMember /\ Targets(new) = Targets(pass[c])
    BY <1>1 DEF Passes, PassSound, Targets
<1>5. /\ Targets(pass[c]) \in SUBSET Members /\ pass[c].todo \in SUBSET Members
      /\ pass[c].ready \in Nat
    BY <1>1, TargetsAreMembers DEF Passes, Targets
<1>6. /\ Cardinality(pass[c].todo \ {m}) = Cardinality(pass[c].todo) - 1
      /\ Cardinality(pass[c].todo \ {m}) \in Nat
      /\ Cardinality(pass[c].todo) \in Nat
      /\ Cardinality(Targets(pass[c])) \in 0 .. Cardinality(Members)
      /\ Cardinality(Members) \in Nat
    BY <1>1, <1>5, MemberSets
<1>7. /\ pass[c].todo \subseteq Targets(pass[c])
      /\ pass[c].ready + Cardinality(pass[c].todo) <= Cardinality(Targets(pass[c]))
    BY <1>1 DEF PassSound
<1>8. ready \in 0 .. Cardinality(Members)
    BY <1>3, <1>5, <1>6, <1>7
<1>9. new \in Passes
    BY <1>1, <1>5, <1>8 DEF Passes
<1>10. pass' = [pass EXCEPT ![c] = new]
    BY <1>3
<1> HIDE DEF new
<1>11. PassSound(new)
    BY <1>3, <1>4, <1>5, <1>6, <1>7 DEF PassSound
<1> QED BY <1>1, <1>2, <1>9, <1>10, <1>11, PassOnlyStep

\* The pass is over: its counts are written, those of one and the same list.
LEMMA CountsStep ==
    ASSUME FedInv, NEW c \in Controllers, UpdateFederatedDeploymentStatus(c)
    PROVE  FedInv'
<1> DEFINE status == [clusters |-> Cardinality(Targets(pass[c])), ready |-> pass[c].ready]
<1>1. /\ pass[c] \in Passes /\ PassSound(pass[c]) /\ pass[c].at = "pushing" /\ pass[c].todo = {}
      /\ pass' = [pass EXCEPT ![c] = Resting] /\ apply' = apply
    BY PassKnown DEF UpdateFederatedDeploymentStatus, Pushed
<1>2. Targets(pass[c]) \in SUBSET Members /\ pass[c].ready \in 0 .. Cardinality(Members)
    BY <1>1, TargetsAreMembers DEF Passes, Targets
<1>3. Cardinality(Targets(pass[c])) \in 0 .. Cardinality(Members)
    BY <1>2, MemberSets
<1>4. pass[c].ready <= Cardinality(Targets(pass[c]))
    <2>1. Cardinality({}) = 0
        BY FS_EmptySet
    <2> QED BY <1>1, <1>2, <1>3, <2>1 DEF PassSound
<1>5. status \in Counts /\ status.ready <= status.clusters
    BY <1>2, <1>3, <1>4 DEF Counts
<1>6. fd' = IF fd.exists THEN [fd EXCEPT !.status = status] ELSE fd
    BY DEF UpdateFederatedDeploymentStatus, Targets
<1> HIDE DEF status
<1>7. fd \in FDRows /\ apply \in Applies /\ RestTyped
    BY FedTypes DEF FedInv
<1>8. fd' \in FDRows /\ ReadyWithinClusters'
    BY <1>5, <1>6, <1>7 DEF FedInv, FDRows, ReadyWithinClusters
<1>9. RestTyped' /\ ApplySound'
    BY <1>1, <1>7 DEF FedInv, RestTyped, ApplySound, UpdateFederatedDeploymentStatus, Healths
<1>10. pass' \in [Controllers -> Passes] /\ PassesSound'
    BY <1>1, FedEmptyRecords, RestingSound, PassStep DEF FedInv
<1>11. (fd \in FDRows)' /\ (apply \in Applies)' /\ (pass \in [Controllers -> Passes])'
    BY <1>1, <1>7, <1>8, <1>10 DEF FDRows, Applies, Passes, FDSpecs, Counts
<1>12. FedTypeOK'
    BY <1>9, <1>11, FedTypes, PTL
<1> QED BY <1>8, <1>9, <1>10, <1>12 DEF FedInv

\* The API of the FederatedDeployment: a status is read and written back, or
\* goes with its row.
LEMMA ApplySteps ==
    ASSUME FedInv,
           \/ \E spec \in FDSpecs : UpsertFederatedDeployment(spec)
           \/ WriteFederatedDeployment
           \/ DeleteFederatedDeployment
    PROVE  FedInv'
<1>1. fd \in FDRows /\ apply \in Applies /\ RestTyped /\ pass \in [Controllers -> Passes]
    BY FedTypes DEF FedInv
<1>2. fd' \in FDRows /\ apply' \in Applies /\ ApplySound' /\ ReadyWithinClusters'
    <2>1. CASE \E spec \in FDSpecs : UpsertFederatedDeployment(spec)
        <3>1. PICK spec \in FDSpecs, status \in {fd.status, Zero} :
                apply' = [active |-> TRUE, spec |-> spec, status |-> status] /\ fd' = fd
            BY <2>1 DEF UpsertFederatedDeployment
        <3>2. status \in Counts /\ status.ready <= status.clusters
            BY <1>1, FedEmptyRecords DEF FedInv, FDRows, ReadyWithinClusters
        <3> QED BY <1>1, <3>1, <3>2
                DEF FedInv, Applies, ApplySound, ReadyWithinClusters
    <2>2. CASE WriteFederatedDeployment
        <3>1. /\ fd' = [exists |-> TRUE, spec |-> apply.spec, status |-> apply.status]
              /\ apply' = NoApply
            BY <2>2 DEF WriteFederatedDeployment
        <3>2. /\ apply' \in Applies /\ apply'.status = Zero
            BY <3>1, FedEmptyRecords DEF Applies
        <3>3. apply.spec \in FDSpecs /\ apply.status \in Counts
            BY <1>1 DEF Applies
        <3>4. fd' \in FDRows
            BY <3>1, <3>3 DEF FDRows
        <3>5. ReadyWithinClusters'
            BY <3>1 DEF FedInv, ApplySound, ReadyWithinClusters
        <3>6. ApplySound'
            BY <3>2, FedEmptyRecords DEF ApplySound
        <3> QED BY <3>2, <3>4, <3>5, <3>6
    <2>3. CASE DeleteFederatedDeployment
        <3>1. fd' = [fd EXCEPT !.exists = FALSE, !.status = Zero] /\ apply' = apply
            BY <2>3 DEF DeleteFederatedDeployment
        <3>2. fd' \in FDRows
            BY <1>1, <3>1, FedEmptyRecords DEF FDRows
        <3>3. fd'.status = Zero
            BY <1>1, <3>1 DEF FDRows
        <3>4. ReadyWithinClusters'
            BY <3>3, FedEmptyRecords DEF ReadyWithinClusters
        <3>5. apply' \in Applies /\ ApplySound'
            BY <1>1, <3>1 DEF FedInv, ApplySound
        <3> QED BY <3>2, <3>4, <3>5
    <2> QED BY <2>1, <2>2, <2>3
<1>3. pass' = pass /\ RestTyped'
    BY <1>1, DisturbTyped DEF RestTyped, UpsertFederatedDeployment,
        WriteFederatedDeployment, DeleteFederatedDeployment, Healths
<1>4. PassesSound'
    BY <1>3 DEF FedInv, PassesSound, PassSound, Targets, SelectClusters
<1>5. (fd \in FDRows)' /\ (apply \in Applies)' /\ (pass \in [Controllers -> Passes])'
    BY <1>1, <1>2, <1>3 DEF FDRows, Applies, Passes, FDSpecs, Counts
<1>6. FedTypeOK'
    BY <1>3, <1>5, FedTypes, PTL
<1> QED BY <1>2, <1>4, <1>6 DEF FedInv

\* Every step.
LEMMA FedInductive == FedInv /\ [FedNext]_fedVars => FedInv'
<1> SUFFICES ASSUME FedInv, [FedNext]_fedVars PROVE FedInv'
    OBVIOUS
<1>1. CASE UNCHANGED fedVars
    <2>1. UNCHANGED <<clusters, fd, apply, health, deployed, pass, disturbances>>
        BY <1>1 DEF fedVars
    <2>2. RestTyped'
        BY <2>1, FedTypes DEF FedInv, RestTyped, Healths
    <2> QED BY <2>1, <2>2, OutsideStep
<1>2. ASSUME NEW c \in Controllers,
             \/ ListClusters(c)
             \/ \E m \in Members : Probe(c, m) \/ ProbeTimesOut(c, m)
             \/ UpdateClusterStatus(c) \/ UpdateClusterStatusFails(c)
             \/ ListFederatedDeployments(c) \/ ListFederatedDeploymentsFails(c)
             \/ \E m \in Members : Push(c, m) \/ PushAnswerLost(c, m)
             \/ UpdateFederatedDeploymentStatus(c)
             \/ UpdateFederatedDeploymentStatusFails(c)
             \/ Crash(c)
      PROVE  FedInv'
    BY <1>2, PassBegins, ProbeSteps, StatusSteps, ListStep, PushSteps, CountsStep, PassCutShort
<1>3. ASSUME NEW m \in Members,
             \/ \E ready \in BOOLEAN : UpsertCluster(m, ready)
             \/ DeleteCluster(m)
             \/ \E h \in Healths : HealthChanges(m, h)
             \/ HangEnds(m)
             \/ \E t \in Templates \cup {NoTemplate} : MemberEdit(m, t)
      PROVE  FedInv'
    BY <1>3, MemberSteps
<1>4. CASE \/ \E spec \in FDSpecs : UpsertFederatedDeployment(spec)
           \/ WriteFederatedDeployment
           \/ DeleteFederatedDeployment
    BY <1>4, ApplySteps
<1> QED BY <1>1, <1>2, <1>3, <1>4 DEF FedNext

\* The federation controllers and the API under them keep to their types: no
\* count of a status or of a pass ever leaves 0 .. the number of members.
THEOREM FedTypeCorrect == FedSpec => []FedTypeOK
<1>1. FedInv => FedTypeOK
    BY DEF FedInv
<1> QED BY <1>1, FedInvInit, FedInductive, PTL DEF FedSpec

\* UpdateFederatedDeploymentStatus never writes more clusters in sync than it
\* counts, and no apply that writes an older status back makes it so: for any
\* number of members and of overlapping controllers.
THEOREM FedReadyBounded == FedSpec => []ReadyWithinClusters
<1>1. FedInv => ReadyWithinClusters
    BY DEF FedInv
<1> QED BY <1>1, FedInvInit, FedInductive, PTL DEF FedSpec

==============================================================================
