-------------------------- MODULE PodRequestsProofs --------------------------
(***************************************************************************)
(* Proofs about PodRequests, AccessControl and Admission, for any users,   *)
(* roles, bindings, requests, pods and webhooks.                           *)
(***************************************************************************)
EXTENDS PodRequests, FiniteSetTheorems, SequenceTheorems, TLAPS

\* A request starts with no user and at the first scope.
FreshCall == call.at = "authenticating" => call.user = NoUser /\ call.scope = 1

\* While the bindings are gone through, what there is now has been seen.
PresentIsSeen ==
    Deciding => /\ \A b \in Bindings : <<b, bindings[b]>> \in seen.bindings
                /\ \A r \in Roles : <<r, roles[r]>> \in seen.roles

\* A role is looked at on behalf of a binding that was about this request.
TodoBound ==
    call.at = "checking" => \A e \in call.todo : \E row \in BindingRows :
        /\ <<e[1], row>> \in seen.bindings
        /\ row.role = e[2]
        /\ InScope(e[1], row, call.req)
        /\ SubjectMatches(row.subjects, call.user, call.groups)

\* A lasting grant holds now, and has not been passed over unless its role could
\* not be read: it is to be looked at, or of a scope still to be listed.
LastingAhead ==
    Deciding => \A e \in lasting :
        /\ Grants(e[1], e[2], call.req, call.user, call.groups)
        /\ e \notin call.missed =>
            /\ call.at = "checking" /\ ScopeOf[e[1]] = Scopes[call.scope] => e \in call.todo
            /\ call.scope = 2 => ScopeOf[e[1]] = "RoleBinding"

AccessInv ==
    /\ AccessTypeOK /\ FreshCall /\ PresentIsSeen /\ TodoBound /\ LastingAhead
    /\ AllowedByGrant /\ DeniedWithoutGrant

-----------------------------------------------------------------------------
(* What matches: the code's definitions and the ones the properties use. *)

\* subjectMatches finds a user by kind and name, a group by membership.
LEMMA SubjectsAgree ==
    ASSUME NEW subs \in SUBSET Subjects, NEW user, NEW groups
    PROVE  SubjectMatches(subs, user, groups) <=>
               \E s \in subs : \/ s = [kind |-> "User", name |-> user]
                               \/ s.kind = "Group" /\ s.name \in groups
<1>1. ASSUME NEW s \in subs
      PROVE  (IF s.kind = "User" THEN s.name = user ELSE s.name \in groups) <=>
                 \/ s = [kind |-> "User", name |-> user]
                 \/ s.kind = "Group" /\ s.name \in groups
    <2>1. CASE s \in [kind : {"User"}, name : Users]
        BY <2>1
    <2>2. CASE s \in [kind : {"Group"}, name : Groups]
        <3>1. s.kind = "Group"
            BY <2>2
        <3>2. s # [kind |-> "User", name |-> user]
            BY <3>1
        <3> QED BY <3>1, <3>2
    <2> QED BY <2>1, <2>2 DEF Subjects
<1> QED BY <1>1 DEF SubjectMatches

\* ruleMatches: "*" or the value itself, in each of the three lists.
LEMMA RulesAgree ==
    ASSUME NEW rule, NEW q
    PROVE  RuleMatches(rule, q) <=>
               /\ {"*", q.verb} \cap rule.verbs # {}
               /\ {"*", q.group} \cap rule.groups # {}
               /\ {"*", q.resource} \cap rule.resources # {}
<1>1. \A list, v : ListContains(list, v) <=> {"*", v} \cap list # {}
    BY DEF ListContains
<1> QED BY <1>1 DEF RuleMatches

\* A binding that grants is listed for its scope, and its role has a rule that
\* matches.
LEMMA GrantsAgree ==
    ASSUME AccessTypeOK, NEW b \in Bindings, NEW r \in Roles, NEW q, NEW user, NEW groups
    PROVE  Grants(b, r, q, user, groups) <=>
               /\ bindings[b].role = r
               /\ InScope(b, bindings[b], q)
               /\ SubjectMatches(bindings[b].subjects, user, groups)
               /\ \E rule \in roles[r] : RuleMatches(rule, q)
<1>1. bindings[b].subjects \in SUBSET Subjects
    BY BindingRowsAssumption DEF AccessTypeOK
<1> QED BY <1>1, SubjectsAgree, RulesAgree DEF Grants, InScope

-----------------------------------------------------------------------------
(* The guard, step by step. *)

LEMMA AccessStarts == AccessInit => AccessInv
<1> SUFFICES ASSUME AccessInit PROVE AccessInv
    OBVIOUS
<1>1. call = NoCall /\ call.at = "idle"
    BY DEF AccessInit, NoCall
<1>2. NoCall \in [at : Stages, req : Requests, user : Users \cup {NoUser},
                  groups : SUBSET Groups, scope : {1, 2},
                  todo : SUBSET (Bindings \X Roles), missed : SUBSET (Bindings \X Roles)]
    <2>1. (CHOOSE q \in Requests : TRUE) \in Requests
        BY RequestsAssumption
    <2> QED BY <2>1 DEF NoCall, Stages
<1>3. Nothing \in [bindings : SUBSET (Bindings \X BindingRows),
                   roles : SUBSET (Roles \X RuleSets)]
    BY DEF Nothing
<1>4. users \in [Users -> [token : Tokens, groups : SUBSET Groups]]
    BY DEF AccessInit
<1>5. AccessTypeOK
    BY <1>1, <1>2, <1>3, <1>4 DEF AccessInit, AccessTypeOK
<1> QED BY <1>1, <1>5 DEF AccessInv, FreshCall, PresentIsSeen, TodoBound, LastingAhead,
                          Deciding, AllowedByGrant, DeniedWithoutGrant

\* The answer forgets the request.
LEMMA AnswerKeeps == AccessInv /\ Answer => AccessInv'
<1> SUFFICES ASSUME AccessInv, Answer PROVE AccessInv'
    OBVIOUS
<1>1. call' = NoCall /\ call'.at = "idle"
    BY DEF Answer, NoCall
<1>2. NoCall \in [at : Stages, req : Requests, user : Users \cup {NoUser},
                  groups : SUBSET Groups, scope : {1, 2},
                  todo : SUBSET (Bindings \X Roles), missed : SUBSET (Bindings \X Roles)]
    <2>1. (CHOOSE q \in Requests : TRUE) \in Requests
        BY RequestsAssumption
    <2> QED BY <2>1 DEF NoCall, Stages
<1>3. Nothing \in [bindings : SUBSET (Bindings \X BindingRows),
                   roles : SUBSET (Roles \X RuleSets)]
    BY DEF Nothing
<1>5. AccessTypeOK'
    BY <1>1, <1>2, <1>3 DEF AccessInv, Answer, AccessTypeOK
<1> QED BY <1>1, <1>5 DEF AccessInv, FreshCall, PresentIsSeen, TodoBound, LastingAhead,
                          Deciding, AllowedByGrant, DeniedWithoutGrant

LEMMA BeginKeeps == ASSUME NEW q \in Requests PROVE AccessInv /\ Begin(q) => AccessInv'
<1> SUFFICES ASSUME AccessInv, Begin(q) PROVE AccessInv'
    OBVIOUS
<1>1. /\ call'.at = "authenticating" /\ call'.user = NoUser /\ call'.scope = 1
      /\ call' \in [at : Stages, req : Requests, user : Users \cup {NoUser},
                    groups : SUBSET Groups, scope : {1, 2},
                    todo : SUBSET (Bindings \X Roles), missed : SUBSET (Bindings \X Roles)]
    BY DEF Begin, NoCall, Stages
<1>2. AccessTypeOK'
    BY <1>1 DEF AccessInv, Begin, AccessTypeOK
<1> QED BY <1>1, <1>2 DEF AccessInv, FreshCall, PresentIsSeen, TodoBound, LastingAhead,
                          Deciding, AllowedByGrant, DeniedWithoutGrant

\* A request that stops without a decision on bindings.
LEMMA StopKeeps ==
    ASSUME AccessInv, NEW stage \in {"unauthorized", "error"}, Moved(stage),
           UNCHANGED <<users, roles, bindings, seen, lasting>>
    PROVE  AccessInv'
<1>1. /\ call'.at = stage
      /\ call' \in [at : Stages, req : Requests, user : Users \cup {NoUser},
                    groups : SUBSET Groups, scope : {1, 2},
                    todo : SUBSET (Bindings \X Roles), missed : SUBSET (Bindings \X Roles)]
    BY DEF AccessInv, AccessTypeOK, Moved, Stages
<1>2. AccessTypeOK'
    BY <1>1 DEF AccessInv, AccessTypeOK
<1> QED BY <1>1, <1>2 DEF AccessInv, FreshCall, PresentIsSeen, TodoBound, LastingAhead,
                          Deciding, AllowedByGrant, DeniedWithoutGrant

LEMMA AuthenticateKeeps == AccessInv /\ Authenticate => AccessInv'
<1> SUFFICES ASSUME AccessInv, Authenticate PROVE AccessInv'
    OBVIOUS
<1> USE DEF AccessInv
<1>0. call.at = "authenticating" /\ call.user = NoUser /\ call.scope = 1
    BY DEF Authenticate, FreshCall
<1>1. CASE Moved("unauthorized") /\ UNCHANGED <<users, roles, bindings, seen, lasting>>
    BY <1>1, StopKeeps
<1>2. CASE Moved("allowed") /\ UNCHANGED <<users, roles, bindings, seen, lasting>>
    <2>1. /\ call'.at = "allowed" /\ call'.user = NoUser
          /\ call' \in [at : Stages, req : Requests, user : Users \cup {NoUser},
                        groups : SUBSET Groups, scope : {1, 2},
                        todo : SUBSET (Bindings \X Roles), missed : SUBSET (Bindings \X Roles)]
        BY <1>0, <1>2 DEF AccessTypeOK, Moved, Stages
    <2>2. AccessTypeOK'
        BY <1>2, <2>1 DEF AccessTypeOK
    <2> QED BY <2>1, <2>2 DEF FreshCall, PresentIsSeen, TodoBound, LastingAhead,
                              Deciding, AllowedByGrant, DeniedWithoutGrant
<1>3. ASSUME NEW u \in Users,
             call' = [call EXCEPT
                            !.at = IF ~RbacEnforce \/ Masters \in users[u].groups
                                   THEN "allowed" ELSE "listing",
                            !.user = u, !.groups = users[u].groups],
             seen' = [bindings |-> {<<b, bindings[b]>> : b \in Bindings},
                      roles |-> {<<r, roles[r]>> : r \in Roles}],
             lasting' = {e \in Bindings \X Roles :
                            Grants(e[1], e[2], call.req, u, users[u].groups)},
             UNCHANGED <<users, roles, bindings>>
      PROVE  AccessInv'
    <2>1. /\ call'.at = IF ~RbacEnforce \/ Masters \in users[u].groups
                        THEN "allowed" ELSE "listing"
          /\ call'.user = u /\ call'.groups = users[u].groups /\ call'.req = call.req
          /\ call'.scope = 1
        BY <1>0, <1>3 DEF AccessTypeOK
    <2>2. AccessTypeOK'
        <3>1. call' \in [at : Stages, req : Requests, user : Users \cup {NoUser},
                        groups : SUBSET Groups, scope : {1, 2},
                        todo : SUBSET (Bindings \X Roles), missed : SUBSET (Bindings \X Roles)]
            BY <1>3 DEF AccessTypeOK, Stages
        <3>2. seen' \in [bindings : SUBSET (Bindings \X BindingRows),
                         roles : SUBSET (Roles \X RuleSets)]
            BY <1>3 DEF AccessTypeOK
        <3>3. lasting' \in SUBSET (Bindings \X Roles)
            BY <1>3
        <3> QED BY <1>3, <3>1, <3>2, <3>3 DEF AccessTypeOK
    <2>3. PresentIsSeen'
        BY <1>3 DEF PresentIsSeen
    <2>4. LastingAhead'
        <3> SUFFICES ASSUME NEW e \in lasting', call'.at = "listing"
                     PROVE  Grants(e[1], e[2], call.req, call.user, call.groups)'
            BY <2>1 DEF LastingAhead, Deciding
        <3>1. Grants(e[1], e[2], call.req, u, users[u].groups)
            BY <1>3
        <3> QED BY <1>3, <2>1, <3>1 DEF Grants
    <2>5. AllowedByGrant'
        BY <2>1 DEF AllowedByGrant
    <2> QED BY <2>1, <2>2, <2>3, <2>4, <2>5 DEF FreshCall, TodoBound, DeniedWithoutGrant
<1>4. UNCHANGED <<users, roles, bindings>>
    BY DEF Authenticate
<1>5. CASE call.req.token = NoToken /\ Moved(IF AnonymousAllowed THEN "allowed" ELSE "unauthorized")
           /\ UNCHANGED <<seen, lasting>>
    BY <1>1, <1>2, <1>4, <1>5
<1>6. CASE Moved("unauthorized") /\ UNCHANGED <<seen, lasting>>
    BY <1>1, <1>4, <1>6
<1> QED BY <1>3, <1>4, <1>5, <1>6 DEF Authenticate

LEMMA ListRoleBindingsKeeps == AccessInv /\ ListRoleBindings => AccessInv'
<1> SUFFICES ASSUME AccessInv, ListRoleBindings PROVE AccessInv'
    OBVIOUS
<1> USE DEF AccessInv
<1> DEFINE about == {x \in Bindings :
                        /\ ScopeOf[x] = Scopes[call.scope]
                        /\ InScope(x, bindings[x], call.req)
                        /\ SubjectMatches(bindings[x].subjects, call.user, call.groups)}
           todo == {<<b, bindings[b].role>> : b \in about}
<1>1. call.at = "listing" /\ UNCHANGED <<users, roles, bindings, seen, lasting>>
    BY DEF ListRoleBindings
<1>2. todo \subseteq Bindings \X Roles
    BY BindingRowsAssumption DEF AccessTypeOK
<1>3. call' = [call EXCEPT !.at = "checking", !.todo = todo]
    BY DEF ListRoleBindings
<1>4. \A e \in todo : \E b \in about : e = <<b, bindings[b].role>>
    OBVIOUS
<1>5. \A b \in about : <<b, bindings[b].role>> \in todo
    OBVIOUS
<1> HIDE DEF todo
<1>6. /\ call'.at = "checking" /\ call'.todo = todo /\ call'.req = call.req
      /\ call'.user = call.user /\ call'.groups = call.groups /\ call'.scope = call.scope
      /\ call'.missed = call.missed
    BY <1>3 DEF AccessTypeOK
<1>7. AccessTypeOK'
    BY <1>1, <1>2, <1>3 DEF AccessTypeOK, Stages
<1>8. PresentIsSeen'
    BY <1>1 DEF PresentIsSeen, Deciding
<1>9. TodoBound'
    <2> SUFFICES ASSUME NEW e \in todo
                 PROVE \E row \in BindingRows :
                        /\ <<e[1], row>> \in seen.bindings
                        /\ row.role = e[2]
                        /\ InScope(e[1], row, call.req)
                        /\ SubjectMatches(row.subjects, call.user, call.groups)
        BY <1>1, <1>6 DEF TodoBound
    <2>1. PICK b \in about : e = <<b, bindings[b].role>>
        BY <1>4
    <2>2. bindings[b] \in BindingRows /\ <<b, bindings[b]>> \in seen.bindings
        BY <1>1 DEF AccessTypeOK, PresentIsSeen, Deciding
    <2> QED BY <2>1, <2>2
<1>10. LastingAhead'
    <2> SUFFICES ASSUME NEW e \in lasting
                 PROVE  /\ Grants(e[1], e[2], call.req, call.user, call.groups)'
                        /\ e \notin call.missed =>
                            /\ ScopeOf[e[1]] = Scopes[call.scope] => e \in todo
                            /\ call.scope = 2 => ScopeOf[e[1]] = "RoleBinding"
        BY <1>1, <1>6 DEF LastingAhead
    <2>1. /\ Grants(e[1], e[2], call.req, call.user, call.groups)
          /\ e \notin call.missed => (call.scope = 2 => ScopeOf[e[1]] = "RoleBinding")
        BY <1>1 DEF LastingAhead, Deciding
    <2>2. Grants(e[1], e[2], call.req, call.user, call.groups)'
        BY <1>1, <1>6, <2>1 DEF Grants
    <2>3. e[1] \in Bindings /\ e[2] \in Roles /\ e = <<e[1], e[2]>>
        BY DEF AccessTypeOK
    <2>4. /\ bindings[e[1]].role = e[2]
          /\ InScope(e[1], bindings[e[1]], call.req)
          /\ SubjectMatches(bindings[e[1]].subjects, call.user, call.groups)
        BY <2>1, <2>3, GrantsAgree
    <2>5. ScopeOf[e[1]] = Scopes[call.scope] => e \in todo
        BY <1>5, <2>3, <2>4
    <2> QED BY <2>1, <2>2, <2>5
<1> QED BY <1>6, <1>7, <1>8, <1>9, <1>10 DEF FreshCall, AllowedByGrant, DeniedWithoutGrant

\* One binding less to look at.
LEMMA PassedKeeps ==
    ASSUME AccessInv, call.at = "checking", NEW b \in Bindings, NEW r \in Roles,
           <<b, r>> \in call.todo, NEW missed \in SUBSET (Bindings \X Roles),
           call.missed \subseteq missed, <<b, r>> \in missed \/ <<b, r>> \notin lasting,
           call' = [call EXCEPT !.todo = @ \ {<<b, r>>}, !.missed = missed],
           UNCHANGED <<users, roles, bindings, seen, lasting>>
    PROVE  AccessInv'
<1> USE DEF AccessInv
<1>1. /\ call'.at = "checking" /\ call'.todo = call.todo \ {<<b, r>>} /\ call'.req = call.req
      /\ call'.user = call.user /\ call'.groups = call.groups /\ call'.scope = call.scope
      /\ call'.missed = missed
    BY DEF AccessTypeOK
<1>2. AccessTypeOK'
    <2>1. call.todo \ {<<b, r>>} \in SUBSET (Bindings \X Roles)
        BY DEF AccessTypeOK
    <2> QED BY <2>1 DEF AccessTypeOK
<1>3. PresentIsSeen'
    BY DEF PresentIsSeen, Deciding
<1>4. TodoBound'
    BY <1>1 DEF TodoBound
<1>5. LastingAhead'
    <2> SUFFICES ASSUME NEW e \in lasting
                 PROVE  /\ Grants(e[1], e[2], call.req, call.user, call.groups)'
                        /\ e \notin missed =>
                            /\ ScopeOf[e[1]] = Scopes[call.scope] => e \in call.todo \ {<<b, r>>}
                            /\ call.scope = 2 => ScopeOf[e[1]] = "RoleBinding"
        BY <1>1 DEF LastingAhead
    <2>1. /\ Grants(e[1], e[2], call.req, call.user, call.groups)
          /\ e \notin call.missed =>
                /\ ScopeOf[e[1]] = Scopes[call.scope] => e \in call.todo
                /\ call.scope = 2 => ScopeOf[e[1]] = "RoleBinding"
        BY DEF LastingAhead, Deciding
    <2>2. Grants(e[1], e[2], call.req, call.user, call.groups)'
        BY <1>1, <2>1 DEF Grants
    <2> QED BY <2>1, <2>2
<1> QED BY <1>1, <1>2, <1>3, <1>4, <1>5 DEF FreshCall, AllowedByGrant, DeniedWithoutGrant

LEMMA GetRoleKeeps ==
    ASSUME NEW b \in Bindings, NEW r \in Roles
    PROVE  AccessInv /\ GetRole(b, r) => AccessInv'
<1> SUFFICES ASSUME AccessInv, GetRole(b, r) PROVE AccessInv'
    OBVIOUS
<1> USE DEF AccessInv
<1>1. /\ call.at = "checking" /\ <<b, r>> \in call.todo
      /\ UNCHANGED <<users, roles, bindings, seen, lasting>>
    BY DEF GetRole
<1>2. CASE \E rule \in roles[r] : RuleMatches(rule, call.req)
    <2>1. Moved("allowed")
        BY <1>2 DEF GetRole
    <2>2. /\ call'.at = "allowed" /\ call'.req = call.req
          /\ call'.user = call.user /\ call'.groups = call.groups
        BY <2>1 DEF Moved, AccessTypeOK
    <2>3. AccessTypeOK'
        BY <1>1, <2>1 DEF AccessTypeOK, Moved, Stages
    <2>4. PICK row \in BindingRows :
            /\ <<b, row>> \in seen.bindings
            /\ row.role = r
            /\ InScope(b, row, call.req)
            /\ SubjectMatches(row.subjects, call.user, call.groups)
        BY <1>1 DEF TodoBound
    <2>5. <<r, roles[r]>> \in seen.roles
        BY <1>1 DEF PresentIsSeen, Deciding
    <2>6. row.subjects \in SUBSET Subjects
        BY BindingRowsAssumption
    <2>7. /\ ScopeOf[b] = "RoleBinding" => NsOrDefault(row.ns) = NsOrDefault(call.req.ns)
          /\ \E s \in row.subjects :
                \/ s = [kind |-> "User", name |-> call.user]
                \/ s.kind = "Group" /\ s.name \in call.groups
          /\ \E rule \in roles[r] :
                /\ {"*", call.req.verb} \cap rule.verbs # {}
                /\ {"*", call.req.group} \cap rule.groups # {}
                /\ {"*", call.req.resource} \cap rule.resources # {}
        BY <1>2, <2>4, <2>6, SubjectsAgree, RulesAgree DEF InScope
    <2>8. AllowedByGrant'
        <3> DEFINE B == <<b, row>>  R == <<r, roles[r]>>
        <3>1. B \in seen'.bindings /\ R \in seen'.roles
            BY <1>1, <2>4, <2>5
        <3>2. /\ B[2].role = R[1]
              /\ ScopeOf[B[1]] = "RoleBinding" => NsOrDefault(B[2].ns) = NsOrDefault(call'.req.ns)
              /\ \E s \in B[2].subjects :
                    \/ s = [kind |-> "User", name |-> call'.user]
                    \/ s.kind = "Group" /\ s.name \in call'.groups
              /\ \E rule \in R[2] :
                    /\ {"*", call'.req.verb} \cap rule.verbs # {}
                    /\ {"*", call'.req.group} \cap rule.groups # {}
                    /\ {"*", call'.req.resource} \cap rule.resources # {}
            BY <2>2, <2>4, <2>7
        <3> HIDE DEF B, R
        <3> QED BY <3>1, <3>2 DEF AllowedByGrant
    <2> QED BY <2>2, <2>3, <2>8 DEF FreshCall, PresentIsSeen, TodoBound, LastingAhead,
                                    Deciding, DeniedWithoutGrant
<1>3. CASE ~ \E rule \in roles[r] : RuleMatches(rule, call.req)
    <2>1. call' = [call EXCEPT !.todo = @ \ {<<b, r>>}]
        BY <1>3 DEF GetRole
    <2>2. <<b, r>> \notin lasting
        <3> SUFFICES ASSUME <<b, r>> \in lasting PROVE FALSE
            OBVIOUS
        <3>1. Grants(b, r, call.req, call.user, call.groups)
            BY <1>1 DEF LastingAhead, Deciding
        <3> QED BY <1>3, <3>1, GrantsAgree
    <2>3. call.missed \in SUBSET (Bindings \X Roles)
        BY DEF AccessTypeOK
    <2>4. call' = [call EXCEPT !.todo = @ \ {<<b, r>>}, !.missed = call.missed]
        BY <2>1 DEF AccessTypeOK
    <2> QED BY <1>1, <2>2, <2>3, <2>4, PassedKeeps
<1> QED BY <1>2, <1>3

LEMMA NextScopeKeeps == AccessInv /\ NextScope => AccessInv'
<1> SUFFICES ASSUME AccessInv, NextScope PROVE AccessInv'
    OBVIOUS
<1> USE DEF AccessInv
<1>1. /\ call.at = "checking" /\ call.todo = {}
      /\ UNCHANGED <<users, roles, bindings, seen, lasting>>
    BY DEF NextScope
<1>2. call.scope \in {1, 2}
    BY DEF AccessTypeOK
<1>3. \A e \in lasting :
        /\ ScopeOf[e[1]] \in {"ClusterRoleBinding", "RoleBinding"}
        /\ Grants(e[1], e[2], call.req, call.user, call.groups)
        /\ e \notin call.missed =>
            /\ ScopeOf[e[1]] # Scopes[call.scope]
            /\ call.scope = 2 => ScopeOf[e[1]] = "RoleBinding"
    BY <1>1, ScopeOfAssumption DEF LastingAhead, Deciding, AccessTypeOK
<1>4. CASE call.scope = 1
    <2>1. call' = [call EXCEPT !.at = "listing", !.scope = 2]
        BY <1>4 DEF NextScope
    <2>2. /\ call'.at = "listing" /\ call'.req = call.req
          /\ call'.user = call.user /\ call'.groups = call.groups
          /\ call'.scope = 2 /\ call'.missed = call.missed
        BY <2>1 DEF AccessTypeOK
    <2>3. AccessTypeOK'
        BY <1>1, <2>1 DEF AccessTypeOK, Stages
    <2>4. PresentIsSeen'
        BY <1>1 DEF PresentIsSeen, Deciding
    <2>5. LastingAhead'
        <3> SUFFICES ASSUME NEW e \in lasting
                     PROVE  /\ Grants(e[1], e[2], call.req, call.user, call.groups)'
                            /\ e \notin call.missed => ScopeOf[e[1]] = "RoleBinding"
            BY <1>1, <2>2 DEF LastingAhead
        <3>1. Grants(e[1], e[2], call.req, call.user, call.groups)'
            BY <1>1, <1>3, <2>2 DEF Grants
        <3>2. e \notin call.missed => ScopeOf[e[1]] = "RoleBinding"
            BY <1>3, <1>4 DEF Scopes
        <3> QED BY <3>1, <3>2
    <2> QED BY <2>2, <2>3, <2>4, <2>5 DEF FreshCall, TodoBound, AllowedByGrant, DeniedWithoutGrant
<1>5. CASE call.scope = 2
    <2>1. call' = [call EXCEPT !.at = "denied"]
        BY <1>5 DEF NextScope
    <2>2. call'.at = "denied" /\ call'.missed = call.missed
        BY <2>1 DEF AccessTypeOK
    <2>3. AccessTypeOK'
        BY <1>1, <2>1 DEF AccessTypeOK, Stages
    <2>4. DeniedWithoutGrant'
        BY <1>1, <1>3, <1>5, <2>2 DEF DeniedWithoutGrant, Scopes
    <2> QED BY <2>2, <2>3, <2>4 DEF FreshCall, PresentIsSeen, TodoBound, LastingAhead,
                                    Deciding, AllowedByGrant
<1> QED BY <1>2, <1>4, <1>5

\* Writes of others: more is seen, less is lasting.
LEMMA ObserveKeeps ==
    ASSUME AccessInv, Observe, UNCHANGED <<users, call>>,
           roles' \in [Roles -> RuleSets], bindings' \in [Bindings -> BindingRows]
    PROVE  AccessInv'
<1> USE DEF AccessInv
<1>1. seen' \in [bindings : SUBSET (Bindings \X BindingRows),
                 roles : SUBSET (Roles \X RuleSets)]
    <2>1. CASE Deciding
        <3>1. {<<b, bindings'[b]>> : b \in Bindings} \in SUBSET (Bindings \X BindingRows)
            OBVIOUS
        <3>2. {<<r, roles'[r]>> : r \in Roles} \in SUBSET (Roles \X RuleSets)
            OBVIOUS
        <3> QED BY <2>1, <3>1, <3>2 DEF Observe, AccessTypeOK
    <2>2. CASE ~Deciding
        BY <2>2 DEF Observe, AccessTypeOK
    <2> QED BY <2>1, <2>2
<1>2. seen.bindings \subseteq seen'.bindings /\ seen.roles \subseteq seen'.roles
    BY DEF Observe
<1>3. lasting' \subseteq lasting
    BY DEF Observe
<1>4. AccessTypeOK'
    BY <1>1, <1>3 DEF AccessTypeOK
<1>5. PresentIsSeen'
    BY DEF PresentIsSeen, Deciding, Observe
<1>6. TodoBound'
    BY <1>2 DEF TodoBound
<1>7. LastingAhead'
    <2> SUFFICES ASSUME Deciding, NEW e \in lasting'
                 PROVE  /\ Grants(e[1], e[2], call.req, call.user, call.groups)'
                        /\ e \notin call.missed =>
                            /\ call.at = "checking" /\ ScopeOf[e[1]] = Scopes[call.scope] => e \in call.todo
                            /\ call.scope = 2 => ScopeOf[e[1]] = "RoleBinding"
        BY DEF LastingAhead, Deciding
    <2>1. Grants(e[1], e[2], call.req, call.user, call.groups)'
        BY DEF Observe
    <2> QED BY <1>3, <2>1 DEF LastingAhead
<1>8. AllowedByGrant'
    BY <1>2 DEF AllowedByGrant
<1>9. DeniedWithoutGrant'
    BY <1>3 DEF DeniedWithoutGrant
<1> QED BY <1>4, <1>5, <1>6, <1>7, <1>8, <1>9 DEF FreshCall

LEMMA AdministerKeeps == AccessInv /\ Administer => AccessInv'
<1> SUFFICES ASSUME AccessInv, Administer PROVE AccessInv'
    OBVIOUS
<1> USE DEF AccessInv
<1>1. ASSUME NEW u \in Users, NEW t \in Tokens, NEW g \in SUBSET Groups, UpsertUser(u, t, g)
      PROVE  AccessInv'
    <2>1. UNCHANGED <<roles, bindings, call, seen, lasting>>
        BY <1>1 DEF UpsertUser
    <2>2. users' \in [Users -> [token : Tokens, groups : SUBSET Groups]]
        BY <1>1 DEF UpsertUser, AccessTypeOK
    <2>3. AccessTypeOK'
        BY <2>1, <2>2 DEF AccessTypeOK
    <2>4. LastingAhead'
        BY <2>1 DEF LastingAhead, Deciding, Grants
    <2> QED BY <2>1, <2>3, <2>4 DEF FreshCall, PresentIsSeen, TodoBound, Deciding,
                                    AllowedByGrant, DeniedWithoutGrant
<1>2. ASSUME NEW r \in Roles, NEW rules \in RuleSets, UpsertRole(r, rules)
      PROVE  AccessInv'
    <2>1. UNCHANGED <<users, bindings, call>> /\ Observe
        BY <1>2 DEF UpsertRole
    <2>2. roles' \in [Roles -> RuleSets] /\ bindings' \in [Bindings -> BindingRows]
        BY <1>2 DEF UpsertRole, AccessTypeOK
    <2> QED BY <2>1, <2>2, ObserveKeeps
<1>3. ASSUME NEW b \in Bindings, NEW row \in BindingRows, UpsertRoleBinding(b, row)
      PROVE  AccessInv'
    <2>1. UNCHANGED <<users, roles, call>> /\ Observe
        BY <1>3 DEF UpsertRoleBinding
    <2>2. roles' \in [Roles -> RuleSets] /\ bindings' \in [Bindings -> BindingRows]
        BY <1>3 DEF UpsertRoleBinding, AccessTypeOK
    <2> QED BY <2>1, <2>2, ObserveKeeps
<1> QED BY <1>1, <1>2, <1>3 DEF Administer

LEMMA GuardKeeps == AccessInv /\ Guard => AccessInv'
<1> SUFFICES ASSUME AccessInv, Guard PROVE AccessInv'
    OBVIOUS
<1>1. CASE AuthenticateFails
    BY <1>1, StopKeeps DEF AuthenticateFails
<1>2. CASE ListRoleBindingsFails
    BY <1>2, StopKeeps DEF ListRoleBindingsFails
<1>3. ASSUME NEW b \in Bindings, NEW r \in Roles, GetRoleFails(b, r)
      PROVE  AccessInv'
    <2> DEFINE missed == call.missed \cup {<<b, r>>}
    <2>1. missed \in SUBSET (Bindings \X Roles)
        BY DEF AccessInv, AccessTypeOK
    <2>2. call.missed \subseteq missed /\ <<b, r>> \in missed
        OBVIOUS
    <2>3. /\ call.at = "checking" /\ <<b, r>> \in call.todo
          /\ call' = [call EXCEPT !.todo = @ \ {<<b, r>>}, !.missed = missed]
          /\ UNCHANGED <<users, roles, bindings, seen, lasting>>
        BY <1>3 DEF GetRoleFails
    <2> HIDE DEF missed
    <2> QED BY <2>1, <2>2, <2>3, PassedKeeps
<1> QED BY <1>1, <1>2, <1>3, AuthenticateKeeps, ListRoleBindingsKeeps, GetRoleKeeps,
           NextScopeKeeps DEF Guard

LEMMA AccessStutters == AccessInv /\ UNCHANGED avars => AccessInv'
<1> SUFFICES ASSUME AccessInv, UNCHANGED avars PROVE AccessInv'
    OBVIOUS
<1>1. UNCHANGED users /\ UNCHANGED roles /\ UNCHANGED bindings /\ UNCHANGED call
      /\ UNCHANGED seen /\ UNCHANGED lasting
    BY DEF avars
<1>2. AccessTypeOK'
    BY <1>1 DEF AccessInv, AccessTypeOK
<1>3. FreshCall' /\ PresentIsSeen' /\ TodoBound'
    BY <1>1 DEF AccessInv, FreshCall, PresentIsSeen, TodoBound, Deciding
<1>4. LastingAhead'
    BY <1>1 DEF AccessInv, LastingAhead, Deciding, Grants
<1>5. AllowedByGrant' /\ DeniedWithoutGrant'
    BY <1>1 DEF AccessInv, AllowedByGrant, DeniedWithoutGrant
<1> QED BY <1>2, <1>3, <1>4, <1>5 DEF AccessInv

-----------------------------------------------------------------------------
\* Pod p is what g may become in a review.
Grown(g, p) ==
    /\ p.optedIn = g.optedIn
    /\ \/ p.containers = g.containers
       \/ /\ g.optedIn /\ Sidecars(g) = {}
          /\ p.containers = Append(g.containers, <<"mk-sidecar", FALSE>>)

PodGrown == Grown(review.given, review.pod)

DemandsRegistered == demands \subseteq ToSet(hooks)

\* What is demanded is to be called yet or has been satisfied for good: a memory
\* rule is satisfied once the mutating webhooks are through.
DemandsAhead ==
    review.at = "calling" =>
        \A h \in demands : h.policy = "Fail" /\ MatchesResource(h) =>
            \/ \E t \in review.todo : t[2] = h
            \/ /\ Satisfied(h)
               /\ h.type = "Validating" => \A u \in review.todo : u[2].type # "Mutating"

AdmissionInv ==
    /\ AdmissionTypeOK /\ PodGrown /\ DemandsRegistered /\ DemandsAhead
    /\ AdmittedMeetsDemands

-----------------------------------------------------------------------------
(* Sequences. *)

LEMMA RemoveAtIs ==
    ASSUME NEW S, NEW s \in Seq(S), NEW i \in 1 .. Len(s)
    PROVE  /\ RemoveAt(s, i) \in Seq(S)
           /\ Len(RemoveAt(s, i)) = Len(s) - 1
           /\ \A j \in 1 .. Len(s) - 1 :
                RemoveAt(s, i)[j] = IF j < i THEN s[j] ELSE s[j + 1]
<1>0. /\ Len(s) \in Nat /\ i \in Int /\ Len(s) \in Int /\ 1 \in Int
      /\ i - 1 \in Int /\ i + 1 \in Int
    BY LenProperties
<1>a. \A k \in 1 .. Len(s) : s[k] \in S
    BY ElementOfSeq
<1> DEFINE a == SubSeq(s, 1, i - 1)
           b == SubSeq(s, i + 1, Len(s))
<1>1. a \in Seq(S) /\ Len(a) = i - 1 /\ \A k \in 1 .. i - 1 : a[k] = s[k]
    <2>1. \A k \in 1 .. i - 1 : s[k] \in S
        BY <1>0, <1>a
    <2>2. /\ a \in Seq(S) /\ Len(a) = IF 1 <= i - 1 THEN i - 1 - 1 + 1 ELSE 0
          /\ \A k \in 1 .. (i - 1) - 1 + 1 : a[k] = s[1 + k - 1]
        BY <1>0, <2>1, SubSeqProperties
    <2> HIDE DEF a
    <2> QED BY <1>0, <2>2
<1>2. b \in Seq(S) /\ Len(b) = Len(s) - i /\ \A k \in 1 .. Len(s) - i : b[k] = s[k + i]
    <2>1. \A k \in i + 1 .. Len(s) : s[k] \in S
        BY <1>0, <1>a
    <2>2. /\ b \in Seq(S) /\ Len(b) = IF i + 1 <= Len(s) THEN Len(s) - (i + 1) + 1 ELSE 0
          /\ \A k \in 1 .. Len(s) - (i + 1) + 1 : b[k] = s[i + 1 + k - 1]
        BY <1>0, <2>1, SubSeqProperties
    <2> HIDE DEF b
    <2>3. \A k \in 1 .. Len(s) - i : i + 1 + k - 1 = k + i
        BY <1>0
    <2> QED BY <1>0, <2>2, <2>3
<1> HIDE DEF a, b
<1>3. /\ a \o b \in Seq(S) /\ Len(a \o b) = Len(a) + Len(b)
      /\ \A k \in 1 .. Len(a) + Len(b) :
            (a \o b)[k] = IF k <= Len(a) THEN a[k] ELSE b[k - Len(a)]
    BY <1>1, <1>2, ConcatProperties
<1>4. RemoveAt(s, i) = a \o b
    BY DEF RemoveAt, a, b
<1>5. Len(a) + Len(b) = Len(s) - 1
    BY <1>0, <1>1, <1>2
<1>6. ASSUME NEW j \in 1 .. Len(s) - 1
      PROVE  (a \o b)[j] = IF j < i THEN s[j] ELSE s[j + 1]
    <2>1. (a \o b)[j] = IF j <= i - 1 THEN a[j] ELSE b[j - (i - 1)]
        BY <1>1, <1>3, <1>5
    <2>2. CASE j < i
        <3>1. j <= i - 1 /\ j \in 1 .. i - 1
            BY <1>0, <2>2
        <3> QED BY <1>1, <2>1, <2>2, <3>1
    <2>3. CASE ~(j < i)
        <3> DEFINE k == j - (i - 1)
        <3>1. ~(j <= i - 1) /\ k \in 1 .. Len(s) - i /\ k + i = j + 1
            BY <1>0, <2>3
        <3> HIDE DEF k
        <3>2. b[k] = s[k + i]
            BY <1>2, <3>1
        <3> QED BY <2>1, <2>3, <3>1, <3>2 DEF k
    <2> QED BY <2>2, <2>3
<1> QED BY <1>3, <1>4, <1>5, <1>6

-----------------------------------------------------------------------------
(* What a review makes of a pod. *)

\* Containers with the injected one at their end.
LEMMA SidecarAppended ==
    ASSUME NEW s \in Seq(Containers)
    PROVE  /\ Append(s, <<"mk-sidecar", FALSE>>) \in Seq(Containers)
           /\ Len(Append(s, <<"mk-sidecar", FALSE>>)) = Len(s) + 1
           /\ Append(s, <<"mk-sidecar", FALSE>>)[Len(s) + 1] = <<"mk-sidecar", FALSE>>
           /\ \A i \in 1 .. Len(s) : Append(s, <<"mk-sidecar", FALSE>>)[i] = s[i]
<1> DEFINE c == <<"mk-sidecar", FALSE>>
<1>1. c \in Containers
    BY DEF Containers
<1> HIDE DEF c
<1>2. /\ Append(s, c) \in Seq(Containers) /\ Len(Append(s, c)) = Len(s) + 1
      /\ Append(s, c)[Len(s) + 1] = c /\ \A i \in 1 .. Len(s) : Append(s, c)[i] = s[i]
    BY <1>1, AppendProperties
<1> QED BY <1>2 DEF c

\* A pod that asked for a sidecar has the right ones as soon as it has any.
LEMMA GrownSidecars ==
    ASSUME NEW g \in PodRecords, NEW p \in PodRecords, Grown(g, p), g.optedIn
    PROVE  (IF Sidecars(g) = {} THEN Cardinality(Sidecars(p)) = 1
            ELSE Sidecars(p) = Sidecars(g)) <=> Sidecars(p) # {}
<1>1. CASE p.containers = g.containers
    <2>1. Sidecars(p) = Sidecars(g)
        BY <1>1 DEF Sidecars
    <2>2. Cardinality({}) = 0
        BY FS_EmptySet
    <2> QED BY <2>1, <2>2
<1>2. CASE /\ Sidecars(g) = {}
           /\ p.containers = Append(g.containers, <<"mk-sidecar", FALSE>>)
    <2> DEFINE s == g.containers
               n == Len(s) + 1
    <2>1. s \in Seq(Containers) /\ Len(s) \in Nat
        BY DEF PodRecords
    <2>2. /\ Len(p.containers) = n /\ p.containers[n] = <<"mk-sidecar", FALSE>>
          /\ \A i \in 1 .. Len(s) : p.containers[i] = s[i]
        <3> HIDE DEF s
        <3>1. p.containers = Append(s, <<"mk-sidecar", FALSE>>)
            BY <1>2 DEF s
        <3>2. /\ Len(Append(s, <<"mk-sidecar", FALSE>>)) = Len(s) + 1
              /\ Append(s, <<"mk-sidecar", FALSE>>)[Len(s) + 1] = <<"mk-sidecar", FALSE>>
              /\ \A i \in 1 .. Len(s) : Append(s, <<"mk-sidecar", FALSE>>)[i] = s[i]
            BY <2>1, SidecarAppended, Zenon
        <3> QED BY <3>1, <3>2, Zenon
    <2>3. \A i \in 1 .. Len(s) : p.containers[i][1] # "mk-sidecar"
        BY <1>2, <2>2 DEF Sidecars
    <2>4. Sidecars(p) = {n}
        <3> HIDE DEF s
        <3>1. \A i \in 1 .. n : i = n \/ i \in 1 .. Len(s)
            BY <2>1
        <3>2. n \in 1 .. n
            BY <2>1
        <3> QED BY <2>2, <2>3, <3>1, <3>2 DEF Sidecars
    <2>5. Cardinality({n}) = 1
        BY FS_Singleton
    <2> QED BY <1>2, <2>4, <2>5
<1> QED BY <1>1, <1>2 DEF Grown

\* A patch keeps what earlier patches have done.
LEMMA PatchedGrows ==
    ASSUME NEW g \in PodRecords, NEW p \in PodRecords, Grown(g, p), NEW does \in Webhooks
    PROVE  /\ Patched(does, p) \in PodRecords
           /\ Grown(g, Patched(does, p))
           /\ p.admitted \/ does = "mutateAddLabel" => Patched(does, p).admitted
           /\ Sidecars(p) # {} \/ (does = "injectSidecar" /\ g.optedIn) =>
                Sidecars(Patched(does, p)) # {}
<1>1. CASE does = "mutateAddLabel"
    <2> DEFINE new == [p EXCEPT !.admitted = TRUE]
    <2>1. Patched(does, p) = new
        BY <1>1 DEF Patched, MutateAddLabel
    <2>2. /\ new \in PodRecords /\ new.admitted /\ new.optedIn = p.optedIn
          /\ new.containers = p.containers
        BY DEF PodRecords
    <2> HIDE DEF new
    <2>3. Sidecars(new) = Sidecars(p)
        BY <2>2 DEF Sidecars
    <2> QED BY <1>1, <2>1, <2>2, <2>3 DEF Grown
<1>2. CASE does = "injectSidecar"
    <2> DEFINE s == p.containers
               new == [p EXCEPT !.containers = Append(s, <<"mk-sidecar", FALSE>>)]
    <2>1. Patched(does, p) = IF p.optedIn /\ Sidecars(p) = {} THEN new ELSE p
        <3>1. s \in Seq(Containers)
            BY DEF PodRecords
        <3>2. (\E c \in ToSet(s) : c[1] = "mk-sidecar") <=> Sidecars(p) # {}
            BY <3>1 DEF ToSet, Sidecars
        <3> QED BY <1>2, <3>2 DEF Patched, InjectSidecar
    <2>2. CASE p.optedIn /\ Sidecars(p) = {}
        <3>1. s \in Seq(Containers) /\ Len(s) \in Nat
            BY DEF PodRecords
        <3>2. /\ Append(s, <<"mk-sidecar", FALSE>>) \in Seq(Containers)
              /\ Len(Append(s, <<"mk-sidecar", FALSE>>)) = Len(s) + 1
              /\ Append(s, <<"mk-sidecar", FALSE>>)[Len(s) + 1] = <<"mk-sidecar", FALSE>>
            BY <3>1, SidecarAppended
        <3>3. /\ new \in PodRecords /\ new.admitted = p.admitted /\ new.optedIn = p.optedIn
              /\ new.containers = Append(s, <<"mk-sidecar", FALSE>>)
            BY <3>2 DEF PodRecords
        <3> HIDE DEF new
        <3>4. Len(s) + 1 \in Sidecars(new)
            BY <3>1, <3>2, <3>3 DEF Sidecars
        <3>5. p.containers = g.containers
            <4> SUFFICES ASSUME p.containers = Append(g.containers, <<"mk-sidecar", FALSE>>)
                         PROVE  FALSE
                BY DEF Grown
            <4>1. g.containers \in Seq(Containers) /\ Len(g.containers) \in Nat
                BY DEF PodRecords
            <4>2. /\ Len(s) = Len(g.containers) + 1
                  /\ s[Len(g.containers) + 1] = <<"mk-sidecar", FALSE>>
                BY <4>1, SidecarAppended
            <4>3. Len(g.containers) + 1 \in Sidecars(p)
                BY <4>1, <4>2 DEF Sidecars
            <4> QED BY <2>2, <4>3
        <3>6. Sidecars(g) = {}
            BY <2>2, <3>5 DEF Sidecars
        <3>7. Grown(g, new)
            BY <2>2, <3>3, <3>5, <3>6 DEF Grown
        <3> QED BY <1>2, <2>1, <2>2, <3>3, <3>4, <3>7
    <2>3. CASE ~(p.optedIn /\ Sidecars(p) = {})
        <3>1. Patched(does, p) = p
            BY <2>1, <2>3
        <3> QED BY <1>2, <2>3, <3>1 DEF Grown
    <2> QED BY <2>2, <2>3
<1>3. CASE does = "validateMemLimit"
    <2>1. Patched(does, p) = p
        BY <1>3 DEF Patched
    <2> QED BY <1>3, <2>1
<1> QED BY <1>1, <1>2, <1>3 DEF Webhooks

-----------------------------------------------------------------------------
(* The pipeline, step by step. *)

ReviewRecords ==
    [at : {"idle", "listing", "calling", "admitted", "rejected"},
     todo : SUBSET ((1 .. MaxHooks) \X Rows), given : Pods, pod : PodRecords]

LEMMA AdmissionStarts == AdmissionInit => AdmissionInv
<1> SUFFICES ASSUME AdmissionInit PROVE AdmissionInv
    OBVIOUS
<1>1. (CHOOSE p \in Pods : TRUE) \in Pods
    BY PodsAssumption
<1>2. review \in ReviewRecords /\ review.at = "idle" /\ review.given = review.pod
    BY <1>1, PodsAssumption DEF AdmissionInit, NoReview, ReviewRecords
<1>3. AdmissionTypeOK
    BY <1>2, InitialHooksAssumption DEF AdmissionInit, AdmissionTypeOK, ReviewRecords
<1> QED BY <1>2, <1>3 DEF AdmissionInit, AdmissionInv, PodGrown, Grown, DemandsRegistered,
                          DemandsAhead, AdmittedMeetsDemands

\* The end of a review, and the beginning of another.
LEMMA EndReviewKeeps == AdmissionInv /\ EndReview => AdmissionInv'
<1> SUFFICES ASSUME AdmissionInv, EndReview PROVE AdmissionInv'
    OBVIOUS
<1>1. (CHOOSE p \in Pods : TRUE) \in Pods
    BY PodsAssumption
<1>2. review' \in ReviewRecords /\ review'.at = "idle" /\ review'.given = review'.pod
    BY <1>1, PodsAssumption DEF EndReview, NoReview, ReviewRecords
<1>3. AdmissionTypeOK'
    BY <1>2 DEF EndReview, AdmissionInv, AdmissionTypeOK, ReviewRecords
<1> QED BY <1>2, <1>3 DEF EndReview, AdmissionInv, PodGrown, Grown, DemandsRegistered,
                          DemandsAhead, AdmittedMeetsDemands

LEMMA HooksAreRows ==
    ASSUME AdmissionTypeOK
    PROVE  /\ Len(hooks) \in Nat /\ DOMAIN hooks = 1 .. Len(hooks)
           /\ \A i \in 1 .. Len(hooks) : hooks[i] \in Rows
           /\ ToSet(hooks) = {hooks[i] : i \in 1 .. Len(hooks)}
           /\ ToSet(hooks) \subseteq Rows
<1>1. hooks \in Seq(Rows)
    BY DEF AdmissionTypeOK
<1>2. Len(hooks) \in Nat /\ DOMAIN hooks = 1 .. Len(hooks)
    BY <1>1
<1>3. \A i \in 1 .. Len(hooks) : hooks[i] \in Rows
    BY <1>1, ElementOfSeq
<1> QED BY <1>2, <1>3 DEF ToSet

LEMMA BeginReviewKeeps ==
    ASSUME NEW p \in Pods PROVE AdmissionInv /\ BeginReview(p) => AdmissionInv'
<1> SUFFICES ASSUME AdmissionInv, BeginReview(p) PROVE AdmissionInv'
    OBVIOUS
<1>1. review' \in ReviewRecords /\ review'.at = "listing" /\ review'.given = review'.pod
    BY PodsAssumption DEF BeginReview, NoReview, ReviewRecords
<1>2. ToSet(hooks) \subseteq Rows
    BY HooksAreRows DEF AdmissionInv
<1>3. AdmissionTypeOK'
    BY <1>1, <1>2 DEF BeginReview, AdmissionInv, AdmissionTypeOK, ReviewRecords
<1> QED BY <1>1, <1>3 DEF BeginReview, AdmissionInv, PodGrown, Grown, DemandsRegistered,
                          DemandsAhead, AdmittedMeetsDemands

LEMMA ListWebhooksKeeps == AdmissionInv /\ ListWebhooks => AdmissionInv'
<1> SUFFICES ASSUME AdmissionInv, ListWebhooks PROVE AdmissionInv'
    OBVIOUS
<1> USE DEF AdmissionInv
<1> DEFINE todo == {<<i, hooks[i]>> : i \in {k \in 1 .. Len(hooks) : MatchesResource(hooks[k])}}
<1>1. review' = [review EXCEPT !.at = "calling", !.todo = todo] /\ UNCHANGED <<hooks, demands>>
    BY DEF ListWebhooks
<1>2. todo \in SUBSET ((1 .. MaxHooks) \X Rows)
    BY HooksAreRows, MaxHooksAssumption DEF AdmissionTypeOK
<1>3. \A h \in demands : MatchesResource(h) => \E t \in todo : t[2] = h
    <2> SUFFICES ASSUME NEW h \in demands, MatchesResource(h) PROVE \E t \in todo : t[2] = h
        OBVIOUS
    <2>1. PICK i \in 1 .. Len(hooks) : hooks[i] = h
        BY HooksAreRows DEF DemandsRegistered
    <2>2. <<i, hooks[i]>> \in todo
        BY <2>1
    <2> QED BY <2>1, <2>2
<1> HIDE DEF todo
<1>4. /\ review'.at = "calling" /\ review'.todo = todo
      /\ review'.given = review.given /\ review'.pod = review.pod
    BY <1>1 DEF AdmissionTypeOK
<1>5. AdmissionTypeOK'
    BY <1>1, <1>2 DEF AdmissionTypeOK
<1> QED BY <1>1, <1>3, <1>4, <1>5 DEF PodGrown, DemandsRegistered, DemandsAhead,
                                      AdmittedMeetsDemands

\* A review that rejects the pod, whatever is left to do.
LEMMA RejectedKeeps ==
    ASSUME AdmissionInv, NEW todo \in SUBSET ((1 .. MaxHooks) \X Rows),
           review' = [review EXCEPT !.at = "rejected", !.todo = todo],
           UNCHANGED <<hooks, demands>>
    PROVE  AdmissionInv'
<1>1. /\ review'.at = "rejected"
      /\ review'.given = review.given /\ review'.pod = review.pod
    BY DEF AdmissionInv, AdmissionTypeOK
<1>2. AdmissionTypeOK'
    BY DEF AdmissionInv, AdmissionTypeOK
<1> QED BY <1>1, <1>2 DEF AdmissionInv, PodGrown, DemandsRegistered, DemandsAhead,
                          AdmittedMeetsDemands

\* A webhook that has had its way keeps it under a patch, a validating one as long
\* as there is none.
LEMMA SatisfiedStays ==
    ASSUME AdmissionInv, NEW h \in Rows, Satisfied(h), NEW does \in Webhooks,
           review'.given = review.given,
           \/ review'.pod = review.pod
           \/ h.type = "Mutating" /\ review'.pod = Patched(does, review.pod)
    PROVE  Satisfied(h)'
<1>0. review.given \in PodRecords /\ review.pod \in PodRecords /\ Grown(review.given, review.pod)
    BY PodsAssumption DEF AdmissionInv, AdmissionTypeOK, PodGrown
<1>1. CASE review'.pod = review.pod
    BY <1>1 DEF Satisfied
<1>2. CASE h.type = "Mutating" /\ review'.pod = Patched(does, review.pod)
    <2>1. /\ review'.pod \in PodRecords /\ Grown(review.given, review'.pod)
          /\ review.pod.admitted => review'.pod.admitted
          /\ Sidecars(review.pod) # {} => Sidecars(review'.pod) # {}
        BY <1>0, <1>2, PatchedGrows
    <2>2. review.given.optedIn =>
            /\ (IF Sidecars(review.given) = {} THEN Cardinality(Sidecars(review.pod)) = 1
                ELSE Sidecars(review.pod) = Sidecars(review.given)) <=> Sidecars(review.pod) # {}
            /\ (IF Sidecars(review.given) = {} THEN Cardinality(Sidecars(review'.pod)) = 1
                ELSE Sidecars(review'.pod) = Sidecars(review.given)) <=> Sidecars(review'.pod) # {}
        BY <1>0, <2>1, GrownSidecars
    <2> QED BY <1>2, <2>1, <2>2 DEF Satisfied
<1> QED BY <1>1, <1>2

\* A webhook that answers and allows has had its way.
LEMMA AnswerSatisfies ==
    ASSUME AdmissionInv, NEW h \in Rows, Allows(h.does, review.pod),
           review'.given = review.given,
           review'.pod = IF h.type = "Mutating" THEN Patched(h.does, review.pod) ELSE review.pod
    PROVE  Satisfied(h)'
<1>0. /\ review.given \in PodRecords /\ review.pod \in PodRecords
      /\ Grown(review.given, review.pod) /\ h.does \in Webhooks
    BY PodsAssumption DEF AdmissionInv, AdmissionTypeOK, PodGrown, Rows
<1>1. CASE h.type = "Mutating"
    <2>1. /\ review'.pod \in PodRecords /\ Grown(review.given, review'.pod)
          /\ h.does = "mutateAddLabel" => review'.pod.admitted
          /\ h.does = "injectSidecar" /\ review.given.optedIn => Sidecars(review'.pod) # {}
        BY <1>0, <1>1, PatchedGrows
    <2>2. review.given.optedIn =>
            ((IF Sidecars(review.given) = {} THEN Cardinality(Sidecars(review'.pod)) = 1
              ELSE Sidecars(review'.pod) = Sidecars(review.given)) <=> Sidecars(review'.pod) # {})
        BY <1>0, <2>1, GrownSidecars
    <2> QED BY <1>1, <2>1, <2>2 DEF Satisfied
<1>2. CASE h.type # "Mutating"
    <2>1. review'.pod = review.pod /\ review.pod.containers \in Seq(Containers)
        BY <1>0, <1>2 DEF PodRecords
    <2>2. h.does = "validateMemLimit" =>
            \A i \in 1 .. Len(review.pod.containers) : review.pod.containers[i][2]
        BY <2>1 DEF Allows, ValidateMemLimit, ToSet
    <2> QED BY <1>2, <2>1, <2>2 DEF Satisfied
<1> QED BY <1>1, <1>2

LEMMA CallAnsweredKeeps == AdmissionInv /\ CallAnswered => AdmissionInv'
<1> SUFFICES ASSUME AdmissionInv, CallAnswered PROVE AdmissionInv'
    OBVIOUS
<1> USE DEF AdmissionInv
<1>1. PICK t \in review.todo :
        /\ Calling(t)
        /\ review' = IF ~Allows(t[2].does, review.pod) THEN Rejected
                     ELSE [review EXCEPT !.todo = @ \ {t},
                             !.pod = IF t[2].type = "Mutating" THEN Patched(t[2].does, @) ELSE @]
    BY DEF CallAnswered
<1>2. UNCHANGED <<hooks, demands>>
    BY DEF CallAnswered
<1>3. /\ t[2] \in Rows /\ t[2].does \in Webhooks
      /\ \A u \in review.todo : u[2] \in Rows
    BY DEF AdmissionTypeOK, Rows
<1>4. CASE ~Allows(t[2].does, review.pod)
    <2>1. review' = [review EXCEPT !.at = "rejected", !.todo = {}]
        BY <1>1, <1>4 DEF Rejected
    <2>2. {} \in SUBSET ((1 .. MaxHooks) \X Rows)
        OBVIOUS
    <2> QED BY <1>2, <2>1, <2>2, RejectedKeeps
<1>5. CASE Allows(t[2].does, review.pod)
    <2> DEFINE pod == IF t[2].type = "Mutating" THEN Patched(t[2].does, review.pod) ELSE review.pod
    <2>1. review' = [review EXCEPT !.todo = @ \ {t}, !.pod = pod]
        BY <1>1, <1>5
    <2>2. review.given \in PodRecords /\ review.pod \in PodRecords /\ Grown(review.given, review.pod)
        BY PodsAssumption DEF AdmissionTypeOK, PodGrown
    <2>3. pod \in PodRecords /\ Grown(review.given, pod)
        BY <1>3, <2>2, PatchedGrows
    <2> HIDE DEF pod
    <2>4. /\ review'.at = "calling" /\ review'.todo = review.todo \ {t}
          /\ review'.given = review.given /\ review'.pod = pod
        BY <1>1, <2>1 DEF AdmissionTypeOK, Calling
    <2>5. AdmissionTypeOK'
        <3>1. review.todo \ {t} \in SUBSET ((1 .. MaxHooks) \X Rows)
            BY DEF AdmissionTypeOK
        <3> QED BY <1>2, <2>1, <2>3, <3>1 DEF AdmissionTypeOK
    <2>6. DemandsAhead'
        <3> SUFFICES ASSUME NEW h \in demands, h.policy = "Fail", MatchesResource(h),
                            ~ \E u \in review.todo \ {t} : u[2] = h
                     PROVE  /\ Satisfied(h)'
                            /\ h.type = "Validating" =>
                                \A u \in review.todo \ {t} : u[2].type # "Mutating"
            BY <1>2, <2>4 DEF DemandsAhead
        <3>0. h \in Rows
            BY DEF AdmissionTypeOK
        <3>1. CASE h = t[2]
            <4>1. Satisfied(h)'
                BY <1>3, <1>5, <2>4, <3>1, AnswerSatisfies DEF pod
            <4>2. \A u \in review.todo \ {t} : Before(t, u)
                BY <1>1 DEF Calling
            <4> QED BY <3>1, <4>1, <4>2 DEF Before
        <3>2. CASE h # t[2]
            <4>1. /\ Satisfied(h)
                  /\ h.type = "Validating" => \A u \in review.todo : u[2].type # "Mutating"
                BY <1>1, <3>2 DEF DemandsAhead, Calling
            <4>2. h.type \in {"Mutating", "Validating"}
                BY <3>0 DEF Rows
            <4>3. \/ pod = review.pod
                  \/ h.type = "Mutating" /\ pod = Patched(t[2].does, review.pod)
                BY <4>1, <4>2 DEF pod
            <4>4. Satisfied(h)'
                BY <1>3, <2>4, <3>0, <4>1, <4>3, SatisfiedStays
            <4> QED BY <4>1, <4>4
        <3> QED BY <3>1, <3>2
    <2>7. PodGrown' /\ DemandsRegistered'
        BY <1>2, <2>3, <2>4 DEF PodGrown, DemandsRegistered
    <2> QED BY <2>4, <2>5, <2>6, <2>7 DEF AdmittedMeetsDemands
<1> QED BY <1>4, <1>5

LEMMA CallFailsKeeps == AdmissionInv /\ CallFails => AdmissionInv'
<1> SUFFICES ASSUME AdmissionInv, CallFails PROVE AdmissionInv'
    OBVIOUS
<1> USE DEF AdmissionInv
<1>1. PICK t \in review.todo :
        /\ Calling(t)
        /\ review' = IF t[2].policy = "Ignore" THEN [review EXCEPT !.todo = @ \ {t}] ELSE Rejected
    BY DEF CallFails
<1>2. UNCHANGED <<hooks, demands>>
    BY DEF CallFails
<1>3. CASE t[2].policy # "Ignore"
    <2>1. review' = [review EXCEPT !.at = "rejected", !.todo = {}]
        BY <1>1, <1>3 DEF Rejected
    <2>2. {} \in SUBSET ((1 .. MaxHooks) \X Rows)
        OBVIOUS
    <2> QED BY <1>2, <2>1, <2>2, RejectedKeeps
<1>4. CASE t[2].policy = "Ignore"
    <2>1. review' = [review EXCEPT !.todo = @ \ {t}]
        BY <1>1, <1>4
    <2>2. /\ review'.at = "calling" /\ review'.todo = review.todo \ {t}
          /\ review'.given = review.given /\ review'.pod = review.pod
        BY <1>1, <2>1 DEF AdmissionTypeOK, Calling
    <2>3. AdmissionTypeOK'
        <3>1. review.todo \ {t} \in SUBSET ((1 .. MaxHooks) \X Rows)
            BY DEF AdmissionTypeOK
        <3> QED BY <1>2, <2>1, <3>1 DEF AdmissionTypeOK
    <2>4. DemandsAhead'
        <3> SUFFICES ASSUME NEW h \in demands, h.policy = "Fail", MatchesResource(h),
                            ~ \E u \in review.todo \ {t} : u[2] = h
                     PROVE  /\ Satisfied(h)'
                            /\ h.type = "Validating" =>
                                \A u \in review.todo \ {t} : u[2].type # "Mutating"
            BY <1>2, <2>2 DEF DemandsAhead
        <3>1. h # t[2]
            BY <1>4
        <3>2. /\ Satisfied(h)
              /\ h.type = "Validating" => \A u \in review.todo : u[2].type # "Mutating"
            BY <1>1, <3>1 DEF DemandsAhead, Calling
        <3>3. Satisfied(h)'
            BY <2>2, <3>2 DEF Satisfied
        <3> QED BY <3>2, <3>3
    <2>5. PodGrown' /\ DemandsRegistered'
        BY <1>2, <2>2 DEF PodGrown, DemandsRegistered
    <2> QED BY <2>2, <2>3, <2>4, <2>5 DEF AdmittedMeetsDemands
<1> QED BY <1>3, <1>4

LEMMA AdmitKeeps == AdmissionInv /\ Admit => AdmissionInv'
<1> SUFFICES ASSUME AdmissionInv, Admit PROVE AdmissionInv'
    OBVIOUS
<1> USE DEF AdmissionInv
<1>1. /\ review.at = "calling" /\ review.todo = {} /\ UNCHANGED <<hooks, demands>>
      /\ review' = [review EXCEPT !.at = "admitted"]
    BY DEF Admit
<1>2. review'.at = "admitted" /\ review'.given = review.given /\ review'.pod = review.pod
    BY <1>1 DEF AdmissionTypeOK
<1>3. AdmissionTypeOK'
    BY <1>1 DEF AdmissionTypeOK
<1>4. \A h \in demands : h.policy = "Fail" /\ MatchesResource(h) => Satisfied(h)
    BY <1>1 DEF DemandsAhead
<1>5. \A h : Satisfied(h) => Satisfied(h)'
    BY <1>2 DEF Satisfied
<1>6. AdmittedMeetsDemands'
    BY <1>1, <1>4, <1>5 DEF AdmittedMeetsDemands, MatchesResource
<1> QED BY <1>1, <1>2, <1>3, <1>6 DEF PodGrown, DemandsRegistered, DemandsAhead

\* Registrations change: the review goes on, and less is demanded.
LEMMA RegisteredKeeps ==
    ASSUME AdmissionInv, hooks' \in Seq(Rows), Len(hooks') <= MaxHooks, KeyUnique(hooks'),
           demands' = demands \cap ToSet(hooks'), UNCHANGED review
    PROVE  AdmissionInv'
<1> USE DEF AdmissionInv
<1>1. AdmissionTypeOK'
    BY DEF AdmissionTypeOK
<1>2. demands' \subseteq demands /\ demands' \subseteq ToSet(hooks')
    OBVIOUS
<1>3. \A h : Satisfied(h) => Satisfied(h)'
    BY DEF Satisfied
<1>4. DemandsAhead' /\ AdmittedMeetsDemands'
    BY <1>2, <1>3 DEF DemandsAhead, AdmittedMeetsDemands
<1> QED BY <1>1, <1>2, <1>4 DEF PodGrown, DemandsRegistered

LEMMA UpsertWebhookKeeps ==
    ASSUME NEW h \in Registrations PROVE AdmissionInv /\ UpsertWebhook(h) => AdmissionInv'
<1> SUFFICES ASSUME AdmissionInv, UpsertWebhook(h) PROVE AdmissionInv'
    OBVIOUS
<1> USE DEF AdmissionInv
<1> DEFINE row == [h EXCEPT !.policy = IF @ = "" THEN "Fail" ELSE @]
           at == {i \in 1 .. Len(hooks) : hooks[i].name = h.name}
<1>1. /\ at = {} => Len(hooks) < MaxHooks
      /\ hooks' = IF at = {} THEN Append(hooks, row)
                  ELSE [i \in 1 .. Len(hooks) |-> IF i \in at THEN row ELSE hooks[i]]
      /\ demands' = demands \cap ToSet(hooks') /\ UNCHANGED review
    BY DEF UpsertWebhook
<1>2. row \in Rows /\ row.name = h.name
    <2>1. PICK r \in Rows, policy \in {"", "Fail", "Ignore"} : h = [r EXCEPT !.policy = policy]
        BY RegistrationsAssumption
    <2>2. h.policy = policy /\ h.name = r.name
        BY <2>1 DEF Rows
    <2>3. row = [r EXCEPT !.policy = IF policy = "" THEN "Fail" ELSE policy]
        BY <2>1, <2>2 DEF Rows
    <2> QED BY <2>2, <2>3 DEF Rows
<1> HIDE DEF row
<1>3. /\ hooks \in Seq(Rows) /\ Len(hooks) \in Nat /\ Len(hooks) <= MaxHooks
      /\ \A i \in 1 .. Len(hooks) : hooks[i] \in Rows
      /\ \A i, j \in 1 .. Len(hooks) : hooks[i].name = hooks[j].name => i = j
    BY HooksAreRows DEF AdmissionTypeOK, KeyUnique
<1>4. CASE at = {}
    <2>1. hooks' = Append(hooks, row) /\ Len(hooks) < MaxHooks
        BY <1>1, <1>4
    <2>2. /\ hooks' \in Seq(Rows) /\ Len(hooks') = Len(hooks) + 1
          /\ \A i \in 1 .. Len(hooks) : hooks'[i] = hooks[i]
          /\ hooks'[Len(hooks) + 1] = row
        BY <1>2, <1>3, <2>1, AppendProperties
    <2>3. Len(hooks') <= MaxHooks
        BY <1>3, <2>1, <2>2, MaxHooksAssumption
    <2>4. \A i \in 1 .. Len(hooks) : hooks[i].name # h.name
        BY <1>4
    <2>5. \A i \in 1 .. Len(hooks') : i \in 1 .. Len(hooks) \/ i = Len(hooks) + 1
        BY <1>3, <2>2
    <2>6. KeyUnique(hooks')
        BY <1>2, <1>3, <2>2, <2>4, <2>5 DEF KeyUnique
    <2> QED BY <1>1, <2>2, <2>3, <2>6, RegisteredKeeps
<1>5. CASE at # {}
    <2>1. hooks' = [i \in 1 .. Len(hooks) |-> IF i \in at THEN row ELSE hooks[i]]
        BY <1>1, <1>5
    <2>2. \A i \in 1 .. Len(hooks) : hooks'[i] = IF i \in at THEN row ELSE hooks[i]
        BY <2>1
    <2>3. hooks' \in Seq(Rows) /\ Len(hooks') = Len(hooks)
        BY <1>2, <1>3, <2>1
    <2>4. \A i \in 1 .. Len(hooks) : hooks'[i].name = hooks[i].name
        BY <1>2, <2>2
    <2>5. KeyUnique(hooks')
        BY <1>3, <2>3, <2>4 DEF KeyUnique
    <2> QED BY <1>1, <1>3, <2>3, <2>5, RegisteredKeeps
<1> QED BY <1>4, <1>5

LEMMA DeleteWebhookKeeps == ASSUME NEW i PROVE AdmissionInv /\ DeleteWebhook(i) => AdmissionInv'
<1> SUFFICES ASSUME AdmissionInv, DeleteWebhook(i) PROVE AdmissionInv'
    OBVIOUS
<1> USE DEF AdmissionInv
<1>1. /\ i \in 1 .. Len(hooks) /\ hooks' = RemoveAt(hooks, i)
      /\ demands' = demands \cap ToSet(hooks') /\ UNCHANGED review
    BY DEF DeleteWebhook
<1>2. /\ hooks \in Seq(Rows) /\ Len(hooks) \in Nat /\ Len(hooks) <= MaxHooks
      /\ \A j, k \in 1 .. Len(hooks) : hooks[j].name = hooks[k].name => j = k
    BY HooksAreRows DEF AdmissionTypeOK, KeyUnique
<1>3. /\ hooks' \in Seq(Rows) /\ Len(hooks') = Len(hooks) - 1
      /\ \A j \in 1 .. Len(hooks) - 1 : hooks'[j] = IF j < i THEN hooks[j] ELSE hooks[j + 1]
    BY <1>1, <1>2, RemoveAtIs
<1>4. Len(hooks') <= MaxHooks
    BY <1>2, <1>3, MaxHooksAssumption
<1>5. ASSUME NEW j \in 1 .. Len(hooks'), NEW k \in 1 .. Len(hooks'),
             hooks'[j].name = hooks'[k].name
      PROVE  j = k
    <2> DEFINE was(n) == IF n < i THEN n ELSE n + 1
    <2>1. \A n \in 1 .. Len(hooks') : was(n) \in 1 .. Len(hooks) /\ hooks'[n] = hooks[was(n)]
        BY <1>1, <1>2, <1>3
    <2>2. was(j) \in 1 .. Len(hooks) /\ was(k) \in 1 .. Len(hooks)
          /\ hooks[was(j)].name = hooks[was(k)].name
        BY <1>5, <2>1
    <2>3. was(j) = was(k)
        <3> HIDE DEF was
        <3> QED BY <1>2, <2>2
    <2> QED BY <1>1, <1>2, <1>3, <2>3
<1> QED BY <1>1, <1>3, <1>4, <1>5, RegisteredKeeps DEF KeyUnique

LEMMA PipelineKeeps == AdmissionInv /\ Pipeline => AdmissionInv'
<1> SUFFICES ASSUME AdmissionInv, Pipeline PROVE AdmissionInv'
    OBVIOUS
<1>1. CASE ListWebhooksFails
    <2>1. review.todo \in SUBSET ((1 .. MaxHooks) \X Rows)
        BY DEF AdmissionInv, AdmissionTypeOK
    <2>2. review' = [review EXCEPT !.at = "rejected", !.todo = review.todo]
        BY <1>1 DEF ListWebhooksFails, AdmissionInv, AdmissionTypeOK
    <2> QED BY <1>1, <2>1, <2>2, RejectedKeeps DEF ListWebhooksFails
<1> QED BY <1>1, ListWebhooksKeeps, CallAnsweredKeeps, CallFailsKeeps, AdmitKeeps DEF Pipeline

LEMMA RegisterKeeps == AdmissionInv /\ Register => AdmissionInv'
BY UpsertWebhookKeeps, DeleteWebhookKeeps DEF Register

LEMMA AdmissionStutters == AdmissionInv /\ UNCHANGED mvars => AdmissionInv'
<1> SUFFICES ASSUME AdmissionInv, UNCHANGED mvars PROVE AdmissionInv'
    OBVIOUS
<1>1. UNCHANGED hooks /\ UNCHANGED review /\ UNCHANGED demands
    BY DEF mvars
<1>2. \A h : Satisfied(h) => Satisfied(h)'
    BY <1>1 DEF Satisfied
<1>3. AdmissionTypeOK' /\ PodGrown' /\ DemandsRegistered'
    BY <1>1 DEF AdmissionInv, AdmissionTypeOK, PodGrown, DemandsRegistered
<1>4. DemandsAhead' /\ AdmittedMeetsDemands'
    BY <1>1, <1>2 DEF AdmissionInv, DemandsAhead, AdmittedMeetsDemands
<1> QED BY <1>3, <1>4 DEF AdmissionInv

-----------------------------------------------------------------------------
(* The request from end to end. *)

RequestInv == AccessInv /\ AdmissionInv /\ changes \in 0 .. MaxChanges

LEMMA RequestStarts == Init => RequestInv
BY AccessStarts, AdmissionStarts, MaxChangesAssumption DEF Init, RequestInv

LEMMA RequestInductive == RequestInv /\ [Next]_vars => RequestInv'
<1> SUFFICES ASSUME RequestInv, [Next]_vars PROVE RequestInv'
    OBVIOUS
<1>1. \A q \in Requests : Begin(q) => AccessInv'
    BY BeginKeeps DEF RequestInv
<1>2. Guard \/ Answer \/ Administer \/ UNCHANGED avars => AccessInv'
    BY GuardKeeps, AnswerKeeps, AdministerKeeps, AccessStutters DEF RequestInv
<1>3. \A p \in Pods : BeginReview(p) => AdmissionInv'
    BY BeginReviewKeeps DEF RequestInv
<1>4. Pipeline \/ EndReview \/ Register \/ UNCHANGED mvars => AdmissionInv'
    BY PipelineKeeps, EndReviewKeeps, RegisterKeeps, AdmissionStutters DEF RequestInv
<1>5. changes \in 0 .. MaxChanges
    BY DEF RequestInv
<1>6. Change \/ UNCHANGED changes => changes' \in 0 .. MaxChanges
    BY <1>5, MaxChangesAssumption DEF Change
<1>7. CASE UNCHANGED vars
    BY <1>2, <1>4, <1>6, <1>7 DEF vars, RequestInv
<1>8. CASE Next
    BY <1>1, <1>2, <1>3, <1>4, <1>6, <1>8
       DEF Next, Refuse, BadBody, CreatePod, Reject, StorePod, RequestInv
<1> QED BY <1>7, <1>8

LEMMA RequestAlways == Spec => []RequestInv
BY RequestStarts, RequestInductive, PTL DEF Spec

(***************************************************************************)
(* The tables, the request in the guard and the review keep their types:   *)
(* above all, no two webhooks of one name ever, while UpsertWebhook adds   *)
(* or replaces rows and DeleteWebhook takes them out of the middle.        *)
(***************************************************************************)
THEOREM TypeCorrect == Spec => []TypeOK
<1>1. RequestInv => TypeOK
    BY DEF RequestInv, AccessInv, AdmissionInv, TypeOK
<1> QED BY <1>1, RequestAlways, PTL

(***************************************************************************)
(* Nothing is allowed for free: whatever is written between the list of    *)
(* bindings and the looks at their roles, Authorize lets a request pass    *)
(* only by a binding and by a rule of its role there have been meanwhile.  *)
(***************************************************************************)
THEOREM GrantNeeded == Spec => []AllowedByGrant
<1>1. RequestInv => AllowedByGrant
    BY DEF RequestInv, AccessInv
<1> QED BY <1>1, RequestAlways, PTL

(***************************************************************************)
(* Nothing granted is denied: checkBindings of the two scopes does not     *)
(* pass over a binding that grants the request all the time, unless its    *)
(* role could not be read.                                                 *)
(***************************************************************************)
THEOREM GrantHonoured == Spec => []DeniedWithoutGrant
<1>1. RequestInv => DeniedWithoutGrant
    BY DEF RequestInv, AccessInv
<1> QED BY <1>1, RequestAlways, PTL

(***************************************************************************)
(* What Review admits is what the webhooks asked for that were registered  *)
(* all the time and must not fail, for any number of webhooks registered   *)
(* in any order and any pod.                                               *)
(***************************************************************************)
THEOREM DemandsMet == Spec => []AdmittedMeetsDemands
<1>1. RequestInv => AdmittedMeetsDemands
    BY DEF RequestInv, AdmissionInv
<1> QED BY <1>1, RequestAlways, PTL

=============================================================================
