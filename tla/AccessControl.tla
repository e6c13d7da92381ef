---------------------------- MODULE AccessControl ----------------------------
(***************************************************************************)
(* Authentication and RBAC: guard, Authenticator and Authorizer, the API   *)
(* handlers and tables of users, roles and bindings.                       *)
(*                                                                         *)
(* A decision is not one look at the database.  The user, the cluster-wide *)
(* bindings, the role of each of them, the namespaced bindings and again   *)
(* their roles are read one statement after the other while rows are being *)
(* written, and each read may fail.  The module follows one request at a   *)
(* time; a module that extends it says what the handler behind the guard   *)
(* does.                                                                   *)
(***************************************************************************)
EXTENDS Naturals, FiniteSets

CONSTANTS
    Users, NoUser,
    Tokens, NoToken,   \* NoToken: no Authorization header
    Groups, Masters,   \* Masters: the group system:masters
    Roles,             \* <<kind, name>> of Roles and ClusterRoles
    Bindings,          \* names of bindings
    ScopeOf,           \* ClusterRoleBinding or RoleBinding, for each binding
    BindingRows,       \* rows [ns, subjects, role] a binding may be given
    RuleSets,          \* sets of rules [verbs, groups, resources]
    Requests,          \* [token, verb, group, resource, ns], the token known or not
    AnonymousAllowed, RbacEnforce  \* flags of the apiserver

Scopes == <<"ClusterRoleBinding", "RoleBinding">>

ASSUME MastersAssumption == Masters \in Groups /\ NoUser \notin Users /\ NoToken \notin Tokens
ASSUME ScopeOfAssumption == ScopeOf \in [Bindings -> {"ClusterRoleBinding", "RoleBinding"}]
ASSUME RequestsAssumption == Requests # {}
ASSUME FlagsAssumption == AnonymousAllowed \in BOOLEAN /\ RbacEnforce \in BOOLEAN

VARIABLES
    users,    \* [token, groups] of each user
    roles,    \* the rules of each role; a missing role is as one without rules
    bindings, \* the row of each binding, one without subjects where there is none
    call,     \* the request in the guard
    seen,     \* history: bindings and roles there have been during the request
    lasting   \* history: bindings, with their role, that granted the request
              \* all the time

avars == <<users, roles, bindings, call, seen, lasting>>

Subjects == [kind : {"User"}, name : Users] \cup [kind : {"Group"}, name : Groups]

ASSUME BindingRowsAssumption ==
    \A row \in BindingRows : row.subjects \subseteq Subjects /\ row.role \in Roles

NoCall == [at |-> "idle", req |-> CHOOSE q \in Requests : TRUE, user |-> NoUser,
           groups |-> {}, scope |-> 1, todo |-> {}, missed |-> {}]
Nothing == [bindings |-> {}, roles |-> {}]

Stages == {"idle", "authenticating", "listing", "checking",
           "allowed", "denied", "unauthorized", "error"}

AccessTypeOK ==
    /\ users \in [Users -> [token : Tokens, groups : SUBSET Groups]]
    /\ roles \in [Roles -> RuleSets]
    /\ bindings \in [Bindings -> BindingRows]
    /\ call \in [at : Stages, req : Requests, user : Users \cup {NoUser},
                 groups : SUBSET Groups, scope : {1, 2}, todo : SUBSET (Bindings \X Roles),
                 missed : SUBSET (Bindings \X Roles)]
    /\ seen \in [bindings : SUBSET (Bindings \X BindingRows), roles : SUBSET (Roles \X RuleSets)]
    /\ lasting \in SUBSET (Bindings \X Roles)

AccessInit ==
    /\ users \in [Users -> [token : Tokens, groups : {{}}]]
    /\ \A u, v \in Users : u # v => users[u].token # users[v].token
    /\ roles \in [Roles -> RuleSets]
    /\ bindings \in [Bindings -> BindingRows]
    /\ call = NoCall
    /\ seen = Nothing
    /\ lasting = {}

-----------------------------------------------------------------------------
(* What a rule, a subject and a binding match. *)

\* listContains.
ListContains(list, v) == "*" \in list \/ v \in list

\* Mutant: one of the three is enough.
RuleMatches_Any(rule, q) ==
    \/ ListContains(rule.verbs, q.verb)
    \/ ListContains(rule.groups, q.group)
    \/ ListContains(rule.resources, q.resource)

RuleMatches(rule, q) ==
    /\ ListContains(rule.verbs, q.verb)
    /\ ListContains(rule.groups, q.group)
    /\ ListContains(rule.resources, q.resource)

SubjectMatches(subs, user, groups) ==
    \E s \in subs : IF s.kind = "User" THEN s.name = user ELSE s.name \in groups

NsOrDefault(ns) == IF ns = "" THEN "default" ELSE ns

\* Mutant: a namespace that was left out is one of its own.
InScope_Raw(b, row, q) == ScopeOf[b] = "RoleBinding" => row.ns = q.ns

\* The namespace check of checkBindings.
InScope(b, row, q) == ScopeOf[b] = "RoleBinding" => NsOrDefault(row.ns) = NsOrDefault(q.ns)

-----------------------------------------------------------------------------
(* guard: Authenticate, then Authorize. *)

Moved(stage) == call' = [call EXCEPT !.at = stage]

\* A request comes in.
Begin(q) ==
    /\ call.at = "idle"
    /\ call' = [NoCall EXCEPT !.at = "authenticating", !.req = q]
    /\ UNCHANGED <<users, roles, bindings, seen, lasting>>

\* Binding b of role r grants the request, as things are.
Grants(b, r, q, user, groups) ==
    /\ bindings[b].role = r
    /\ ScopeOf[b] = "RoleBinding" => NsOrDefault(bindings[b].ns) = NsOrDefault(q.ns)
    /\ \E s \in bindings[b].subjects :
        s = [kind |-> "User", name |-> user] \/ (s.kind = "Group" /\ s.name \in groups)
    /\ \E rule \in roles[r] :
        /\ {"*", q.verb} \cap rule.verbs # {}
        /\ {"*", q.group} \cap rule.groups # {}
        /\ {"*", q.resource} \cap rule.resources # {}

\* No header: SystemUser, whose group passes the Authorizer.  A token: the user
\* with that token; only those not in system:masters go on to the bindings.
Authenticate ==
    LET q == call.req
        owners == {u \in Users : users[u].token = q.token}
    IN /\ call.at = "authenticating"
       /\ \/ /\ q.token = NoToken
             /\ Moved(IF AnonymousAllowed THEN "allowed" ELSE "unauthorized")
             /\ UNCHANGED <<seen, lasting>>
          \/ /\ q.token # NoToken /\ owners = {}
             /\ Moved("unauthorized")
             /\ UNCHANGED <<seen, lasting>>
          \/ \E u \in owners :
             /\ q.token # NoToken
             /\ call' = [call EXCEPT
                            !.at = IF ~RbacEnforce \/ Masters \in users[u].groups
                                   THEN "allowed" ELSE "listing",
                            !.user = u, !.groups = users[u].groups]
             /\ seen' = [bindings |-> {<<b, bindings[b]>> : b \in Bindings},
                         roles |-> {<<r, roles[r]>> : r \in Roles}]
             /\ lasting' = {e \in Bindings \X Roles :
                                Grants(e[1], e[2], q, u, users[u].groups)}
       /\ UNCHANGED <<users, roles, bindings>>

\* GetUserByToken fails: as if the token were unknown.
AuthenticateFails ==
    /\ call.at = "authenticating"
    /\ call.req.token # NoToken
    /\ Moved("unauthorized")
    /\ UNCHANGED <<users, roles, bindings, seen, lasting>>

\* ListRoleBindings of a scope: what is left to do is to look at the roles of
\* those that are about this user and namespace.
ListRoleBindings ==
    /\ call.at = "listing"
    /\ call' = [call EXCEPT !.at = "checking",
                  !.todo = {<<b, bindings[b].role>> : b \in {x \in Bindings :
                                /\ ScopeOf[x] = Scopes[call.scope]
                                /\ InScope(x, bindings[x], call.req)
                                /\ SubjectMatches(bindings[x].subjects, call.user, call.groups)}}]
    /\ UNCHANGED <<users, roles, bindings, seen, lasting>>

\* It fails: answered 500.
ListRoleBindingsFails ==
    /\ call.at = "listing"
    /\ Moved("error")
    /\ UNCHANGED <<users, roles, bindings, seen, lasting>>

\* GetRole of a binding, and its rules.
GetRole(b, r) ==
    /\ call.at = "checking"
    /\ <<b, r>> \in call.todo
    /\ IF \E rule \in roles[r] : RuleMatches(rule, call.req) THEN Moved("allowed")
       ELSE call' = [call EXCEPT !.todo = @ \ {<<b, r>>}]
    /\ UNCHANGED <<users, roles, bindings, seen, lasting>>

\* It fails: any error is taken for a role that does not exist.
GetRoleFails(b, r) ==
    /\ call.at = "checking"
    /\ <<b, r>> \in call.todo
    /\ call' = [call EXCEPT !.todo = @ \ {<<b, r>>}, !.missed = @ \cup {<<b, r>>}]
    /\ UNCHANGED <<users, roles, bindings, seen, lasting>>

\* Mutant: the namespaced bindings are not looked at.
NextScope_ClusterOnly ==
    /\ call.at = "checking" /\ call.todo = {}
    /\ Moved("denied")
    /\ UNCHANGED <<users, roles, bindings, seen, lasting>>

\* The bindings of a scope are through: the next scope, or 403.
NextScope ==
    /\ call.at = "checking"
    /\ call.todo = {}
    /\ call' = IF call.scope = 1 THEN [call EXCEPT !.at = "listing", !.scope = 2]
               ELSE [call EXCEPT !.at = "denied"]
    /\ UNCHANGED <<users, roles, bindings, seen, lasting>>

\* The request is over.
Answer ==
    /\ call' = NoCall
    /\ seen' = Nothing
    /\ lasting' = {}
    /\ UNCHANGED <<users, roles, bindings>>

Guard ==
    \/ Authenticate \/ AuthenticateFails
    \/ ListRoleBindings \/ ListRoleBindingsFails
    \/ \E b \in Bindings, r \in Roles : GetRole(b, r) \/ GetRoleFails(b, r)
    \/ NextScope

-----------------------------------------------------------------------------
(* POST of users, roles and bindings; the API deletes none of them. *)

Deciding == call.at \in {"listing", "checking"}

\* UpsertUser: a token somebody else has is refused by the UNIQUE column.
UpsertUser(u, token, groups) ==
    /\ \A v \in Users \ {u} : users[v].token # token
    /\ users[u] # [token |-> token, groups |-> groups]
    /\ users' = [users EXCEPT ![u] = [token |-> token, groups |-> groups]]
    /\ UNCHANGED <<roles, bindings, call, seen, lasting>>

\* Grants are forgotten that no longer hold, and what there is now is added.
Observe ==
    /\ seen' = IF Deciding
               THEN [bindings |-> seen.bindings \cup {<<b, bindings'[b]>> : b \in Bindings},
                     roles |-> seen.roles \cup {<<r, roles'[r]>> : r \in Roles}]
               ELSE seen
    /\ lasting' = {e \in lasting : Grants(e[1], e[2], call.req, call.user, call.groups)'}

UpsertRole(r, rules) ==
    /\ roles[r] # rules
    /\ roles' = [roles EXCEPT ![r] = rules]
    /\ UNCHANGED <<users, bindings, call>>
    /\ Observe

UpsertRoleBinding(b, row) ==
    /\ bindings[b] # row
    /\ bindings' = [bindings EXCEPT ![b] = row]
    /\ UNCHANGED <<users, roles, call>>
    /\ Observe

Administer ==
    \/ \E u \in Users, t \in Tokens, g \in SUBSET Groups : UpsertUser(u, t, g)
    \/ \E r \in Roles, rules \in RuleSets : UpsertRole(r, rules)
    \/ \E b \in Bindings, row \in BindingRows : UpsertRoleBinding(b, row)

-----------------------------------------------------------------------------
(***************************************************************************)
(* Nothing is allowed for free: a request that passes the bindings does so *)
(* by a binding that was there at some time during the decision, for this  *)
(* user and namespace, and by a rule its role had at some time during the  *)
(* decision - although binding and role are read at different times.       *)
(***************************************************************************)
AllowedByGrant ==
    call.at = "allowed" /\ RbacEnforce /\ call.user # NoUser /\ Masters \notin call.groups =>
        \E b \in seen.bindings, r \in seen.roles :
            /\ b[2].role = r[1]
            /\ ScopeOf[b[1]] = "RoleBinding" => NsOrDefault(b[2].ns) = NsOrDefault(call.req.ns)
            /\ \E s \in b[2].subjects :
                \/ s = [kind |-> "User", name |-> call.user]
                \/ s.kind = "Group" /\ s.name \in call.groups
            /\ \E rule \in r[2] :
                /\ {"*", call.req.verb} \cap rule.verbs # {}
                /\ {"*", call.req.group} \cap rule.groups # {}
                /\ {"*", call.req.resource} \cap rule.resources # {}

(***************************************************************************)
(* Nothing granted is denied: a request is forbidden only if every binding *)
(* of a role that granted it all through the decision is one whose role    *)
(* could not be read, which checkBindings takes for a role that does not   *)
(* exist; a failed read of one role does not hide what another grants.  (A *)
(* binding moved from one granting role to another is no such grant: the   *)
(* first role may lose its rule between the list and the look at the role.)*)
(***************************************************************************)
DeniedWithoutGrant == call.at = "denied" => lasting \subseteq call.missed

=============================================================================
