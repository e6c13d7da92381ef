--------------------------- MODULE MCPodRequests ---------------------------
(* TLC instance of PodRequests. *)
EXTENDS PodRequests

CONSTANTS u1, r1, r2, cb, rb

Scope == [b \in {cb, rb} |-> IF b = cb THEN "ClusterRoleBinding" ELSE "RoleBinding"]

\* A binding to nobody, one to the user with the namespace left out for either
\* role, and one to a group in another namespace.
SomeRows ==
    {[ns |-> "", subjects |-> {}, role |-> r1],
     [ns |-> "", subjects |-> {[kind |-> "User", name |-> u1]}, role |-> r1],
     [ns |-> "", subjects |-> {[kind |-> "User", name |-> u1]}, role |-> r2],
     [ns |-> "dev", subjects |-> {[kind |-> "Group", name |-> "ops"]}, role |-> r2]}

Rule(v, g, r) == [verbs |-> {v}, groups |-> {g}, resources |-> {r}]
SomeRules == {{Rule("get", "*", "pods")}, {Rule("*", "apps", "*"), Rule("create", "*", "pods")}}

Request(t, ns) == [token |-> t, verb |-> "create", group |-> "core", resource |-> "pods", ns |-> ns]
SomeRequests == {Request(NoToken, ""), Request("unknown", ""),
                 Request("t1", "default"), Request("t1", "dev")}

Hook(n, t, d, r, p) == [name |-> n, type |-> t, does |-> d, resources |-> r, policy |-> p]
Label(p) == Hook("label", "Mutating", "mutateAddLabel", {"*"}, p)
Inject(n) == Hook(n, "Mutating", "injectSidecar", {"pods"}, "Fail")
Limits(p) == Hook("limits", "Validating", "validateMemLimit", {"pods"}, p)
SomeHooks == {Label(""), Inject("inject"), Inject("again"), Limits("Ignore")}
Initially == {<<Limits("Fail"), Label("Ignore"), Inject("inject")>>}

PodOf(o, cs) == [optedIn |-> o, admitted |-> FALSE, containers |-> cs]
SomePods ==
    {PodOf(FALSE, <<<<"app", TRUE>>>>), PodOf(TRUE, <<<<"app", TRUE>>>>),
     PodOf(TRUE, <<<<"app", TRUE>>, <<"mk-sidecar", TRUE>>>>)}
=============================================================================
