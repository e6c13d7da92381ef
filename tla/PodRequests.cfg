SPECIFICATION Spec
CONSTANTS
  u1 = u1
  r1 = r1
  r2 = r2
  cb = cb
  rb = rb
  Users = {u1}
  NoUser = NoUser
  Tokens = {"t1"}
  NoToken = "none"
  Groups = {"ops", "system:masters"}
  Masters = "system:masters"
  Roles = {r1, r2}
  Bindings = {cb, rb}
  ScopeOf <- Scope
  BindingRows <- SomeRows
  RuleSets <- SomeRules
  Requests <- SomeRequests
  AnonymousAllowed = TRUE
  RbacEnforce = TRUE
  Registrations <- SomeHooks
  InitialHooks <- Initially
  Pods <- SomePods
  MaxHooks = 3
  MaxChanges = 2
INVARIANTS TypeOK AllowedByGrant DeniedWithoutGrant AdmittedMeetsDemands
