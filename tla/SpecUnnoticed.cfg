SPECIFICATION FairSpec
CONSTANTS
  r1 = r1
  r2 = r2
  c1 = c1
  account = account
  oidc = oidc
  role = role
  otherRules = otherRules
  binding = binding
  roleRef = roleRef
  None = None
  Requests = {r1}
  Clusters = {c1}
  Objects = {account, oidc, role, otherRules, binding, roleRef}
  ClusterOf <- MCClusterOf
  KindOf <- MCKindOf
  NameOf <- MCNameOf
  BoundTo <- MCBoundTo
  Wanted <- MCWantedOIDC
  MaxGen = 2
  MaxFaults = 0
  Env = {"respec"}
PROPERTY SpecIsApplied
