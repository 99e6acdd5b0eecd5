SPECIFICATION Spec
CONSTANTS
  r1 = r1
  r2 = r2
  c1 = c1
  account = account
  oidc = oidc
  role = role
  otherRules = otherRules
  binding = binding
  roleRef = roleRef
  None = None
  Requests = {r1}
  Clusters = {c1}
  Objects = {account, oidc, role, otherRules, binding, roleRef}
  ClusterOf <- MCClusterOf
  KindOf <- MCKindOf
  NameOf <- MCNameOf
  BoundTo <- MCBoundTo
  Wanted <- MCWanted
  MaxGen = 2
  MaxFaults = 1
  Env = {"crash", "respec", "annotate"}
INVARIANT NoPermissionLeft
INVARIANT GrantIsExact
INVARIANT AccessInv
INVARIANT RenewalIsAhead
PROPERTY ImplementsGrant
