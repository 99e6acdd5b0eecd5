SPECIFICATION FairSpec
CONSTANTS
  c1 = c1
  c2 = c2
  p = p
  ls = ls
  ns = ns
  x = x
  y = y
  None = None
  Profiles = {p}
  Landscapes = {ls}
  Namespaces = {ns}
  ProfileOf <- MCProfileOf
  ProfileSpecs <- MCProfileSpecs
  HashName <- MCHashName
  MaxVersion = 2
  MaxFaults = 1
  Clusters = {c1}
  Names = {x, y}
  LabelNames <- MCLabelNames
  Env = {"crash", "foreign", "reprofile", "health"}
INVARIANT SettledIsServed
PROPERTY DeletionIsWanted
PROPERTY ImplementsLifecycle
PROPERTY DeletionCompletes
PROPERTY ShootFollowsProfile
PROPERTY HealthIsReported
