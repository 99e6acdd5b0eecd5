SPECIFICATION FairSpec
CONSTANTS
  c1 = c1
  c2 = c2
  k1 = k1
  k2 = k2
  e1 = e1
  v1 = v1
  v2 = v2
  None = None
  Clusters = {c1}
  Configs = {k1, k2}
  RefLists <- MCRefLists
  Exts = {e1}
  Values = {v1, v2}
  ContentsOf <- MCContentsOf
  Template <- MCTemplate
  Enforced <- MCEnforced
  MaxFaults = 1
  Env = {"crash", "deleteconfig"}
INVARIANT SettledIsUpToDate
INVARIANT ConfigsInv
PROPERTY ConfigsOutliveClusters
PROPERTY ConfigsReachShoot
PROPERTY ClusterIsReleased
