SPECIFICATION FairSpec
CONSTANTS
  c1 = c1
  c2 = c2
  x = x
  y = y
  None = None
  Clusters = {c1}
  Secrets = {x, y}
  MaxFaults = 2
  Env = {}
INVARIANT SettledIsAsConfigured
INVARIANT FederationInv
INVARIANT NothingOutlivesCluster
PROPERTY FederationFollowsSwitch
