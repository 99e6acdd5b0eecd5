SPECIFICATION Spec
CONSTANTS
  l1 = l1
  l2 = l2
  p1 = p1
  p2 = p2
  t1 = t1
  t2 = t2
  None = None
  Landscapes = {l1}
  Configs = {p1}
  Templates = {t1}
  Accesses = {"none", "denied", "empty", "granted"}
  MaxFaults = 2
  Env = {"crash", "annotate", "ignore", "watchfails", "access", "project"}
INVARIANT RuntimeInv
INVARIANT NoOrphanedProfile
INVARIANT SettledIsRegistered
PROPERTY UsedLandscapeKept
PROPERTY ImplementsRegistry
