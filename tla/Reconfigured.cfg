SPECIFICATION Spec
CONSTANTS
  c1 = c1
  c2 = c2
  p = p
  ls = ls
  ns = ns
  x = x
  y = y
  None = None
  Clusters = {c1}
  Profiles = {p}
  Landscapes = {ls}
  Namespaces = {ns}
  Names = {x, y}
  ProfileOf <- MCProfileOf
  ProfileSpecs <- MCProfileSpecs
  HashName <- MCHashName
  LabelNames <- MCLabelNames
  MaxVersion = 2
  MaxFaults = 2
  Env = {"crash", "generation", "reprofile", "upgrade", "annotate", "gap", "reregister", "landscapes", "dropprofile", "gardendelete", "tombstone", "listfails"}
INVARIANT IInv
INVARIANT NoOrphanedShoot
PROPERTY VersionNeverLowered
