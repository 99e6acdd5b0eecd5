SPECIFICATION Spec
CONSTANTS
  c1 = c1
  c2 = c2
  p = p
  ls = ls
  ns = ns
  x = x
  y = y
  z = z
  None = None
  Profiles = {p}
  Landscapes = {ls}
  Namespaces = {ns}
  ProfileOf <- MCProfileOf
  ProfileSpecs <- MCProfileSpecs
  HashName <- MCHashName
  MaxVersion = 2
  MaxFaults = 2
  Clusters = {c1, c2}
  Names = {x, y, z}
  LabelNames <- MCRenamed
  Env = {"crash", "relabel"}
INVARIANT ReadyHasShoot
PROPERTY ShootNeverTakenOver
