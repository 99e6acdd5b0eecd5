SPECIFICATION Spec
CONSTANTS
  c1 = c1
  c2 = c2
  p = p
  ls = ls
  ns = ns
  x = x
  y = y
  z = z
  None = None
  Profiles = {p}
  Landscapes = {ls}
  Namespaces = {ns}
  ProfileOf <- MCProfileOf
  ProfileSpecs <- MCProfileSpecs
  HashName <- MCHashName
  MaxVersion = 2
  MaxFaults = 1
  Clusters = {c1, c2}
  Names = {x, z}
  LabelNames <- MCContended
  Env = {}
PROPERTY ShootNeverTakenOver
