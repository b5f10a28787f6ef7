SPECIFICATION Spec
CONSTANTS
  a1 = a1 a2 = a2 i1 = i1 i2 = i2 h1 = h1 h2 = h2
  nil = nil zero = zero
  Activity <- MCActivity
  Instance <- TwoInstances
  Host = {h1, h2}
  HostOf <- MCHostOf
  Databases <- OneDatabase
  Range = {1, 2, 3}
  Busy = {3}
  Explicit = {2}
  Requests <- MCRequests
  NoPort = nil
  Random = zero
  MaxRetries = 2
  MaxVersion = 2
  MaxFaults = 1
  Exclusive = TRUE
INVARIANT UniquePorts
INVARIANT MarkedMeansOwned
SYMMETRY Symmetry
