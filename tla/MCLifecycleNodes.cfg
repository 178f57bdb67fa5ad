CONSTANTS
  c1 = c1
  c2 = c2
  u1 = u1
  u2 = u2
  Cluster = {c1}
  Unreadable = {}
  Legacy = {}
  Panicky = {}
  User = {u1, u2}
  NoOwner = NoOwner
  NoMeta = NoMeta
  FarFuture = 20
  Req = {r1, r2}
  Request <- OneCluster
  MaxNodes = 2
  MaxLease = 4
  Lease = 1
  MaxTime = 2
  MaxCrashes = 1
SYMMETRY Symmetry
SPECIFICATION Spec
INVARIANTS Registered KillEffective RollbackComplete OwnerIsCreator
PROPERTIES LeaseHonoured
