CONSTANTS
  c1 = c1
  c2 = c2
  u1 = u1
  u2 = u2
  Cluster = {c1}
  Unreadable = {}
  Legacy = {}
  Panicky = {c1}
  User = {u1, u2}
  NoOwner = NoOwner
  NoMeta = NoMeta
  FarFuture = 20
  Req = {r1, r2}
  Request <- Basic
  MaxNodes = 1
  MaxLease = 4
  Lease = 1
  MaxTime = 2
  MaxCrashes = 0
SPECIFICATION Spec
INVARIANTS OnlyDeadCleaned
