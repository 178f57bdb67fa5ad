CONSTANTS
  Cluster = {c1, c2}
  Unreadable = {c2}
  User = {u1}
  NoOwner = NoOwner
  NoMeta = NoMeta
  FarFuture = 20
  Txn = {t1, t2, t3}
  Call <- MCCall
  ReadError = ReadError
SPECIFICATION Spec
INVARIANTS AckedLeaseKept CreatedOnce Inv
PROPERTIES LeaseNeverShrinks ImplementsRegistry
CHECK_DEADLOCK FALSE
