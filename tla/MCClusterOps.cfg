CONSTANTS
  b1 = b1
  b2 = b2
  Req = {q1, q2}
  Request <- All
  Bucket = {b1, b2}
  Count = 2
  N = 2
  MaxWipes = 1
SPECIFICATION FairSpec
INVARIANTS SampleServed PolledWhenReady CertWorks Inv
PROPERTIES OpsEnd
CHECK_DEADLOCK FALSE
