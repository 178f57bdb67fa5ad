CONSTANTS
  NoVersion = NoVersion
  Req = {q1, q2}
  Known <- AllVersions
  Request <- Requests
  Products <- TwoProducts
  Builds <- AllBuilds
  Chunk = 2
SPECIFICATION Spec
INVARIANTS ContextIntact OneSurvives Published SameVersionAtRest ImagesReady Inv
CHECK_DEADLOCK FALSE
