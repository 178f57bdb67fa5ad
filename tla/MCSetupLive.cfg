CONSTANTS
  N = 2
  Config <- WithBucket
  Handler = {h1, h2}
  MaxSetups = 2
SPECIFICATION FairSpec
INVARIANTS Inv
PROPERTIES EjectedAtRest SetupEnds
CHECK_DEADLOCK FALSE
