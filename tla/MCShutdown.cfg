CONSTANT Handler = {h1, h2, h3}
SPECIFICATION FairSpec
INVARIANTS StoreOpen
PROPERTIES ShutdownEnds
CHECK_DEADLOCK FALSE
