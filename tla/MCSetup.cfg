CONSTANTS
  N = 3
  Config <- AllConfigs
  Handler = {h1}
  MaxSetups = 3
SPECIFICATION Spec
INVARIANTS SetupComplete JoinersReady EjectedFirst
CHECK_DEADLOCK FALSE
