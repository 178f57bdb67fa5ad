CONSTANTS
  N = 2
  Config <- FewConfigs
  Handler = {h1}
  MaxSetups = 1
SPECIFICATION Spec
INVARIANTS RebalancedWhenOk
CHECK_DEADLOCK FALSE
