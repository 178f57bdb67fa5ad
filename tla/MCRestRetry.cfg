CONSTANTS
  Calls = 3
  Retry = {0, 1, 3}
  Repeatable = {1, 3}
SPECIFICATION FairSpec
INVARIANTS AttemptsBounded AnsweredIsSettled LastCallWins Inv
PROPERTIES ImplementsRestCalls CallsReturn
CHECK_DEADLOCK FALSE
