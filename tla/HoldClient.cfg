SPECIFICATION FairSpec
CONSTANTS
  Timeline <- MCPageAndTwoHolds
  MaxWait = 1
  MaxWaitFails = TRUE
  r1 = r1
  r2 = r2
  Requests = {r1, r2}
  Secrets = {1, 2}
  None = None
  MaxTime = 1
  MaxEvents = 1
INVARIANTS
  AnsweredOnce
  LeftIsSettled
PROPERTIES
  LeavesWhenCleared
  ServerSpec
  HoldIsLeft
CHECK_DEADLOCK FALSE
