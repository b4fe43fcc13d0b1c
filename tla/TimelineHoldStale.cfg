SPECIFICATION Spec
CONSTANTS
  Timeline <- MCPageAndHold
  MaxWait = 1
  MaxWaitFails = TRUE
  r1 = r1
  r2 = r2
  Requests = {r1, r2}
  Secrets = {1}
  None = None
  MaxTime = 2
PROPERTY
  ReleasedGoesOn
CHECK_DEADLOCK FALSE
