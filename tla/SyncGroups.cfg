SPECIFICATION Spec
CONSTANTS
  Participants <- MCThree
  Groupers <- MCClosedOrOpen
  FailBelowMin = TRUE
  MaxWaitAction = "kick"
  LateAction = "kick"
  Rounds = 2
  MaxRequests = 2
  MaxFaults = 1
INVARIANTS
  InStep
  ClosedIsEmpty
  LocksHold
  WithinMaxSize
PROPERTY
  PassesWhole
CHECK_DEADLOCK FALSE
