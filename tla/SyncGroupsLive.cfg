SPECIFICATION FairSpec
CONSTANTS
  Participants <- MCThree
  Groupers <- MCClosedOrJoined
  FailBelowMin = FALSE
  MaxWaitAction = "fail"
  LateAction = "fail"
  Rounds = 1
  MaxRequests = 2
  MaxFaults = 0
PROPERTIES
  CountSettles
  DueIsReleased
  DissolutionFinishes
CHECK_DEADLOCK FALSE
