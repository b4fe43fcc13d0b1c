SPECIFICATION FairSpec
CONSTANTS
  Participants <- MCParticipants
  Instances = {i1, i2}
  GroupSize = 2
  BatchSize = 2
  Poller = Poller
  None = None
  MaxPolls = 1
  MaxFaults = 1
INVARIANTS
  OneActiveVisit
  GroupsAreExact
  LockedStayWaiting
PROPERTIES
  GroupingSpec
  FullPoolForms
  ArrivalFinishes
CHECK_DEADLOCK FALSE
