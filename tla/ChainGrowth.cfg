CONSTANTS
  Trials = {t1, t2, t3, t4, t5}
  Poller = Poller
  Dashboard = Dashboard
  Exit = Exit
  Nobody = Nobody
  TrialsPerNode = 2
  MaxSize = 2
  MaxFaults = 1
SPECIFICATION FairSpec
INVARIANTS NotOverfilled OneGrower NobodyLeftBehind
PROPERTIES OneNodePerDegree ChainGrows
CHECK_DEADLOCK FALSE
