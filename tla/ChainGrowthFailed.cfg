CONSTANTS
  Trials = {t1, t2, t3}
  Poller = Poller
  Dashboard = Dashboard
  Exit = Exit
  Nobody = Nobody
  TrialsPerNode = 1
  MaxSize = 3
  MaxFaults = 1
SPECIFICATION Spec
INVARIANT DescendantsFail
CHECK_DEADLOCK FALSE
