CONSTANTS
  a1 = a1
  a2 = a2
  Assets = {a1, a2}
  StoredSets <- MCBothStored
  HasAnalysis = TRUE
  Analysis = Analysis
  Request = Request
  Exit = Exit
  Backstop = Backstop
  Clock = Clock
  Nobody = Nobody
  MaxFaults = 0
SPECIFICATION Spec
INVARIANT FinalizedIsAnalysed
CHECK_DEADLOCK FALSE
