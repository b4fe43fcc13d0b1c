CONSTANTS
  a1 = a1
  a2 = a2
  Assets = {a1, a2}
  StoredSets <- MCMixed
  HasAnalysis = TRUE
  Analysis = Analysis
  Request = Request
  Exit = Exit
  Backstop = Backstop
  Clock = Clock
  Nobody = Nobody
  MaxFaults = 1
SPECIFICATION FairSpec
INVARIANTS FinalizedOnce AnalysedOnce UploadsAreAnalysed
PROPERTIES FailedIsNotFinalized AnsweredIsSettled JobsEnd
CHECK_DEADLOCK FALSE
