CONSTANTS
  Receivers = {r1, r2, r3}
  Nobody = Nobody
  Required = TRUE
  MaxFaults = 3
SPECIFICATION FairSpec
INVARIANTS PublishedIsThere OneReceiver FailsWithRecording
PROPERTIES FinalIsFinal Resolves VolumeIsCleared
CHECK_DEADLOCK FALSE
