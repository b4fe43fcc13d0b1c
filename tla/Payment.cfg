CONSTANTS
  Handlers = {h1, h2}
  Tabs = {d1, d2}
  Nobody = Nobody
  Decided = 2
  Recruiters <- MCAll
  MaxFaults = 1
SPECIFICATION Spec
SYMMETRY CallSymmetry
INVARIANTS TypeOK AutomaticOnce ReviewedOnce RecordedWasPaid
CHECK_DEADLOCK FALSE
