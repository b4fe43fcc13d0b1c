CONSTANTS
  Handlers = {h1, h2}
  Tabs = {d1, d2}
  Nobody = Nobody
  Decided = 2
  Recruiters <- MCProlific
  MaxFaults = 0
SPECIFICATION Spec
INVARIANT PaidOnce
CHECK_DEADLOCK FALSE
