SPECIFICATION Spec
CONSTANTS
  Calls = {c1}
  MaxFaults = 0
INVARIANT Reachable
CHECK_DEADLOCK FALSE
