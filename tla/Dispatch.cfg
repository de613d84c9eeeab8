SPECIFICATION Spec
CONSTANTS
  Calls = {c1, c2}
  MaxFaults = 2
INVARIANTS
  OneAnswer
PROPERTY DealtWith
CHECK_DEADLOCK FALSE
