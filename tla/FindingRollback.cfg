SPECIFICATION Spec
CONSTANTS
  Builds <- Drivers
  Conf <- Leaves
  Names = {1, 2, 3}
  MaxSnapshots = 2
  MaxFaults = 0
  MaxOps = 4
INVARIANT RollbackReturns
CHECK_DEADLOCK FALSE
