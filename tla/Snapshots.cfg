\* Up to four installs or rollbacks, one thing goes wrong.
SPECIFICATION Spec
CONSTANTS
  Builds <- Drivers
  Conf <- Leaves
  Names = {1, 2, 3}
  MaxSnapshots = 2
  MaxFaults = 1
  MaxOps = 4
INVARIANTS
  Retention
  LatestKept
  RestoresSnapshot
  
\* The operations are numbered: after the last one there is nothing left to do.
CHECK_DEADLOCK FALSE
