\* Two fixes, one thing goes wrong.
SPECIFICATION FairSpec
CONSTANTS
  Services <- Units
  Hibernate = "nvidia-hibernate"
  Machines <- Found
  Profiles <- Mode
  MaxFixes = 2
  MaxFaults = 1
INVARIANTS
  TypeOK
  OnTheBooks
PROPERTIES
  FixEffective
  HistoryKept
  EveryFixEnds
\* Once the fixes are spent there may be nothing left to revert.
CHECK_DEADLOCK FALSE
