\* One caller, watched, for long enough to be forgotten and to come back twice.
SPECIFICATION LimiterSpec
CONSTANTS
  Caller = {c1}
  Watched = {c1}
  Capacity <- SmallCapacity
  Cost <- SmallCost
  StaleTicks = 3
  CleanupTicks = 1
  MaxNow = 8
INVARIANTS
  TypeOK
  WindowBound
PROPERTIES
  ImplementsBuckets
