\* Clients call, and polls may raise.
SPECIFICATION FairSpec
CONSTANTS
  IdleTicks <- Ticks
  Source <- Sources
  NoSource = 0
  Calls = TRUE
INVARIANTS
  TypeOK
  OneSource
  ExitOnlyAfterFailedPoll
PROPERTIES
  QuietDaemonStops
\* A daemon that has quit stays down.
CHECK_DEADLOCK FALSE
