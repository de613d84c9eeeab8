SPECIFICATION Spec
CONSTANTS
  Packages = {"dkms", "plain", "bare", "none"}
  Secures = {"off", "unenrolled"}
  Snapshots = {"damaged"}
  MaxBoots = 1
  MaxVisits = 1
  MaxFaults = 1
INVARIANT FixDelivers
PROPERTIES
  FallbackHolds
  NoEndlessFix
CHECK_DEADLOCK FALSE
