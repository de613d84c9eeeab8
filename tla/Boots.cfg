SPECIFICATION Spec
CONSTANTS
  Branch <- Drivers
  Files = {"modprobe"}
  MaxEvents = 3
  MaxFaults = 1
INVARIANTS
  TrailAgrees
  NoFalseAlarm
PROPERTY RecapRight
CHECK_DEADLOCK FALSE
