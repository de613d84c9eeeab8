\* Two operations of any kind, two stops; threads that may not start and
\* markers that cannot be removed.  (OperationProgress has the inhibitor locks
\* that are refused: here they would only take away what can leak.)  The marker
\* is always written and dpkg --audit answers, as InterruptionReported assumes;
\* a failed snapshot changes none of these properties.
SPECIFICATION Spec
CONSTANTS
  Op = {o1, o2}
  NoOp = NoOp
  Called = {"install", "rollback", "repair", "fixPower", "fixModule"}
  MayFail = {"thread", "unlink"}
  MaxStops = 2
SYMMETRY OpSymmetry
INVARIANTS
  TypeOK
  OneWorker
  NoStaleCallback
  StreamWellFormed
  AuditAgrees
  NoInhibitorLeak
  InterruptionReported
PROPERTIES
  FreedOnlyAfterComplete
