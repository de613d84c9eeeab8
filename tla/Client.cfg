SPECIFICATION FairSpec
CONSTANTS
  Op = {o1, o2}
  NoOp = NoOp
  view = view
  View <- Views
  Offers <- AllOffers
  Mode = {"normal", "gpu_lost"}
  MaxWork = 3
  MaxEvents = 1
INVARIANTS
  MirrorTrue
  OwnOutcome
PROPERTIES
  DialogEnds
\* All dialogs may have been opened and closed.
CHECK_DEADLOCK FALSE
