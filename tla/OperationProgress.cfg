\* Two operations, one stop, fairness, no symmetry; every thread starts, and an
\* inhibitor lock may be refused.
SPECIFICATION FairSpec
CONSTANTS
  Op = {o1, o2}
  NoOp = NoOp
  Called = {"install", "repair"}
  MayFail = {"inhibit"}
  MaxStops = 1
PROPERTIES
  ImplementsSlot
  EventuallyAnswered
  EventuallyFree
