SPECIFICATION FairSpec
CONSTANTS
  Requests = {1, 2}
  Kinds <- AllKinds
  Unset = Unset
  ProbeThreshold = 2
  MaxSignals = 2
  MaxOutages = 1
CHECK_DEADLOCK FALSE
INVARIANTS CleanUnlessCause AcceptedWasHanded
PROPERTIES LostConnectionEnds
