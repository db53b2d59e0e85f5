SPECIFICATION FairSpec
INVARIANTS
  TypeOK
  SupervisedUnlessLate
  FinishedIsWhole
  CancelLetsOneStart
PROPERTIES
  ImplementsRunContract
  RunEnds
CHECK_DEADLOCK FALSE
