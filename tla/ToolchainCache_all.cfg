SPECIFICATION FairSpec
CONSTANTS
  Resolvers = {a1, a2}
  Pruners = {p1}
  Dirs = {d1, d2}
  None = None
  MaxFaults = 1
INVARIANTS
  TypeOK
  NothingToReplace
  PartialOnlyByPrune
  LeftoversOnlyByFaults
PROPERTIES
  PublishedLasts
  ResolveEnds
CHECK_DEADLOCK FALSE
