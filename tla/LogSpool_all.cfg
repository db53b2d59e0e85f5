SPECIFICATION FairSpec
CONSTANTS
  MaxJobs = 2
  MaxPieces = 2
  MaxFaults = 1
INVARIANTS
  TypeOK
  SeqNamesOneContent
  OrderedWhileComplete
  CompleteUnlessReported
PROPERTIES
  FilesLeaveDelivered
  UploaderStops
  ChunkGetsThrough
CHECK_DEADLOCK FALSE
