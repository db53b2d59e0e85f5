SPECIFICATION Spec
CONSTANTS
  Jobs <- MCJobs
  ApplyJobs <- MCApplyJobs
  Fingerprints = {f1, f2}
  Dirs = {d1, d2, d3}
  LargeStates = TRUE
  Single = TRUE
  MaxFaults = 3
  MaxOffers = 1
  NoJob = NoJob
  NoDir = NoDir
  NoFingerprint = NoFingerprint
  NoCompletion = NoCompletion
SYMMETRY Symmetry
INVARIANTS
  TypeOK
  AtMostOneRun
  OneOutcomeTold
  DirectoryKept
  DirectoriesAccounted
PROPERTIES
  ImplementsContract
