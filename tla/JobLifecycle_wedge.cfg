SPECIFICATION FairSpec
CONSTANTS
  Jobs <- MCJobs
  ApplyJobs <- MCApplyJobs
  Fingerprints = {f1}
  Dirs = {d1, d2}
  LargeStates = TRUE
  Single = FALSE
  MaxFaults = 1
  MaxOffers = 0
  NoJob = NoJob
  NoDir = NoDir
  NoFingerprint = NoFingerprint
  NoCompletion = NoCompletion
PROPERTIES
  PendingIsReported
