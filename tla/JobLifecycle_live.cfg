SPECIFICATION FairSpec
CONSTANTS
  Jobs <- MCJobs
  ApplyJobs <- MCApplyJobs
  Fingerprints = {f1}
  Dirs = {d1, d2}
  LargeStates = FALSE
  Single = FALSE
  MaxFaults = 2
  MaxOffers = 1
  NoJob = NoJob
  NoDir = NoDir
  NoFingerprint = NoFingerprint
  NoCompletion = NoCompletion
PROPERTIES
  OfferIsTaken
  ExecutingIsSettled
  PendingIsReported
  AckedIsCleaned
