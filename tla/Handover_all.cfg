SPECIFICATION Spec
CONSTANTS
  Versions = {1, 2, 3}
  Size <- MCSize
  Limit = 2
  MaxAttempts = 2
  Agents = {"linux", "linux2"}
  Host <- MCHost
  Tools = {"t1", "t2"}
  Ids = {"j1", "j2"}
  PlanId = "j1"
  Planner = "linux"
  Configurations <- MCConfigurations
  Archives <- MCArchives
  Directories <- MCDirectories
  Environments = {"e1"}
  Fetching = {"plan"}
INVARIANTS
  TypeOK
  DownloadIsWhole
  ExtractionIsExact
  AppliedIsPlanned
  RefusedForCause
