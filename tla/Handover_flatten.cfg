SPECIFICATION Spec
CONSTANTS
  Versions = {1, 2, 3}
  Size <- MCSize
  Limit = 2
  MaxAttempts = 2
  Agents = {"linux"}
  Host <- MCHost
  Tools = {"t1"}
  Ids = {"j1", "j2"}
  PlanId = "j1"
  Planner = "linux"
  Configurations <- MCCheckouts
  Archives <- MCArchives
  Directories <- MCDirectories
  Environments = {"e1"}
  Fetching = {"plan"}
INVARIANT ConfigurationIsFlattened
