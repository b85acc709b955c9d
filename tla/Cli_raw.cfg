SPECIFICATION Spec
CONSTANTS
  p1 = p1
  p2 = p2
  None = None
  Absent = Absent
  Original = Original
  Symlink = Symlink
  Processes <- TwoProcesses
  Paths = {"profile"}
  Clips = {"clip"}
  Hosts = {"h1", "h2"}
  Cameras = {"known", "custom"}
  Seeds = {"table", "own"}
  PskForDeviceId <- MCPskForDeviceId
  SeedOf <- MCSeedOf
  InTheClear <- MCInTheClear
  Catalog <- MCCatalog
  Retries = 1
  RawPaths <- MCRawPaths
  RawFlags <- MCRawFlags
  Lookups <- MCLookups
  Scenarios <- RawScenarios
  UserProfiles <- MCUserProfiles
PROPERTY FixedWritesAreAvailable
CHECK_DEADLOCK FALSE
