SPECIFICATION Spec
CONSTANTS
  Configs <- MCConfigs
  Paths <- MCPaths
  NoPath = "none"
  Addresses = {1, 2}
  MaxRecords = 2
INVARIANT TypeOK
INVARIANT LiveIsAuthorised
INVARIANT PostsAreAuthorised
 
CHECK_DEADLOCK FALSE
