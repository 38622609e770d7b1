SPECIFICATION Spec
CONSTANTS
  Names <- MCNames
  Paths <- MCPaths
  Workspace <- MCWorkspace
  Requests <- MCRequests
  Members = {m1, m2, m3}
  Root = root
  MaxDepth = 2
INVARIANTS
  RightsNarrow
  LockExclusion
  WritesAreLocked
  WritersAreRootChildren
  RestoredAsGranted
