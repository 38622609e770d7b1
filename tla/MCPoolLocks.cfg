SPECIFICATION Spec
CONSTANTS
  Names <- MCNames
  Paths <- MCPaths
  Workspace <- MCWorkspace
  Accesses <- MCAccesses
  Runs = {r1, r2}
  Children = {c1, c2}
  NoChild = NoChild
  MaxFaults = 1
  MaxDeaths = 0
SYMMETRY Symmetry
INVARIANTS
  LockExclusion
  RequestReachesRun
  SuccessWithinLock
