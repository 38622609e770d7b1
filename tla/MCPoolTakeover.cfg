SPECIFICATION FairSpec
CONSTANTS
  Names <- MCNames
  Paths <- OnePath
  Workspace <- MCWorkspace
  Accesses <- ToolFree
  Runs = {r1, r2}
  Children = {c1}
  NoChild = NoChild
  MaxFaults = 2
  MaxDeaths = 2
INVARIANTS
  OneRunPerChild
  SoleRecorder
  TranscriptsShowResult
  ResultsOutlive
  NothingSeemsToRun
PROPERTIES
  CancelTerminates
  ImplementsRunTable
