SPECIFICATION Spec
CONSTANTS
  root = root
  kid = kid
  grandkid = grandkid
  Members = {root, kid, grandkid}
  Root = root
  ParentOf <- Lineage
  Processes = {p1, p2}
  NoProcess = NoProcess
  Artifacts = {a1}
  Dir = Dir
  Savers = {grandkid}
  MaxRecords = 2
  MaxFaults = 1
SYMMETRY Symmetry
INVARIANTS
  DeletedStaysGone
  WritersKeepTheirFile
  RestoredWhole
  ArtifactsKept
PROPERTIES
  ImplementsSessionStore
