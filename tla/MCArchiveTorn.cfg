SPECIFICATION Spec
CONSTANTS
  root = root
  kid = kid
  grandkid = grandkid
  Members = {root, kid}
  Root = root
  ParentOf <- Pair
  Processes = {p1}
  NoProcess = NoProcess
  Artifacts = {a1}
  Dir = Dir
  Savers = {root, kid}
  MaxRecords = 2
  MaxFaults = 0
SYMMETRY Symmetry
INVARIANTS
  FolderIsAuthoritative
