SPECIFICATION Spec
CONSTANTS
  Recorders = {p1, p2}
  NoRecorder = NoRecorder
  Sizes = {2}
  MaxAppends = 3
SYMMETRY Symmetry
INVARIANTS
  FileParses
  WriterAtFrontier
PROPERTIES
  ImplementsDurableLog
