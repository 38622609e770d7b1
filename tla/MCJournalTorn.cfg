SPECIFICATION Spec
CONSTANTS
  Recorders = {p1}
  NoRecorder = NoRecorder
  Sizes = {2}
  MaxAppends = 1
INVARIANTS
  TornTailIsIgnored
