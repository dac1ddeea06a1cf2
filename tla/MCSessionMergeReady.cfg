CONSTANTS
  Fields = {f, g}
  Values = {v, w}
  Empty = Empty
  NoPlan = NoPlan
  MaxChanges = 2
  MaxResolutions = 2
  MaxMoves = 1
SPECIFICATION MergeSpec
SYMMETRY MergeSymmetry
INVARIANTS ReadyMeansResolved
