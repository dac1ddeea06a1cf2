CONSTANTS
  Projects <- MCProjects
  Carried <- MCCarried
  XpjNames <- MCNames
  StableId <- StableIds
  None = None
  Torn = Torn
  Fields = {f, g}
  Values = {v, w}
  Empty = Empty
  NoPlan = NoPlan
  MaxChanges = 2
  MaxResolutions = 2
  MaxMoves = 1
SPECIFICATION PipelineSpec
SYMMETRY MergeSymmetry
INVARIANTS WrittenImportsAreWhole
 ReadyArchivesAreComplete NothingLost NothingOverwritten
CHECK_DEADLOCK FALSE
