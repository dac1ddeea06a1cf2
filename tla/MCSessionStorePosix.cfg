CONSTANTS
  Files = {f1, f2, f3, f4, f5, f6}
  NoFile = NoFile
  WriteThrough = FALSE
  MaxRevision = 2
  MaxCrashes = 1
  MaxFailures = 0
  MaxDamage = 0
SPECIFICATION Spec
SYMMETRY FileSymmetry
INVARIANTS SavedIsDurable
CHECK_DEADLOCK FALSE
