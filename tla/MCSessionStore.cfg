CONSTANTS
  Files = {f1, f2, f3, f4, f5, f6}
  NoFile = NoFile
  WriteThrough = TRUE
  MaxRevision = 4
  MaxCrashes = 2
  MaxFailures = 1
  MaxDamage = 1
SPECIFICATION Spec
SYMMETRY FileSymmetry
INVARIANTS TypeOK SavedIsDurable DamageCostsOneRevision
CHECK_DEADLOCK FALSE
