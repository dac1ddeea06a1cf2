CONSTANTS
  Capacity = 3
  Modulus = 6
  Values = {a, b}
  Nil = Nil
  MaxBatch = 2
SPECIFICATION Spec
INVARIANTS TypeOK NoDataRace CopyStable
PROPERTIES ImplementsFifo CallsReturn
CHECK_DEADLOCK TRUE
