CONSTANTS
  Intents = {i1}
  Values = {a, b}
  Timeouts = {0, 1, 2, 3}
  ClockMax = 3
  MaxTimeout = 2
  MaxRevision = 1
  Grid = 12
  Mappings <- MCMappings
  Hands <- MCHands
  MaxTurns = 2
SPECIFICATION MCSpec
INVARIANTS TypeOK AckIsTrue ConflictIsReal SidesAgreeAtRest EchoesDieOut
PROPERTIES SettledForever
SYMMETRY ValueSymmetry
CHECK_DEADLOCK FALSE
