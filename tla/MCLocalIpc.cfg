CONSTANTS
  Server = Server
  Clients = {c1, c2}
  NoClient = NoClient
  Keys = {k1, k2, k3, k4, k5, k6}
  NoKey = NoKey
  TornKey = TornKey
  RequestLimit = 2
  MaxCalls = 2
  MaxFaults = 2
SPECIFICATION MCSpec
INVARIANTS TypeOK UncleanEndsCounted AnsweredIsPersisted
PROPERTIES CountsSurvive CallsReturn ShutdownStops
CHECK_DEADLOCK FALSE
