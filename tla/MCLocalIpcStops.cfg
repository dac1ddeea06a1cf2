CONSTANTS
  Server = Server
  Clients = {c1}
  NoClient = NoClient
  Keys = {k1, k2, k3, k4, k5, k6}
  NoKey = NoKey
  TornKey = TornKey
  RequestLimit = 0
  MaxCalls = 2
  MaxFaults = 1
SPECIFICATION Spec
PROPERTY StopsOnlyWhenAsked
CHECK_DEADLOCK FALSE
