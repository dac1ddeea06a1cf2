CONSTANTS
  Messages <- AllMessages
  Policies <- AllPolicies
  MaxPerWindow = 2
  RateWindow = 2
  EchoWindow = 1
  EchoSlots = 2
  QueueCapacity = 2
  MaxTime = 3
  MaxForwards = 4
SPECIFICATION MCSpec
INVARIANTS EchoesNeverReturn BurstsAreBounded TransportIsForwarded
