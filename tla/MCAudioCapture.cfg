CONSTANTS
  Capacity = 3
  Channels = 2
  Frames = 2
  Batch = 3
  MaxRuns = 2
  MaxPackets = 2
  Processes = {p1, p2}
  Instruments = {d1, d2}
  None = None
  Pulses = 2
  MaxTrouble = 2
SPECIFICATION MCSpec
SYMMETRY Permuted
INVARIANTS TypeOK SamplesAccounted QueueIsTheStream NothingLeftRunning CallbackHasItsInput
