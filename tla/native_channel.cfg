SPECIFICATION MCSpec
CONSTANTS
  MaxPorts = 3
  MaxRequests = 4
  MaxFrames = 2
  MaxTicks = 1
INVARIANTS
  ReadyIsAnswered FramesAreWhole
PROPERTIES
  EveryCallSettles HostEnds
CHECK_DEADLOCK FALSE
