SPECIFICATION Spec
CONSTANTS
  acme = acme
  globex = globex
  v1 = v1
  v2 = v2
  Day = 1
  LastIndex = 2
  Items <- OneItem
  ThreadOf <- OneThread
  Versions <- OneVersion
  Content <- ShortCadence
  CatchUp = TRUE
  TickerOn = FALSE
  MaxTime = 2
  MaxCrashes = 2
  MaxFaults = 1
  MaxPostpones = 0
INVARIANT
  NoHalfFiredStep
