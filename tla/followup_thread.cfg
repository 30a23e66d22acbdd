SPECIFICATION Spec
CONSTANTS
  acme = acme
  globex = globex
  v1 = v1
  v2 = v2
  Day = 2
  LastIndex = 2
  Items <- TwoItems
  ThreadOf <- OneThread
  Versions <- OneVersion
  Content <- ShortCadence
  CatchUp = TRUE
  TickerOn = FALSE
  MaxTime = 4
  MaxCrashes = 1
  MaxFaults = 1
  MaxPostpones = 0
PROPERTIES
  ReplyStopsThread CatchUpIsComplete
