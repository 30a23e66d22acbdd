SPECIFICATION Spec
CONSTANTS
  acme = acme
  globex = globex
  v1 = v1
  v2 = v2
  Day = 1
  LastIndex = 2
  Items <- OneItem
  ThreadOf <- OneThread
  Versions <- OneVersion
  Content <- ShortCadence
  CatchUp = FALSE
  TickerOn = TRUE
  MaxTime = 2
  MaxCrashes = 1
  MaxFaults = 1
  MaxPostpones = 0
PROPERTY
  TerminalIsFinal
