SPECIFICATION Spec
CONSTANTS
  acme = acme
  globex = globex
  v1 = v1
  v2 = v2
  Day = 2
  LastIndex = 3
  Items <- OneItem
  ThreadOf <- OneThread
  Versions <- BothVersions
  Content <- TwoCadences
  CatchUp = TRUE
  TickerOn = FALSE
  MaxTime = 5
  MaxCrashes = 2
  MaxFaults = 1
  MaxPostpones = 1
INVARIANTS
  OneDraftPerStep ShownAtMostOnce
PROPERTIES
  NoSilentSkip ImplementsLifecycle
