SPECIFICATION Spec
CONSTANTS
  p1 = p1
  p2 = p2
  BlankId = BlankId
  None = None
  ProviderIds <- TwoProviders
  TypedKinds <- SomeKinds
  TypedLevels <- SomeLevels
  Cadences <- TwoCadences
  MaxRequests = 3
  MaxLaunches = 2
  MaxEdits = 1
INVARIANTS
  UnstartableIsForetold
PROPERTIES
  NoApplyWhilePaused RestartTakesEffect
CHECK_DEADLOCK FALSE
