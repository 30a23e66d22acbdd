SPECIFICATION MCSpec
CONSTANTS
  None = None
  MaxDrops = 1
  Decisions = {"d1", "d2"}
  Suggested <- MCSuggested
  Reversible = {"d2"}
  Fixed = {"d2"}
  Proposals = {"p1"}
  Deals = {"f1"}
  Filters = {"all", "applied"}
  Waiting = {"d2", "f1"}
  MaxClicks = 2
  MaxArrivals = 1
  Offers = {"tag", "move"}
  MaxPresses = 2
INVARIANTS
  FiltersNeverMix
  PagesSettle
PROPERTY
  RefreshComes
CHECK_DEADLOCK FALSE
