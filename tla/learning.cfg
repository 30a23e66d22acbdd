SPECIFICATION MCSpec
CONSTANTS
  d = d
  f = f
  g = g
  Domains = {d}
  NoDomain = NoDomain
  Folders = {f, g}
  OtherLabels = {"newsletter"}
  Imported <- MCImported
  MinMoves = 1
  MinCorrections = 3
  Bar = 60
  MinSupport = 2
  MaxRows = 3
  Wired <- MCWired
  Offers <- MCOffers
  Requests <- MCRequests
  Clashing <- MCClashing
  MaxPasses = 1
SYMMETRY Symmetry
INVARIANTS
  ContradictingCandidatesCannotBothClear AdviceIsHarmless CurationIsTraced
PROPERTY
  ScanMissesNothing
CHECK_DEADLOCK FALSE
