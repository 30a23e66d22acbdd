SPECIFICATION MCSpec
CONSTANTS
  older = older
  newer = newer
  tool = tool
  Procs = {older, newer, tool}
  Build <- MCBuild
  Facts = {x, y}
  Absent = Absent
  PerSecond = 2
  Threads = {t1, t2}
  Keys = {k1, k2}
  MaxTime = 3
  MaxCalls = 3
  NULL = NULL
INVARIANTS
  ServingSchemaIsComplete RestoreIsExact RepositoriesHold
PROPERTIES
  ImplementsDatabase
CHECK_DEADLOCK FALSE
