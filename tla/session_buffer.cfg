SPECIFICATION FairBufferSpec
CONSTANTS
  d1 = d1
  d2 = d2
  d3 = d3
  i1 = i1
  i2 = i2
  t1 = t1
  t2 = t2
  Decisions <- ThreeDecisions
  Instances <- TwoInstances
  Tasks <- TwoTasks
  Cap = 2
  MaxEvents = 3
  MaxRestarts = 1
  MaxFailures = 1
INVARIANTS
  BuffersAreExact
PROPERTIES
  BadgeCatchesUp
CHECK_DEADLOCK FALSE
