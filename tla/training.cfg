SPECIFICATION MCSpec
CONSTANTS
  strict = strict
  loose = loose
  taught = taught
  agreed = agreed
  kept = kept
  review = review
  Runs = {strict, loose}
  Request <- MCRequest
  Rows = {taught, agreed, kept, review}
  TaskOf <- MCTaskOf
  SplitOf <- MCSplitOf
  Overridden = {taught}
  Labels <- SomeLabels
  Bodies <- SomeTexts
  MaxExamples = 2
  Loras = {"sft", "preference"}
INVARIANTS ActiveWasApproved HoldoutIsNeverTrained ExportIsAsDeclared
CHECK_DEADLOCK FALSE
