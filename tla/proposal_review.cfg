SPECIFICATION Spec
CONSTANTS
  Proposals = {p1, p2}
  Imports = {r}
  Recommended = {"shadow_mode", "pending_human_review"}
  Nowhere = nowhere
SYMMETRY Symmetry
INVARIANTS
  AcceptedTookEffect DecisionsRecorded OnlyApprovedIsEvaluated
