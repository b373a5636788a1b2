CONSTANTS
  Branches = {a, b}
  Kinds = {"merge", "squash", "parent", "push", "pr"}
  HasOrigin = TRUE
  MaxJobs = 2
  MaxPushed = 2
  MaxPreviews = 1
SYMMETRY BranchSymmetry
SPECIFICATION Spec
INVARIANTS
  TypeOK
  SuccessMeansMerged
  
  SquashIsNotLost
  ConflictIsReported
  EndsWithResult
CHECK_DEADLOCK FALSE
