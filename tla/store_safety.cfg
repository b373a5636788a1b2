CONSTANTS
  Threads = {t1, t2, t3}
  Legacy = 1
  MaxSessions = 2
  MaxCrashes = 2
SYMMETRY ThreadSymmetry
SPECIFICATION Spec
INVARIANTS
  TypeOK
  SessionHasItsWorktree
  
PROPERTIES
  PruneKeepsMessages
CHECK_DEADLOCK FALSE
