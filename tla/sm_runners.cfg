CONSTANTS
  Threads = {t1, t2}
  Sessions = {s1}
  Calls = {"Select", "DeleteSession", "SaveMessages", "SetRunner", "AddAllowedTool", "Shutdown"}
  MaxStates = 0
  MaxCancels = 0
  MaxQueued = 0
  MaxToolUses = 0
  Parents = {"messages"}
  Tools = {"Edit"}
  MaxRunners = 2
  MaxMessages = 2
SYMMETRY ThreadSymmetry
SPECIFICATION Spec
INVARIANTS
  LiveRunnersAreRegistered
  ForkInheritsHistory
  

  
CHECK_DEADLOCK FALSE
