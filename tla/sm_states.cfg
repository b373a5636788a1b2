CONSTANTS
  Threads = {t1, t2}
  Sessions = {s1}
  Calls = {"Select", "DeleteSession", "StartWaiting", "StopWaiting", "StartMerge", "StopMerge", "SetPendingMsg", "GetPendingMessage", "AddToolUse", "MarkToolUseComplete", "FlushToolUseRollup"}
  MaxStates = 1
  MaxCancels = 2
  MaxQueued = 1
  MaxToolUses = 2
  Parents = {"none"}
  Tools = {}
  MaxRunners = 1
  MaxMessages = 0
SYMMETRY ThreadSymmetry
SPECIFICATION Spec
INVARIANTS
  TypeOK
  CancelIsNotLost
  MessageIsTakenOnce
  
  
CHECK_DEADLOCK FALSE
