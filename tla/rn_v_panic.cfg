CONSTANTS
  MaxProcessRestartAttempts = 1
  MaxRequests = 1
  MaxManagers = 1
  MaxProcesses = 2
  MaxLines = 1
  MaxCalls = 0
SPECIFICATION Spec
INVARIANTS
  NoPanic
CHECK_DEADLOCK FALSE
