CONSTANTS
  MaxProcessRestartAttempts = 1
  MaxRequests = 2
  MaxManagers = 2
  MaxProcesses = 2
  MaxLines = 2
  MaxCalls = 1
SPECIFICATION Spec
INVARIANTS
  TypeOK
  FlagsAreTrue
  NoBareClose
  NoSilentEnd
CHECK_DEADLOCK FALSE
