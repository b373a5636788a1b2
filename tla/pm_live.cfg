CONSTANTS
  s1 = s1
  s2 = s2
  Stoppers <- OneStopper
  Containerized = FALSE
  MaxProcessRestartAttempts = 1
  MaxProcesses = 2
  MaxLines = 1
  MayWriteStderr = {FALSE}
SPECIFICATION FairSpec
INVARIANTS
  TypeOK
  RestartBudget
PROPERTIES
  ExitHandled
  StopReturnsOrRestarted
  ImplementsLifecycle
  ImplementsFairLifecycle
CHECK_DEADLOCK FALSE
