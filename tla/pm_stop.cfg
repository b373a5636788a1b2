CONSTANTS
  s1 = s1
  s2 = s2
  Stoppers <- OneStopper
  Containerized = TRUE
  MaxProcessRestartAttempts = 1
  MaxProcesses = 2
  MaxLines = 0
  MayWriteStderr = {FALSE, TRUE}
SPECIFICATION Spec
INVARIANTS
  AtMostOneLiveProcess
  StopQuiesces
  FatalIsFinal
  RunningIsConsistent
  NoContextLeaks
  StderrIsOwn
CHECK_DEADLOCK FALSE
