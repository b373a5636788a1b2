CONSTANTS
  s1 = s1
  s2 = s2
  Stoppers <- NoStopper
  Containerized = TRUE
  MaxProcessRestartAttempts = 0
  MaxProcesses = 1
  MaxLines = 0
  MayWriteStderr = {FALSE}
SPECIFICATION FairSpec
PROPERTY WatchdogActs
CHECK_DEADLOCK FALSE
