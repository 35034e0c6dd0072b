\* Stalls, crashes of the watchdog and a Server.mu held for long: what the
\* health bit still vouches for, and what must eventually happen.
SPECIFICATION FairSpec
CONSTANTS
  Execs = {e1}
  Callback = 3
  LockLimit = 5
  Response = 5
  Timely = TRUE
  Steps <- MCNoSteps
  None = None
PROPERTIES SnapshotConveyed WatchdogLossLatches StallIsStopped
