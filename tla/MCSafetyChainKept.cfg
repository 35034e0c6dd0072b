\* A snapshot kept while Server.mu is held: the health bit misses an executor
\* started since, or still covers one stopped since.
SPECIFICATION Spec
CONSTANTS
  Execs = {e1}
  Callback = 3
  LockLimit = 5
  Response = 5
  Timely = TRUE
  Steps <- MCNoSteps
  None = None
PROPERTIES HealthConveyed
