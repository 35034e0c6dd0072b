\* Everything that is due happens in time and Server.mu is never held for long:
\* the bounds on the response, and no trip without a cause.
SPECIFICATION Spec
CONSTANTS
  Execs = {e1, e2}
  Callback = 3
  LockLimit = 0
  Response = 5
  Timely = TRUE
  Steps <- MCNoSteps
  None = None
SYMMETRY Symmetry
INVARIANTS TypeOK StallStopsPulses TripsHaveCause
